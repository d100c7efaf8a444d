--------------------------- MODULE Reactions_proofs ---------------------------
(***************************************************************************)
(* What TLAPS proves of Reactions, for any emojis, any number of requests  *)
(* at the same time and any bounds: the reactions on the message are       *)
(* numbered and never doubled, one of the bot's can be taken back, and one *)
(* of the peer's has one turn as long as the adapter has room for the ids. *)
(***************************************************************************)
EXTENDS Reactions, SequenceTheorems, FiniteSetTheorems, WellFoundedInduction, TLAPS

-------------------------------------------------------------------------------
(***************************************************************************)
(* Sequences without repetition, and induction                             *)
(***************************************************************************)

\* Appending a new element keeps a sequence free of repetition.
LEMMA AppendNew ==
    ASSUME NEW S, NEW s \in Seq(S), IsInjective(s), NEW e \in S, e \notin Range(s)
    PROVE  /\ Append(s, e) \in Seq(S) /\ IsInjective(Append(s, e))
           /\ Range(Append(s, e)) = Range(s) \union {e}
  BY DEF IsInjective, Range

\* Removing an element that occurs once leaves all the others, in their order.
LEMMA RemoveOnce ==
    ASSUME NEW S, NEW s \in Seq(S), IsInjective(s), NEW e
    PROVE  /\ RemoveFirst(s, e) \in Seq(S) /\ IsInjective(RemoveFirst(s, e))
           /\ Range(RemoveFirst(s, e)) = Range(s) \ {e}
  <1>0. DOMAIN s = 1..Len(s)
    OBVIOUS
  <1>1. CASE e \notin Range(s)
    <2>1. RemoveFirst(s, e) = s
      BY <1>0, <1>1 DEF RemoveFirst, Range
    <2> QED BY <1>1, <2>1
  <1>2. CASE e \in Range(s)
    <2>1. PICK k \in 1..Len(s) : s[k] = e
      BY <1>2 DEF Range
    <2>2. {i \in 1..Len(s) : s[i] = e} = {k}
      BY <2>1 DEF IsInjective
    <2>3. Min({k}) = k
      BY <2>1 DEF Min
    <2>4. RemoveFirst(s, e) = RemoveAt(s, k)
      BY <2>1, <2>2, <2>3 DEF RemoveFirst, SelectInSeq
    <2> DEFINE r == RemoveAt(s, k)
    <2>5. /\ r \in Seq(S) /\ Len(r) = Len(s) - 1
          /\ \A i \in 1..Len(s) - 1 : r[i] = IF i < k THEN s[i] ELSE s[i + 1]
      <3> DEFINE left == SubSeq(s, 1, k - 1)
                 right == SubSeq(s, k + 1, Len(s))
      <3>1. /\ left \in Seq(S) /\ Len(left) = k - 1
            /\ \A i \in 1..k - 1 : left[i] = s[i]
        BY <2>1, SubSeqProperties
      <3>2. /\ right \in Seq(S) /\ Len(right) = Len(s) - k
            /\ \A i \in 1..Len(s) - k : right[i] = s[k + i]
        BY <2>1, SubSeqProperties
      <3>3. r = left \o right
        BY DEF RemoveAt
      <3> HIDE DEF left, right, r
      <3>4. /\ r \in Seq(S) /\ Len(r) = Len(left) + Len(right)
            /\ \A i \in 1..Len(left) + Len(right) :
                  r[i] = IF i <= Len(left) THEN left[i] ELSE right[i - Len(left)]
        BY <3>1, <3>2, <3>3, ConcatProperties
      <3>5. Len(left) + Len(right) = Len(s) - 1
        BY <2>1, <3>1, <3>2
      <3> SUFFICES ASSUME NEW i \in 1..Len(s) - 1
                   PROVE  r[i] = IF i < k THEN s[i] ELSE s[i + 1]
        BY <3>4, <3>5
      <3>6. CASE i < k
        <4>1. i \in 1..k - 1 /\ i <= Len(left)
          BY <2>1, <3>1, <3>6
        <4>2. left[i] = s[i]
          BY <3>1, <4>1
        <4> QED BY <3>4, <3>5, <3>6, <4>1, <4>2
      <3>7. CASE i >= k
        <4>1. i - Len(left) \in 1..Len(s) - k
          BY <2>1, <3>1, <3>7
        <4>2. right[i - Len(left)] = s[k + (i - Len(left))]
          BY <3>2, <4>1
        <4>3. k + (i - Len(left)) = i + 1 /\ ~(i <= Len(left))
          BY <2>1, <3>1, <3>7
        <4> QED BY <3>4, <3>5, <3>7, <4>2, <4>3
      <3> QED BY <3>6, <3>7
    <2>6. IsInjective(r)
      <3>1. DOMAIN r = 1..Len(s) - 1
        BY <2>5
      <3> SUFFICES ASSUME NEW i \in 1..Len(s) - 1, NEW j \in 1..Len(s) - 1, r[i] = r[j]
                   PROVE  i = j
        BY <3>1 DEF IsInjective
      <3> QED BY <1>0, <2>1, <2>5 DEF IsInjective
    <2>7. Range(r) \subseteq Range(s) \ {e}
      <3> SUFFICES ASSUME NEW i \in 1..Len(s) - 1
                   PROVE  r[i] \in Range(s) \ {e}
        BY <2>5 DEF Range
      <3>1. PICK j \in 1..Len(s) : j # k /\ r[i] = s[j]
        <4>1. CASE i < k
          BY <2>1, <2>5, <4>1
        <4>2. CASE i >= k
          <5>1. i + 1 \in 1..Len(s) /\ i + 1 # k /\ r[i] = s[i + 1]
            BY <2>1, <2>5, <4>2
          <5> QED BY <5>1
        <4> QED BY <2>1, <4>1, <4>2
      <3> QED BY <1>0, <2>1, <3>1 DEF Range, IsInjective
    <2>8. Range(s) \ {e} \subseteq Range(r)
      <3> SUFFICES ASSUME NEW i \in 1..Len(s), i # k
                   PROVE  s[i] \in Range(r)
        BY <1>0, <2>1 DEF Range
      <3>1. DOMAIN r = 1..Len(s) - 1
        BY <2>5
      <3>2. CASE i < k
        BY <2>1, <2>5, <3>1, <3>2 DEF Range
      <3>3. CASE i > k
        <4>1. i - 1 \in 1..Len(s) - 1 /\ r[i - 1] = s[i]
          BY <2>1, <2>5, <3>3
        <4> QED BY <3>1, <4>1 DEF Range
      <3> QED BY <3>2, <3>3
    <2> QED BY <2>4, <2>5, <2>6, <2>7, <2>8
  <1> QED BY <1>1, <1>2

\* Induction over the numbers up to n: a set that has 0 and, with a number below
\* n, the next one, has them all.
LEMMA UpTo ==
    ASSUME NEW n \in Nat, NEW G, 0 \in G, \A k \in 0..(n - 1) : k \in G => k + 1 \in G
    PROVE  0..n \subseteq G
  <1> DEFINE T == (0..n) \ G
  <1> SUFFICES ASSUME T # {} PROVE FALSE
    OBVIOUS
  <1> HIDE DEF T
  <1>0. T \subseteq Nat
    BY DEF T
  <1>1. PICK k \in T : \A j \in T : <<j, k>> \notin OpToRel(<, Nat)
    BY <1>0, NatLessThanWellFounded, WFMin
  <1>2. \A j \in T : ~(j < k)
    BY <1>0, <1>1 DEF OpToRel
  <1>3. k \in 1..n /\ k \notin G
    BY DEF T
  <1>4. k - 1 \in T
    BY <1>3 DEF T
  <1> QED BY <1>2, <1>3, <1>4

-------------------------------------------------------------------------------
(***************************************************************************)
(* What an adapter remembers of the rows of a snapshot                     *)
(***************************************************************************)

\* An adapter keeps all the ids of a set.
RoomFor(A) == \A t \in Seq(A) : IsInjective(t) => Len(t) <= SeenMax

\* What is remembered of s after id: s and id, unless there is no room.
Follows(t, s, ids) ==
    /\ IsInjective(t) /\ Len(t) <= SeenMax
    /\ Range(t) \subseteq Range(s) \union ids
    /\ \A A : RoomFor(A) /\ Range(s) \union ids \subseteq A => Range(t) = Range(s) \union ids

LEMMA TouchFollows ==
    ASSUME NEW S, NEW s \in Seq(S), IsInjective(s), NEW id \in S
    PROVE  Newest(Touch(s, id)) \in Seq(S) /\ Follows(Newest(Touch(s, id)), s, {id})
  <1> DEFINE r == RemoveFirst(s, id)
             u == Touch(s, id)
  <1>1. r \in Seq(S) /\ IsInjective(r) /\ Range(r) = Range(s) \ {id}
    BY RemoveOnce
  <1>2. u \in Seq(S) /\ IsInjective(u) /\ Range(u) = Range(s) \union {id}
    <2>1. u = Append(r, id)
      BY DEF Touch
    <2> HIDE DEF r, u
    <2>2. id \notin Range(r)
      BY <1>1
    <2> QED BY <1>1, <2>1, <2>2, AppendNew
  <1> HIDE DEF r, u
  <1>3. SeenMax \in Nat \ {0}
    BY ReactionsAssumption
  <1>4. CASE Len(u) <= SeenMax
    <2>1. Newest(u) = u
      BY <1>2, <1>3, <1>4 DEF Newest
    <2> QED BY <1>2, <1>4, <2>1 DEF Follows, u
  <1>5. CASE Len(u) > SeenMax
    <2> DEFINE b == Len(u) - SeenMax
               v == SubSeq(u, b + 1, Len(u))
    <2>1. Newest(u) = v
      BY <1>5 DEF Newest
    <2>2. b \in Nat /\ b + SeenMax = Len(u)
      BY <1>2, <1>3, <1>5
    <2>3. /\ v \in Seq(S) /\ Len(v) = SeenMax
          /\ \A k \in 1..SeenMax : v[k] = u[b + k]
      <3>1. /\ v \in Seq(S) /\ Len(v) = Len(u) - (b + 1) + 1
            /\ \A k \in 1..Len(v) : v[k] = u[b + 1 + k - 1]
        <4>1. b + 1 \in 1..Len(u) + 1 /\ Len(u) \in Nat /\ b + 1 \in Int
          BY <1>2, <1>3, <2>2
        <4> HIDE DEF b
        <4> QED BY <1>2, <4>1, SubSeqProperties
      <3>2. Len(u) - (b + 1) + 1 = SeenMax /\ Len(u) \in Nat
        BY <1>2, <1>3, <2>2
      <3>3. \A k \in 1..SeenMax : b + 1 + k - 1 = b + k
        BY <1>3, <2>2
      <3> HIDE DEF v, b
      <3> QED BY <3>1, <3>2, <3>3
    <2> HIDE DEF v, b
    <2>4. DOMAIN v = 1..SeenMax /\ DOMAIN u = 1..Len(u)
      BY <1>2, <2>3
    <2>5. \A k \in 1..SeenMax : b + k \in 1..Len(u)
      BY <1>2, <1>3, <2>2
    <2>6. IsInjective(v)
      <3> SUFFICES ASSUME NEW k \in 1..SeenMax, NEW j \in 1..SeenMax, v[k] = v[j]
                   PROVE  k = j
        BY <2>4 DEF IsInjective
      <3>1. u[b + k] = u[b + j]
        BY <2>3
      <3>2. b + k = b + j
        BY <1>2, <2>4, <2>5, <3>1 DEF IsInjective
      <3> QED BY <1>3, <2>2, <3>2
    <2>7. Range(v) \subseteq Range(u)
      BY <2>3, <2>4, <2>5 DEF Range
    <2>8. ASSUME NEW A, RoomFor(A), Range(s) \union {id} \subseteq A
          PROVE  FALSE
      <3>1. u \in Seq(A)
        <4>1. \A k \in 1..Len(u) : u[k] \in A
          BY <1>2, <2>4, <2>8 DEF Range
        <4>2. u = [k \in 1..Len(u) |-> u[k]] /\ Len(u) \in Nat
          BY <1>2
        <4>3. Seq(A) = UNION {[1..n -> A] : n \in Nat}
          BY SeqDef
        <4> QED BY <4>1, <4>2, <4>3
      <3> QED BY <1>2, <1>3, <1>5, <2>8, <3>1 DEF RoomFor
    <2>9. Len(v) <= SeenMax
      BY <1>3, <2>3
    <2> QED BY <1>2, <2>1, <2>3, <2>6, <2>7, <2>8, <2>9 DEF Follows, u
  <1>6. Len(u) \in Nat
    BY <1>2
  <1> QED BY <1>3, <1>4, <1>5, <1>6

\* The rows are remembered one after the other.
LEMMA RememberedDef ==
    ASSUME NEW rows, Len(rows) \in Nat
    PROVE  \E f : /\ f = [k \in 0..Len(rows) |-> IF k = 0 THEN seen
                                   ELSE Newest(Touch(f[k - 1], rows[k]))]
                  /\ Remembered(rows) = f[Len(rows)]
  <1> DEFINE n == Len(rows)
             F(f, m) == [k \in 0..m |-> IF k = 0 THEN seen ELSE Newest(Touch(f[k - 1], rows[k]))]
             G == {m \in 0..n : \E f : f = F(f, m)}
  <1>1. 0 \in G
    <2> DEFINE h == [k \in 0..0 |-> seen]
    <2>1. \A k \in 0..0 :
            h[k] = IF k = 0 THEN seen ELSE Newest(Touch(h[k - 1], rows[k]))
      OBVIOUS
    <2>2. h = [k \in 0..0 |-> h[k]]
      OBVIOUS
    <2> HIDE DEF h
    <2>3. h = F(h, 0)
      BY <2>1, <2>2
    <2> QED BY <2>3
  <1>2. ASSUME NEW m \in 0..(n - 1), m \in G PROVE m + 1 \in G
    <2>1. PICK g : g = F(g, m)
      BY <1>2
    <2> DEFINE h == [k \in 0..(m + 1) |-> IF k = m + 1 THEN Newest(Touch(g[m], rows[m + 1]))
                                          ELSE g[k]]
    <2>2. ASSUME NEW k \in 0..(m + 1)
          PROVE  h[k] = IF k = 0 THEN seen ELSE Newest(Touch(h[k - 1], rows[k]))
      <3>1. CASE k = m + 1
        <4>1. h[k - 1] = g[m] /\ k # 0
          BY <3>1
        <4> QED BY <3>1, <4>1
      <3>2. CASE k \in 0..m
        <4>1. h[k] = g[k] /\ (k # 0 => h[k - 1] = g[k - 1])
          BY <3>2
        <4>2. g[k] = IF k = 0 THEN seen ELSE Newest(Touch(g[k - 1], rows[k]))
          BY <2>1, <3>2
        <4> QED BY <4>1, <4>2
      <3> QED BY <3>1, <3>2
    <2>3. h = F(h, m + 1)
      <3>1. h = [k \in 0..(m + 1) |-> h[k]]
        OBVIOUS
      <3> HIDE DEF h
      <3> QED BY <2>2, <3>1
    <2> HIDE DEF h
    <2>4. \E f : f = F(f, m + 1)
      BY <2>3
    <2> QED BY <2>4
  <1>3. n \in G
    <2> HIDE DEF G
    <2>1. 0..n \subseteq G
      BY <1>1, <1>2, UpTo
    <2> QED BY <2>1
  <1>4. PICK f : f = F(f, n)
    BY <1>3
  <1>5. (CHOOSE g : g = F(g, n)) = F((CHOOSE g : g = F(g, n)), n)
    BY <1>4
  <1>6. Remembered(rows) = (CHOOSE g : g = F(g, n))[n]
    BY DEF Remembered
  <1> QED BY <1>5, <1>6

\* The same holds of all the rows together.
LEMMA RememberedFollows ==
    ASSUME NEW S, seen \in Seq(S), IsInjective(seen), Len(seen) <= SeenMax,
           NEW rows \in Seq(S)
    PROVE  Remembered(rows) \in Seq(S) /\ Follows(Remembered(rows), seen, Range(rows))
  <1> DEFINE n == Len(rows)
  <1>0. n \in Nat /\ DOMAIN rows = 1..n /\ \A k \in 1..n : rows[k] \in S
    OBVIOUS
  <1> HIDE DEF n
  <1>1. PICK f : /\ f = [k \in 0..n |-> IF k = 0 THEN seen
                                        ELSE Newest(Touch(f[k - 1], rows[k]))]
                 /\ Remembered(rows) = f[n]
    BY <1>0, RememberedDef DEF n
  <1> DEFINE ids(k) == {rows[i] : i \in 1..k}
             G == {k \in 0..n : f[k] \in Seq(S) /\ Follows(f[k], seen, ids(k))}
  <1>2. 0 \in G
    <2>1. f[0] = seen /\ ids(0) = {} /\ 0 \in 0..n
      BY <1>0, <1>1
    <2> QED BY <2>1 DEF Follows
  <1>3. ASSUME NEW k \in 0..(n - 1), k \in G PROVE k + 1 \in G
    <2> DEFINE s == f[k]
               id == rows[k + 1]
               t == f[k + 1]
    <2>1. s \in Seq(S) /\ Follows(s, seen, ids(k))
      BY <1>3
    <2>2. t = Newest(Touch(s, id)) /\ id \in S /\ k + 1 \in 0..n
      <3>1. k + 1 \in 0..n /\ k + 1 # 0 /\ k + 1 - 1 = k /\ k + 1 \in 1..n
        BY <1>0
      <3> QED BY <1>0, <1>1, <3>1
    <2>3. ids(k + 1) = ids(k) \union {id}
      BY <1>0
    <2> HIDE DEF s, id, t, ids
    <2>4. IsInjective(s)
      BY <2>1 DEF Follows
    <2>5. t \in Seq(S) /\ Follows(t, s, {id})
      BY <2>1, <2>2, <2>4, TouchFollows
    <2>6. Follows(t, seen, ids(k + 1))
      BY <2>1, <2>3, <2>5 DEF Follows
    <2> QED BY <2>2, <2>5, <2>6 DEF t
  <1>4. n \in G
    <2> HIDE DEF G
    <2>1. 0..n \subseteq G
      BY <1>0, <1>2, <1>3, UpTo
    <2> QED BY <1>0, <2>1
  <1>5. ids(n) = Range(rows)
    BY <1>0 DEF Range
  <1> QED BY <1>1, <1>4, <1>5

-------------------------------------------------------------------------------
(***************************************************************************)
(* The own reactions: the inductive invariant                              *)
(***************************************************************************)

\* The reactions on the message are numbered, none is there twice.
ChipsInv ==
    /\ posted \in [{"bot", "peer"} -> Nat]
    /\ posted.bot + posted.peer <= MaxPosted
    /\ chips \in Seq(Reaction) /\ IsInjective(chips)
    /\ \A e \in Emoji, n \in Nat : <<e, n>> \in Range(chips) => n <= posted.bot
    /\ \A n \in Nat : <<"peer", n>> \in Range(chips) => n <= posted.peer

\* A request in the sidecar that has posted holds the one id it got; an idle one holds none.
RequestsInv ==
    \A w \in Requesters :
        /\ req[w] \in [at : {"idle", "sent", "history", "delete"},
                       emoji : Emoji \union {"all"}, ids : SUBSET Own]
        /\ req[w].at = "idle" => req[w].ids = {}
        /\ req[w].at = "sent" => req[w].emoji \in Emoji /\ \E id \in Own : req[w].ids = {id}

\* The inductive invariant.
OwnInv ==
    /\ DOMAIN req = Requesters
    /\ slot \in [Emoji -> Own \union {NoId}]
    /\ ChipsInv /\ RequestsInv /\ OwnIsRetractable

LEMMA OwnInvInit == ReactionsInit => OwnInv
  <1> SUFFICES ASSUME ReactionsInit PROVE OwnInv
    OBVIOUS
  <1>1. chips = <<>> /\ Range(chips) = {}
    BY DEF ReactionsInit, network, Range
  <1>2. ChipsInv
    BY <1>1, ReactionsAssumption DEF ReactionsInit, ChipsInv, IsInjective
  <1>3. RequestsInv
    BY DEF ReactionsInit, RequestsInv, Idle
  <1>4. OwnIsRetractable
    BY <1>1 DEF OwnIsRetractable
  <1> QED BY <1>2, <1>3, <1>4 DEF ReactionsInit, OwnInv

\* What is not the peer's is the bot's, and a number tells which of them it is.
LEMMA OwnAndPeer ==
    /\ Own \intersect Peer = {} /\ NoId \notin Own
    /\ \A id \in Own : id[1] \in Emoji /\ id[2] \in 1..MaxPosted /\ id = <<id[1], id[2]>>
  BY ReactionsAssumption DEF Own, Peer, NoId

\* The bot posts a new reaction, and the request holds its id.
LEMMA ReactKeepsInv ==
    ASSUME OwnInv, NEW w \in Requesters, NEW e \in Emoji, React(w, e)
    PROVE  OwnInv'
  <1> DEFINE id == <<e, posted.bot + 1>>
  <1>1. id \in Own /\ id \in Reaction /\ id \notin Range(chips)
    BY ReactionsAssumption DEF OwnInv, ChipsInv, React, Own, Reaction
  <1>2. /\ chips' \in Seq(Reaction) /\ IsInjective(chips')
        /\ Range(chips') = Range(chips) \union {id}
    <2>1. chips' = Append(chips, id) /\ chips \in Seq(Reaction) /\ IsInjective(chips)
      BY DEF React, OwnInv, ChipsInv
    <2> HIDE DEF id
    <2> QED BY <1>1, <2>1, AppendNew
  <1>3. ChipsInv'
    <2>1. /\ posted' \in [{"bot", "peer"} -> Nat]
          /\ posted'.bot = posted.bot + 1 /\ posted'.peer = posted.peer
          /\ posted'.bot + posted'.peer <= MaxPosted
      BY ReactionsAssumption DEF OwnInv, ChipsInv, React
    <2>2. \A f \in Emoji, n \in Nat : <<f, n>> \in Range(chips') => n <= posted'.bot
      BY <1>2, <2>1 DEF OwnInv, ChipsInv
    <2>3. \A n \in Nat : <<"peer", n>> \in Range(chips') => n <= posted'.peer
      BY <1>2, <2>1, ReactionsAssumption DEF OwnInv, ChipsInv
    <2> QED BY <1>2, <2>1, <2>2, <2>3 DEF ChipsInv
  <1>4. /\ req' = [req EXCEPT ![w] = [at |-> "sent", emoji |-> e, ids |-> {id}]]
        /\ req[w].ids = {} /\ DOMAIN req = Requesters
        /\ UNCHANGED <<slot, lost>>
    BY DEF React, Do, OwnInv, Idle
  <1>5. RequestsInv'
    BY <1>1, <1>4 DEF OwnInv, RequestsInv
  <1>6. OwnIsRetractable'
    BY <1>2, <1>4 DEF OwnInv, OwnIsRetractable, Held
  <1> QED BY <1>3, <1>4, <1>5, <1>6 DEF OwnInv

\* The id becomes the one of its emoji; the one before it is lost.
LEMMA RememberKeepsInv ==
    ASSUME OwnInv, NEW w \in Requesters, Remember(w)
    PROVE  OwnInv'
  <1>1. PICK id \in Own : req[w].ids = {id} /\ req[w].emoji \in Emoji
    BY DEF Remember, OwnInv, RequestsInv
  <1>2. (CHOOSE i \in req[w].ids : TRUE) = id
    BY <1>1
  <1>3. /\ slot' = [slot EXCEPT ![req[w].emoji] = id]
        /\ lost' = lost \union ({slot[req[w].emoji]} \intersect Range(chips))
        /\ req' = [req EXCEPT ![w] = Idle]
        /\ UNCHANGED <<chips, posted>>
    BY <1>2 DEF Remember, Do, network
  <1>4. RequestsInv'
    BY <1>3 DEF OwnInv, RequestsInv, Idle
  <1>5. OwnIsRetractable'
    BY <1>1, <1>3 DEF OwnInv, OwnIsRetractable, Held, Idle
  <1> QED BY <1>1, <1>3, <1>4, <1>5 DEF OwnInv, ChipsInv

\* The ids of the wanted emojis go from the map to the request.
LEMMA TakeKeepsInv ==
    ASSUME OwnInv, NEW w \in Requesters, NEW e \in Emoji \union {"all"}, Take(w, e)
    PROVE  OwnInv'
  <1> DEFINE ids == {slot[f] : f \in Wanted(e)} \ {NoId}
  <1>1. Wanted(e) \subseteq Emoji
    BY DEF Wanted
  <1>2. /\ slot' = [f \in Emoji |-> IF f \in Wanted(e) THEN NoId ELSE slot[f]]
        /\ req' = [req EXCEPT ![w] = [at |-> "history", emoji |-> e, ids |-> ids]]
        /\ req[w].ids = {} /\ UNCHANGED <<chips, posted, lost>>
    BY DEF Take, Do, network, Idle
  <1>3. ids \subseteq Own
    BY <1>1 DEF OwnInv
  <1>4. RequestsInv'
    BY <1>2, <1>3 DEF OwnInv, RequestsInv
  <1>5. OwnIsRetractable'
    <2> SUFFICES ASSUME NEW id \in Own, Held(id) \/ id \in lost
                 PROVE  (Held(id) \/ id \in lost)'
      BY <1>2 DEF OwnInv, OwnIsRetractable
    <2>1. CASE \E f \in Emoji : id = slot[f]
      <3>1. PICK f \in Emoji : id = slot[f]
        BY <2>1
      <3>2. CASE f \in Wanted(e)
        <4>1. id \in req'[w].ids
          BY <1>2, <3>1, <3>2, OwnAndPeer DEF OwnInv
        <4> QED BY <4>1 DEF Held
      <3>3. CASE f \notin Wanted(e)
        <4>1. slot'[f] = id
          BY <1>2, <3>1, <3>3
        <4> QED BY <4>1 DEF Held
      <3> QED BY <3>2, <3>3
    <2>2. CASE \E v \in Requesters : id \in req[v].ids
      <3>1. PICK v \in Requesters : id \in req[v].ids
        BY <2>2
      <3>2. id \in req'[v].ids
        BY <1>2, <3>1 DEF OwnInv
      <3> QED BY <3>2 DEF Held
    <2>3. CASE id \in lost
      BY <1>2, <2>3 DEF Held
    <2> QED BY <2>1, <2>2, <2>3 DEF Held
  <1> QED BY <1>2, <1>4, <1>5 DEF OwnInv, ChipsInv

\* The history adds ids of the bot's own reactions.
LEMMA HistoryKeepsInv ==
    ASSUME OwnInv, NEW w \in Requesters, History(w)
    PROVE  OwnInv'
  <1>1. PICK echo \in SUBSET {id \in Range(chips) : id[1] \in Wanted(req[w].emoji)} :
          LET ids == req[w].ids \union echo
          IN  req' = [req EXCEPT ![w] = IF ids = {} THEN Idle
                                        ELSE [req[w] EXCEPT !.at = "delete", !.ids = ids]]
    BY DEF History, Do
  <1>2. UNCHANGED <<chips, posted, slot, lost>>
    BY DEF History, network
  <1>3. echo \subseteq Own
    BY ReactionsAssumption
       DEF OwnInv, ChipsInv, RequestsInv, Wanted, Range, Reaction, Own, Peer
  <1>4. RequestsInv'
    BY <1>1, <1>3 DEF OwnInv, RequestsInv, Idle
  <1>5. \A v \in Requesters : req[v].ids \subseteq req'[v].ids
    BY <1>1 DEF OwnInv, RequestsInv
  <1>6. OwnIsRetractable'
    BY <1>2, <1>5 DEF OwnInv, OwnIsRetractable, Held
  <1> QED BY <1>1, <1>2, <1>4, <1>6 DEF OwnInv, ChipsInv

\* An id is deleted with its reaction, or is lost with it.
LEMMA DeleteKeepsInv ==
    ASSUME OwnInv, NEW w \in Requesters, Delete(w)
    PROVE  OwnInv'
  <1>1. PICK id \in req[w].ids :
          /\ \/ chips' = RemoveFirst(chips, id) /\ lost' = lost \ {id}
             \/ lost' = lost \union ({id} \intersect Range(chips)) /\ chips' = chips
          /\ req' = [req EXCEPT ![w] = IF req[w].ids \ {id} = {} THEN Idle
                                       ELSE [req[w] EXCEPT !.ids = req[w].ids \ {id}]]
    BY DEF Delete, Do
  <1>2. UNCHANGED <<posted, slot>> /\ req[w].at = "delete"
    BY DEF Delete
  <1>3. /\ chips' \in Seq(Reaction) /\ IsInjective(chips')
        /\ Range(chips') \subseteq Range(chips)
        /\ id \in Range(chips') => id \in lost'
        /\ lost \ {id} \subseteq lost'
    BY <1>1, RemoveOnce DEF OwnInv, ChipsInv
  <1>4. RequestsInv'
    BY <1>1, <1>2 DEF OwnInv, RequestsInv, Idle
  <1>5. \A v \in Requesters : req[v].ids \ {id} \subseteq req'[v].ids
    BY <1>1 DEF OwnInv, RequestsInv
  <1>6. OwnIsRetractable'
    <2> SUFFICES ASSUME NEW i \in Own, i \in Range(chips'), i \notin lost'
                 PROVE  Held(i)'
      BY DEF OwnIsRetractable, Held
    <2>1. i # id /\ i \in Range(chips) /\ i \notin lost
      BY <1>3
    <2> QED BY <1>2, <1>5, <2>1 DEF OwnInv, OwnIsRetractable, Held
  <1> QED BY <1>1, <1>2, <1>3, <1>4, <1>6 DEF OwnInv, ChipsInv

\* A dropped handler loses the ids it held.
LEMMA TimesOutKeepsInv ==
    ASSUME OwnInv, NEW w \in Requesters, TimesOut(w)
    PROVE  OwnInv'
  <1>1. /\ req' = [req EXCEPT ![w] = Idle] /\ UNCHANGED <<chips, posted, slot>>
        /\ lost' = lost \union (req[w].ids \intersect Range(chips))
    BY DEF TimesOut, Do, network
  <1>2. RequestsInv'
    BY <1>1 DEF OwnInv, RequestsInv, Idle
  <1>3. OwnIsRetractable'
    BY <1>1 DEF OwnInv, OwnIsRetractable, Held
  <1> QED BY <1>1, <1>2, <1>3 DEF OwnInv, ChipsInv

\* The peer's reactions come and go; the bot's are not touched.
LEMMA PeerKeepsInv ==
    ASSUME OwnInv, PeerReacts \/ PeerRetracts
    PROVE  OwnInv'
  <1>1. CASE PeerReacts
    <2> DEFINE id == <<"peer", posted.peer + 1>>
    <2>1. id \in Peer /\ id \in Reaction /\ id \notin Range(chips)
      BY <1>1, ReactionsAssumption DEF OwnInv, ChipsInv, PeerReacts, Peer, Reaction
    <2>2. /\ chips' \in Seq(Reaction) /\ IsInjective(chips')
          /\ Range(chips') = Range(chips) \union {id}
      <3>1. chips' = Append(chips, id) /\ chips \in Seq(Reaction) /\ IsInjective(chips)
        BY <1>1 DEF PeerReacts, OwnInv, ChipsInv
      <3> HIDE DEF id
      <3> QED BY <2>1, <3>1, AppendNew
    <2>3. ChipsInv'
      <3>1. /\ posted' \in [{"bot", "peer"} -> Nat]
            /\ posted'.bot = posted.bot /\ posted'.peer = posted.peer + 1
            /\ posted'.bot + posted'.peer <= MaxPosted
        BY <1>1, ReactionsAssumption DEF OwnInv, ChipsInv, PeerReacts
      <3>2. \A e \in Emoji, n \in Nat : <<e, n>> \in Range(chips') => n <= posted'.bot
        BY <2>2, <3>1, ReactionsAssumption DEF OwnInv, ChipsInv
      <3>3. \A n \in Nat : <<"peer", n>> \in Range(chips') => n <= posted'.peer
        BY <2>2, <3>1 DEF OwnInv, ChipsInv
      <3> QED BY <2>2, <3>1, <3>2, <3>3 DEF ChipsInv
    <2>4. OwnIsRetractable'
      BY <1>1, <2>1, <2>2, OwnAndPeer DEF OwnInv, OwnIsRetractable, Held, PeerReacts, sidecar
    <2> QED BY <1>1, <2>3, <2>4 DEF OwnInv, RequestsInv, PeerReacts, sidecar
  <1>2. CASE PeerRetracts
    <2>1. /\ chips' \in Seq(Reaction) /\ IsInjective(chips')
          /\ Range(chips') \subseteq Range(chips)
      BY <1>2, RemoveOnce DEF PeerRetracts, OwnInv, ChipsInv
    <2> QED
      BY <1>2, <2>1
         DEF OwnInv, ChipsInv, RequestsInv, OwnIsRetractable, Held, PeerRetracts, sidecar
  <1> QED BY <1>1, <1>2

\* A restart loses every id of a reaction that is there.
LEMMA RestartKeepsInv ==
    ASSUME OwnInv, Restart
    PROVE  OwnInv'
  <1>1. RequestsInv'
    BY DEF Restart, RequestsInv, Idle
  <1>2. OwnIsRetractable'
    BY DEF Restart, OwnIsRetractable, Held
  <1> QED BY <1>1, <1>2 DEF Restart, OwnInv, ChipsInv

\* One step per action.
LEMMA OwnInvNext ==
    ASSUME OwnInv, [ReactionsNext]_reactionVars
    PROVE  OwnInv'
  <1>1. CASE UNCHANGED reactionVars
    BY <1>1 DEF reactionVars, network, sidecar, OwnInv, ChipsInv, RequestsInv,
                OwnIsRetractable, Held
  <1>2. CASE HandleUpdate
    BY <1>2 DEF HandleUpdate, sidecar, OwnInv, ChipsInv, RequestsInv, OwnIsRetractable, Held
  <1> QED
    BY <1>1, <1>2, ReactKeepsInv, RememberKeepsInv, TakeKeepsInv, HistoryKeepsInv,
       DeleteKeepsInv, TimesOutKeepsInv, PeerKeepsInv, RestartKeepsInv
       DEF ReactionsNext, Request

-------------------------------------------------------------------------------
(***************************************************************************)
(* The peer's reactions: the inductive invariant                           *)
(***************************************************************************)

\* Reactions a snapshot shows.
Shown == UNION {Range(snaps[k]) : k \in DOMAIN snaps}

\* Reactions on the message, in a snapshot or in the adapter.
Known == Range(chips) \union Shown \union Range(seen)

\* The number of a reaction, among those of the same side, tells which it is.
Numbered ==
    /\ Known \subseteq Reaction
    /\ \A e \in Emoji, n \in Nat : <<e, n>> \in Known => n <= posted.bot
    /\ \A n \in Nat : <<"peer", n>> \in Known => n <= posted.peer
    /\ \A e, f \in Emoji, n \in Nat : <<e, n>> \in Known /\ <<f, n>> \in Known => e = f

\* A slot has an id of its emoji, and so has a request that is about to remember one.
SlotsInv ==
    /\ \A e \in Emoji : slot[e] = NoId \/ slot[e][1] = e
    /\ \A w \in Requesters : req[w].at = "sent" => \A id \in req[w].ids : id[1] = req[w].emoji
    /\ restarts \in 0..MaxRestarts

\* With room for all, an adapter has not forgotten what it gave a turn.
TurnsInv ==
    /\ snaps \in Seq(Seq(Reaction) \ {<<>>})
    /\ seen \in Seq(Reaction) /\ IsInjective(seen) /\ Len(seen) <= SeenMax
    /\ posted.bot + posted.peer <= SeenMax => turned \subseteq Range(seen) /\ ~repeated

\* The inductive invariant.
TurnInv == OwnInv /\ Numbered /\ SlotsInv /\ TurnsInv

LEMMA TurnInvInit == ReactionsInit => TurnInv
  <1> SUFFICES ASSUME ReactionsInit PROVE TurnInv
    OBVIOUS
  <1>1. /\ chips = <<>> /\ snaps = <<>> /\ seen = <<>> /\ turned = {} /\ repeated = FALSE
        /\ DOMAIN <<>> = {}
    BY DEF ReactionsInit
  <1>2. Known = {}
    BY <1>1 DEF Known, Shown, Range
  <1>3. SlotsInv
    BY ReactionsAssumption DEF ReactionsInit, SlotsInv, Idle
  <1>4. TurnsInv
    BY <1>1, ReactionsAssumption DEF TurnsInv, IsInjective
  <1> QED BY <1>2, <1>3, <1>4, OwnInvInit DEF TurnInv, Numbered

\* As many ids as were posted are enough to keep them all.
LEMMA RoomForKnown ==
    ASSUME TurnInv, posted.bot + posted.peer <= SeenMax
    PROVE  RoomFor(Known)
  <1> DEFINE p == posted.bot + posted.peer
             number(id) == IF id \in Peer THEN posted.bot + id[2] ELSE id[2]
  <1>1. /\ posted.bot \in Nat /\ posted.peer \in Nat /\ p \in Nat
        /\ SeenMax \in Nat /\ p <= SeenMax
    BY ReactionsAssumption DEF TurnInv, OwnInv, ChipsInv
  <1>2. \A id \in Known \ Peer : /\ id \in Own /\ id[1] \in Emoji /\ id = <<id[1], id[2]>>
                                 /\ id[2] \in 1..posted.bot
    <2> SUFFICES ASSUME NEW id \in Known \ Peer
                 PROVE  /\ id \in Own /\ id[1] \in Emoji /\ id = <<id[1], id[2]>>
                        /\ id[2] \in 1..posted.bot
      OBVIOUS
    <2>1. id \in Own
      BY DEF TurnInv, Numbered, Reaction
    <2>2. id[1] \in Emoji /\ id[2] \in 1..MaxPosted /\ id = <<id[1], id[2]>>
      BY <2>1, OwnAndPeer
    <2>3. id[2] <= posted.bot
      BY <2>2 DEF TurnInv, Numbered
    <2> QED BY <1>1, <2>1, <2>2, <2>3
  <1>3. \A id \in Known \intersect Peer : id = <<"peer", id[2]>> /\ id[2] \in 1..posted.peer
    <2> SUFFICES ASSUME NEW id \in Known \intersect Peer
                 PROVE  id = <<"peer", id[2]>> /\ id[2] \in 1..posted.peer
      OBVIOUS
    <2>1. id = <<"peer", id[2]>> /\ id[2] \in 1..MaxPosted
      BY DEF Peer
    <2>2. id[2] <= posted.peer
      BY <2>1 DEF TurnInv, Numbered
    <2> QED BY <1>1, <2>1, <2>2
  <1>4. \A id \in Known : number(id) \in 1..p
    BY <1>1, <1>2, <1>3
  <1>5. \A i, j \in Known : number(i) = number(j) => i = j
    <2> SUFFICES ASSUME NEW i \in Known, NEW j \in Known, number(i) = number(j)
                 PROVE  i = j
      OBVIOUS
    <2>1. CASE i \in Peer /\ j \in Peer
      <3>1. i[2] = j[2]
        BY <1>1, <1>3, <2>1
      <3> QED BY <1>3, <2>1, <3>1
    <2>2. CASE i \notin Peer /\ j \notin Peer
      <3>1. i[2] = j[2]
        BY <2>2
      <3>2. i[1] = j[1]
        BY <1>2, <2>2, <3>1 DEF TurnInv, Numbered
      <3> QED BY <1>2, <2>2, <3>1, <3>2
    <2>3. CASE i \in Peer /\ j \notin Peer
      BY <1>1, <1>2, <1>3, <2>3
    <2>4. CASE i \notin Peer /\ j \in Peer
      BY <1>1, <1>2, <1>3, <2>4
    <2> QED BY <2>1, <2>2, <2>3, <2>4
  <1> SUFFICES ASSUME NEW t \in Seq(Known), IsInjective(t), Len(t) > SeenMax
               PROVE  FALSE
    <2>1. \A t \in Seq(Known) : Len(t) \in Nat
      OBVIOUS
    <2> QED BY <1>1, <2>1 DEF RoomFor
  <1> DEFINE g == [k \in 1..Len(t) |-> number(t[k])]
  <1>6. Len(t) \in Nat /\ DOMAIN t = 1..Len(t) /\ \A k \in 1..Len(t) : t[k] \in Known
    OBVIOUS
  <1> HIDE DEF number, p
  <1>7. g \in [1..Len(t) -> 1..p]
    BY <1>4, <1>6
  <1>8. /\ IsFiniteSet(1..Len(t)) /\ IsFiniteSet(1..p)
        /\ Cardinality(1..p) < Cardinality(1..Len(t))
    <2>1. \A n \in Nat : IsFiniteSet(1..n) /\ Cardinality(1..n) = n
      <3> TAKE n \in Nat
      <3>1. IsFiniteSet(1..n) /\ Cardinality(1..n) = IF 1 > n THEN 0 ELSE n - 1 + 1
        BY FS_Interval
      <3> QED BY <3>1
    <2>2. p < Len(t)
      BY <1>1, <1>6 DEF p
    <2> QED BY <1>1, <1>6, <2>1, <2>2
  <1> HIDE DEF g
  <1>9. PICK k, j \in 1..Len(t) : k # j /\ g[k] = g[j]
    BY <1>7, <1>8, FS_PigeonHole
  <1>10. t[k] = t[j]
    BY <1>5, <1>6, <1>9 DEF g
  <1> QED BY <1>6, <1>9, <1>10 DEF IsInjective

\* A report adds a snapshot of the rows, or none.
LEMMA Reported ==
    ASSUME TurnsInv, NEW rows \in Seq(Reaction), Report(rows)
    PROVE  /\ snaps' \in Seq(Seq(Reaction) \ {<<>>})
           /\ Shown' \subseteq Shown \union Range(rows)
  <1>1. CASE snaps' = snaps
    BY <1>1 DEF TurnsInv, Shown
  <1>2. CASE rows # <<>> /\ snaps' = Append(snaps, rows)
    <2>1. snaps \in Seq(Seq(Reaction) \ {<<>>}) /\ rows \in Seq(Reaction) \ {<<>>}
      BY <1>2 DEF TurnsInv
    <2>2. /\ snaps' \in Seq(Seq(Reaction) \ {<<>>}) /\ DOMAIN snaps' = 1..Len(snaps) + 1
          /\ \A k \in 1..Len(snaps) : snaps'[k] = snaps[k]
          /\ snaps'[Len(snaps) + 1] = rows /\ DOMAIN snaps = 1..Len(snaps) /\ Len(snaps) \in Nat
      BY <1>2, <2>1
    <2>3. \A k \in DOMAIN snaps' : k \in DOMAIN snaps \/ k = Len(snaps) + 1
      BY <2>2
    <2> QED BY <2>2, <2>3 DEF Shown
  <1> QED BY <1>1, <1>2 DEF Report

\* Nothing becomes known, and nothing new is posted.
LEMMA NumberedStays ==
    ASSUME TurnInv, Known' \subseteq Known, posted' = posted
    PROVE  Numbered'
  BY DEF TurnInv, Numbered

\* A new reaction of either side has the next number.
LEMMA NumberedNew ==
    ASSUME TurnInv, NEW id, Known' \subseteq Known \union {id},
           \/ /\ \E e \in Emoji : id = <<e, posted.bot + 1>>
              /\ id \in Own
              /\ posted' = [posted EXCEPT !.bot = @ + 1]
           \/ /\ id = <<"peer", posted.peer + 1>>
              /\ id \in Peer
              /\ posted' = [posted EXCEPT !.peer = @ + 1]
    PROVE  Numbered' /\ (posted.bot + posted.peer)' = posted.bot + posted.peer + 1
  <1>1. posted \in [{"bot", "peer"} -> Nat] /\ "peer" \notin Emoji
    BY ReactionsAssumption DEF TurnInv, OwnInv, ChipsInv
  <1>2. id \in Reaction
    BY DEF Reaction
  <1>3. CASE /\ \E e \in Emoji : id = <<e, posted.bot + 1>>
             /\ posted' = [posted EXCEPT !.bot = @ + 1]
    <2>1. posted'.bot = posted.bot + 1 /\ posted'.peer = posted.peer
      BY <1>1, <1>3
    <2>2. PICK e \in Emoji : id = <<e, posted.bot + 1>>
      BY <1>3
    <2>3. \A f \in Emoji, n \in Nat :
            <<f, n>> \in Known' => n <= posted.bot \/ (f = e /\ n = posted.bot + 1)
      BY <2>2 DEF TurnInv, Numbered
    <2>4. \A n \in Nat : <<"peer", n>> \in Known' => <<"peer", n>> \in Known
      BY <1>1, <2>2
    <2>5. \A f \in Emoji, n \in Nat : <<f, n>> \in Known' =>
            <<f, n>> \in Known \/ (f = e /\ n = posted.bot + 1)
      BY <2>2
    <2>6. \A f, g \in Emoji, n \in Nat : <<f, n>> \in Known' /\ <<g, n>> \in Known' => f = g
      <3> SUFFICES ASSUME NEW f \in Emoji, NEW g \in Emoji, NEW n \in Nat,
                          <<f, n>> \in Known', <<g, n>> \in Known'
                   PROVE  f = g
        OBVIOUS
      <3>1. CASE n = posted.bot + 1
        <4>1. \A h \in Emoji : <<h, n>> \notin Known
          BY <1>1, <3>1 DEF TurnInv, Numbered
        <4> QED BY <2>5, <4>1
      <3>2. CASE n # posted.bot + 1
        BY <2>5, <3>2 DEF TurnInv, Numbered
      <3> QED BY <3>1, <3>2
    <2>7. \A f \in Emoji, n \in Nat : <<f, n>> \in Known' => n <= posted.bot + 1
      BY <1>1, <2>3
    <2> QED BY <1>1, <1>2, <2>1, <2>4, <2>6, <2>7 DEF TurnInv, Numbered
  <1>4. CASE /\ id = <<"peer", posted.peer + 1>>
             /\ posted' = [posted EXCEPT !.peer = @ + 1]
    <2>1. posted'.bot = posted.bot /\ posted'.peer = posted.peer + 1
      BY <1>1, <1>4
    <2>2. \A f \in Emoji, n \in Nat : <<f, n>> \in Known' => <<f, n>> \in Known
      BY <1>1, <1>4
    <2>3. \A n \in Nat : <<"peer", n>> \in Known' => n <= posted.peer + 1
      BY <1>1, <1>4 DEF TurnInv, Numbered
    <2> QED BY <1>1, <1>2, <2>1, <2>2, <2>3 DEF TurnInv, Numbered
  <1> QED BY <1>3, <1>4

\* The chips change, a report may go out; the adapter has nothing to do with it.
LEMMA ChipsKeepTurns ==
    ASSUME TurnInv, NEW rows, rows = chips', OwnInv',
           Report(rows) \/ UNCHANGED snaps, UNCHANGED adapter
    PROVE  /\ Known' \subseteq Known \union Range(chips')
           /\ (posted.bot + posted.peer)' \in {posted.bot + posted.peer,
                                               posted.bot + posted.peer + 1} => TurnsInv'
  <1>1. rows \in Seq(Reaction) /\ TurnsInv
    BY DEF OwnInv, ChipsInv, TurnInv
  <1>2. /\ snaps' \in Seq(Seq(Reaction) \ {<<>>})
        /\ Shown' \subseteq Shown \union Range(rows)
    <2>1. CASE UNCHANGED snaps
      BY <1>1, <2>1 DEF TurnsInv, Shown
    <2>2. CASE Report(rows)
      BY <1>1, <2>2, Reported
    <2> QED BY <2>1, <2>2
  <1>3. seen' = seen /\ turned' = turned /\ repeated' = repeated
    BY DEF adapter
  <1>4. posted.bot \in Nat /\ posted.peer \in Nat
    BY DEF TurnInv, OwnInv, ChipsInv
  <1>5. SeenMax \in Nat
    BY ReactionsAssumption
  <1>6. Known' \subseteq Known \union Range(chips')
    BY <1>2, <1>3 DEF Known
  <1>7. ASSUME (posted.bot + posted.peer)' \in {posted.bot + posted.peer,
                                               posted.bot + posted.peer + 1}
        PROVE  TurnsInv'
    <2>1. (posted.bot + posted.peer <= SeenMax)' => posted.bot + posted.peer <= SeenMax
      BY <1>4, <1>5, <1>7
    <2> QED BY <1>1, <1>2, <1>3, <2>1 DEF TurnsInv
  <1> QED BY <1>6, <1>7

\* The steps that leave alone what is known, and the adapter.
LEMMA QuietKeepsTurns ==
    ASSUME TurnInv, UNCHANGED <<network, adapter>>
    PROVE  Numbered' /\ TurnsInv'
  <1>1. UNCHANGED <<chips, posted, snaps, seen, turned, repeated>>
    BY DEF network, adapter
  <1>2. Known' = Known
    BY <1>1 DEF Known, Shown
  <1>3. Numbered'
    BY <1>1, <1>2, NumberedStays
  <1>4. TurnsInv'
    BY <1>1 DEF TurnInv, TurnsInv
  <1> QED BY <1>3, <1>4

LEMMA ReactKeepsTurns ==
    ASSUME TurnInv, NEW w \in Requesters, NEW e \in Emoji, React(w, e)
    PROVE  TurnInv'
  <1>1. OwnInv'
    BY ReactKeepsInv DEF TurnInv
  <1> DEFINE id == <<e, posted.bot + 1>>
  <1>2. /\ posted' = [posted EXCEPT !.bot = @ + 1] /\ chips' = Append(chips, id)
        /\ UNCHANGED adapter /\ UNCHANGED <<slot, restarts>>
        /\ req' = [req EXCEPT ![w] = [at |-> "sent", emoji |-> e, ids |-> {id}]]
    BY DEF React, Do
  <1>3. PICK rows : rows = chips' /\ Report(rows)
    BY DEF React
  <1>4. Known' \subseteq Known \union Range(chips')
    BY <1>1, <1>2, <1>3, ChipsKeepTurns
  <1>5. id \in Own /\ Range(chips') \subseteq Range(chips) \union {id}
    <2>1. chips \in Seq(Reaction) /\ posted.bot \in Nat /\ posted.peer \in Nat
          /\ posted.bot + posted.peer < MaxPosted
      BY DEF TurnInv, OwnInv, ChipsInv, React
    <2>2. id \in Own
      BY <2>1, ReactionsAssumption DEF Own
    <2>3. Range(chips') \subseteq Range(chips) \union {id}
      <3> HIDE DEF id
      <3> QED BY <1>2, <2>1 DEF Range
    <2> QED BY <2>2, <2>3
  <1>6. Known' \subseteq Known \union {id}
    BY <1>4, <1>5 DEF Known
  <1>7. Numbered' /\ (posted.bot + posted.peer)' = posted.bot + posted.peer + 1
    BY <1>2, <1>5, <1>6, NumberedNew
  <1>8. TurnsInv'
    BY <1>1, <1>2, <1>3, <1>7, ChipsKeepTurns
  <1>9. SlotsInv'
    BY <1>2 DEF TurnInv, SlotsInv
  <1> QED BY <1>1, <1>7, <1>8, <1>9 DEF TurnInv

LEMMA RequestKeepsTurns ==
    ASSUME TurnInv, NEW w \in Requesters,
           \/ Remember(w) \/ History(w) \/ TimesOut(w)
           \/ \E e \in Emoji \union {"all"} : Take(w, e)
    PROVE  TurnInv'
  <1>1. OwnInv'
    BY RememberKeepsInv, HistoryKeepsInv, TimesOutKeepsInv, TakeKeepsInv DEF TurnInv
  <1>2. Numbered' /\ TurnsInv'
    <2>1. UNCHANGED <<network, adapter>>
      BY DEF Remember, History, TimesOut, Take
    <2> QED BY <2>1, QuietKeepsTurns
  <1>3. SlotsInv'
    <2>1. DOMAIN req = Requesters /\ DOMAIN slot = Emoji /\ UNCHANGED restarts /\ SlotsInv
      BY DEF TurnInv, OwnInv, Remember, History, TimesOut, Take
    <2>2. CASE Remember(w)
      <3>1. PICK i \in Own : req[w].ids = {i} /\ req[w].emoji \in Emoji
        BY <2>2 DEF Remember, TurnInv, OwnInv, RequestsInv
      <3>2. (CHOOSE i2 \in req[w].ids : TRUE) = i /\ i[1] = req[w].emoji
        BY <2>1, <2>2, <3>1 DEF Remember, SlotsInv
      <3>3. slot' = [slot EXCEPT ![req[w].emoji] = i] /\ req' = [req EXCEPT ![w] = Idle]
        BY <2>2, <3>2 DEF Remember, Do
      <3> QED BY <2>1, <3>1, <3>2, <3>3 DEF SlotsInv, Idle
    <2>3. CASE History(w)
      <3>1. UNCHANGED slot /\ req[w].at = "history"
        BY <2>3 DEF History
      <3>2. \E ids : req' = [req EXCEPT ![w] = IF ids = {} THEN Idle
                                    ELSE [req[w] EXCEPT !.at = "delete", !.ids = ids]]
        BY <2>3 DEF History, Do
      <3>3. req'[w].at # "sent" /\ \A v \in Requesters \ {w} : req'[v] = req[v]
        BY <2>1, <3>2 DEF Idle, TurnInv, OwnInv, RequestsInv
      <3> QED BY <2>1, <3>1, <3>3 DEF SlotsInv
    <2>4. CASE TimesOut(w)
      BY <2>1, <2>4 DEF TimesOut, Do, SlotsInv, Idle
    <2>5. CASE \E e \in Emoji \union {"all"} : Take(w, e)
      BY <2>1, <2>5 DEF Take, Do, SlotsInv
    <2> QED BY <2>2, <2>3, <2>4, <2>5
  <1> QED BY <1>1, <1>2, <1>3 DEF TurnInv

LEMMA DeleteKeepsTurns ==
    ASSUME TurnInv, NEW w \in Requesters, Delete(w)
    PROVE  TurnInv'
  <1>1. OwnInv'
    BY DeleteKeepsInv DEF TurnInv
  <1>2. /\ UNCHANGED <<posted, slot, restarts>> /\ UNCHANGED adapter
        /\ req[w].at = "delete"
    BY DEF Delete
  <1>3. PICK rows : rows = chips' /\ (Report(rows) \/ UNCHANGED snaps)
    BY DEF Delete
  <1>4. Range(chips') \subseteq Range(chips)
    BY RemoveOnce DEF Delete, TurnInv, OwnInv, ChipsInv
  <1>5. Known' \subseteq Known
    <2>1. Known' \subseteq Known \union Range(chips')
      BY <1>1, <1>2, <1>3, ChipsKeepTurns
    <2> QED BY <1>4, <2>1 DEF Known
  <1>6. Numbered'
    BY <1>2, <1>5, NumberedStays
  <1>7. TurnsInv'
    <2>1. (posted.bot + posted.peer)' = posted.bot + posted.peer
      BY <1>2
    <2> QED BY <1>1, <1>2, <1>3, <2>1, ChipsKeepTurns
  <1>8. SlotsInv'
    <2>1. \E id : req' = [req EXCEPT ![w] = IF req[w].ids \ {id} = {} THEN Idle
                                          ELSE [req[w] EXCEPT !.ids = req[w].ids \ {id}]]
      BY DEF Delete, Do
    <2>2. /\ req'[w].at # "sent" /\ DOMAIN req = Requesters
          /\ \A v \in Requesters \ {w} : req'[v] = req[v]
      BY <1>2, <2>1 DEF TurnInv, OwnInv, RequestsInv, Idle
    <2> QED BY <1>2, <2>2 DEF TurnInv, SlotsInv
  <1> QED BY <1>1, <1>6, <1>7, <1>8 DEF TurnInv

LEMMA PeerKeepsTurns ==
    ASSUME TurnInv, PeerReacts \/ PeerRetracts
    PROVE  TurnInv'
  <1>1. OwnInv'
    BY PeerKeepsInv DEF TurnInv
  <1>2. UNCHANGED <<slot, req, restarts>> /\ UNCHANGED adapter
    BY DEF PeerReacts, PeerRetracts, sidecar
  <1>3. PICK rows : rows = chips' /\ Report(rows)
    BY DEF PeerReacts, PeerRetracts
  <1>4. Known' \subseteq Known \union Range(chips')
    BY <1>1, <1>2, <1>3, ChipsKeepTurns
  <1>5. Numbered' /\ (posted.bot + posted.peer)' \in {posted.bot + posted.peer,
                                                      posted.bot + posted.peer + 1}
    <2>1. CASE PeerReacts
      <3> DEFINE id == <<"peer", posted.peer + 1>>
      <3>1. /\ posted' = [posted EXCEPT !.peer = @ + 1] /\ chips' = Append(chips, id)
            /\ posted.bot + posted.peer < MaxPosted
        BY <2>1 DEF PeerReacts
      <3>2. chips \in Seq(Reaction) /\ posted.bot \in Nat /\ posted.peer \in Nat
        BY DEF TurnInv, OwnInv, ChipsInv
      <3>3. id \in Peer
        BY <3>1, <3>2, ReactionsAssumption DEF Peer
      <3>4. Range(chips') \subseteq Range(chips) \union {id}
        <4> HIDE DEF id
        <4> QED BY <3>1, <3>2 DEF Range
      <3>5. Known' \subseteq Known \union {id}
        BY <1>4, <3>4 DEF Known
      <3> QED BY <3>1, <3>3, <3>5, NumberedNew
    <2>2. CASE PeerRetracts
      <3>1. UNCHANGED posted /\ Range(chips') \subseteq Range(chips)
        BY <2>2, RemoveOnce DEF PeerRetracts, TurnInv, OwnInv, ChipsInv
      <3>2. Known' \subseteq Known
        BY <1>4, <3>1 DEF Known
      <3> QED BY <3>1, <3>2, NumberedStays
    <2> QED BY <2>1, <2>2
  <1>6. TurnsInv'
    BY <1>1, <1>2, <1>3, <1>5, ChipsKeepTurns
  <1>7. SlotsInv'
    BY <1>2 DEF TurnInv, SlotsInv
  <1> QED BY <1>1, <1>5, <1>6, <1>7 DEF TurnInv

\* A snapshot is remembered; what had a turn before is still known.
LEMMA HandleUpdateKeepsTurns ==
    ASSUME TurnInv, HandleUpdate
    PROVE  TurnInv'
  <1> DEFINE rows == Head(snaps)
             last == Last(rows)
  <1>1. /\ snaps \in Seq(Seq(Reaction) \ {<<>>}) /\ snaps # <<>>
        /\ seen \in Seq(Reaction) /\ IsInjective(seen) /\ Len(seen) <= SeenMax
    BY DEF TurnInv, TurnsInv, HandleUpdate
  <1>2. /\ rows \in Seq(Reaction) /\ rows # <<>> /\ rows = snaps[1] /\ 1 \in DOMAIN snaps
    BY <1>1
  <1>3. /\ UNCHANGED <<chips, posted, restarts>> /\ UNCHANGED sidecar
        /\ seen' = Remembered(rows) /\ snaps' \in {snaps, Tail(snaps)}
    BY DEF HandleUpdate
  <1>4. \E turn \in BOOLEAN :
          /\ turn => last \notin Range(seen)
          /\ turned' = turned \union (IF turn THEN {last} ELSE {})
          /\ repeated' = (repeated \/ (turn /\ last \in turned))
    <2>1. PICK stale \in BOOLEAN :
            LET turn == last \notin Range(seen) /\ ~stale /\ last \in Peer
            IN  /\ turned' = turned \union (IF turn THEN {last} ELSE {})
                /\ repeated' = (repeated \/ (turn /\ last \in turned))
      BY DEF HandleUpdate
    <2> HIDE DEF rows, last
    <2> WITNESS (last \notin Range(seen) /\ ~stale /\ last \in Peer) \in BOOLEAN
    <2> QED BY <2>1
  <1>5. Range(rows) \subseteq Known /\ last \in Range(rows)
    <2>1. Range(rows) \subseteq Shown
      BY <1>2 DEF Shown
    <2>2. last = rows[Len(rows)] /\ Len(rows) \in DOMAIN rows
      <3> HIDE DEF rows
      <3> QED BY <1>2 DEF Last
    <2> QED BY <2>1, <2>2 DEF Known, Range
  <1> HIDE DEF rows, last
  <1>6. /\ seen' \in Seq(Reaction)
        /\ Follows(seen', seen, Range(rows))
    BY <1>1, <1>2, <1>3, RememberedFollows
  <1>7. OwnInv'
    <2>1. UNCHANGED <<chips, posted, slot, req, lost>>
      BY <1>3 DEF sidecar
    <2> QED BY <2>1 DEF TurnInv, OwnInv, ChipsInv, RequestsInv, OwnIsRetractable, Held
  <1>8. snaps' \in Seq(Seq(Reaction) \ {<<>>}) /\ Shown' \subseteq Shown
    <2>1. CASE snaps' = snaps
      BY <1>1, <2>1 DEF Shown
    <2>2. CASE snaps' = Tail(snaps)
      <3>1. /\ snaps' \in Seq(Seq(Reaction) \ {<<>>})
            /\ \A k \in DOMAIN snaps' : k + 1 \in DOMAIN snaps /\ snaps'[k] = snaps[k + 1]
        BY <1>1, <2>2
      <3> QED BY <3>1 DEF Shown
    <2> QED BY <1>3, <2>1, <2>2
  <1>9. Known' \subseteq Known
    BY <1>3, <1>5, <1>6, <1>8 DEF Known, Follows
  <1>10. Numbered'
    BY <1>3, <1>9, NumberedStays
  <1>11. SlotsInv'
    BY <1>3 DEF TurnInv, SlotsInv, sidecar
  <1>12. TurnsInv'
    <2>1. ASSUME posted.bot + posted.peer <= SeenMax
          PROVE  turned' \subseteq Range(seen') /\ ~repeated'
      <3>1. RoomFor(Known)
        BY <2>1, RoomForKnown
      <3>2. Range(seen) \union Range(rows) \subseteq Known
        BY <1>5 DEF Known
      <3>3. Range(seen') = Range(seen) \union Range(rows)
        BY <1>6, <3>1, <3>2 DEF Follows
      <3>4. turned \subseteq Range(seen) /\ ~repeated
        BY <2>1 DEF TurnInv, TurnsInv
      <3> QED BY <1>4, <1>5, <3>3, <3>4
    <2> QED BY <1>3, <1>6, <1>8, <2>1 DEF TurnsInv, Follows
  <1> QED BY <1>7, <1>10, <1>11, <1>12 DEF TurnInv

LEMMA RestartKeepsTurns ==
    ASSUME TurnInv, Restart
    PROVE  TurnInv'
  <1>1. OwnInv'
    BY RestartKeepsInv DEF TurnInv
  <1>2. /\ snaps' = <<>> /\ seen' = <<>> /\ turned' = {} /\ repeated' = FALSE
        /\ UNCHANGED <<chips, posted>> /\ DOMAIN <<>> = {}
    BY DEF Restart
  <1>3. Known' \subseteq Known
    BY <1>2 DEF Known, Shown, Range
  <1>4. Numbered'
    BY <1>2, <1>3, NumberedStays
  <1>5. TurnsInv'
    BY <1>2, ReactionsAssumption DEF TurnsInv, IsInjective
  <1>6. SlotsInv'
    BY ReactionsAssumption DEF TurnInv, SlotsInv, Restart, Idle
  <1> QED BY <1>1, <1>4, <1>5, <1>6 DEF TurnInv

\* One step per action.
LEMMA TurnInvNext ==
    ASSUME TurnInv, [ReactionsNext]_reactionVars
    PROVE  TurnInv'
  <1>1. CASE UNCHANGED reactionVars
    <2>1. OwnInv'
      BY <1>1, OwnInvNext DEF TurnInv
    <2>2. UNCHANGED <<network, adapter>> /\ UNCHANGED <<slot, req, restarts>>
      BY <1>1 DEF reactionVars, sidecar
    <2>3. SlotsInv'
      BY <2>2 DEF TurnInv, SlotsInv
    <2> QED BY <2>1, <2>2, <2>3, QuietKeepsTurns DEF TurnInv
  <1> QED
    BY <1>1, ReactKeepsTurns, RequestKeepsTurns, DeleteKeepsTurns, PeerKeepsTurns,
       HandleUpdateKeepsTurns, RestartKeepsTurns
       DEF ReactionsNext, Request

-------------------------------------------------------------------------------
(***************************************************************************)
(* The theorems                                                            *)
(***************************************************************************)

\* However the reacts and unreacts of turns and tools interleave, are refused or
\* time out, the sidecar holds the id of each reaction of the bot on the message,
\* in its map or in a request, unless it is one of those it has dropped.
THEOREM OwnStaysRetractable == ReactionsSpec => []OwnIsRetractable
  <1>1. OwnInv => OwnIsRetractable
    BY DEF OwnInv
  <1> QED BY <1>1, OwnInvInit, OwnInvNext, PTL DEF ReactionsSpec

\* A reaction of the peer has one turn in the life of an adapter, through
\* snapshots that come again, retractions and restarts, for any number of
\* reactions the adapter keeps the ids of.
THEOREM EachReactionOneTurn == ReactionsSpec => []OneTurnPerReaction
  <1>1. TurnInv => OneTurnPerReaction
    BY DEF TurnInv, TurnsInv, OneTurnPerReaction
  <1> QED BY <1>1, TurnInvInit, TurnInvNext, PTL DEF ReactionsSpec

\* Every state is one of the types: no reaction is on the message twice, no id is
\* remembered twice or beyond the limit, and a slot has an id of its emoji.
THEOREM ReactionsTypes == ReactionsSpec => []ReactionsTypeOK
  <1>1. TurnInv => ReactionsTypeOK
    BY DEF TurnInv, TurnsInv, SlotsInv, OwnInv, ChipsInv, RequestsInv, ReactionsTypeOK
  <1> QED BY <1>1, TurnInvInit, TurnInvNext, PTL DEF ReactionsSpec
===============================================================================
