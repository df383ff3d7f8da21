----------------------- MODULE MissingBlocksSyncProofs -----------------------
(***************************************************************************)
(* Proofs about MissingBlocksSync, for any blocks, peers and limits: no    *)
(* request goes deeper than the limit, and undisturbed syncs leave no gap. *)
(***************************************************************************)
EXTENDS MissingBlocksSync, SequenceTheorems, FiniteSetTheorems, WellFoundedInduction,
        TLAPS

Msg == SyncMsg \cup AddMsg

-----------------------------------------------------------------------------
(* Messages.                                                               *)

LEMMA MsgTypes ==
  ASSUME NEW m \in Msg
  PROVE  /\ m.peer \in Peer
         /\ m.type = "sync" => m.missing \subseteq Block /\ m.depth \in 0 .. MAX_DEPTH
         /\ m.type = "add" => m.block \in Block /\ m.depth \in 1 .. MAX_DEPTH
BY DEF Msg, SyncMsg, AddMsg

LEMMA ReceivedFacts ==
  ASSUME TypeOK, NEW m, Received(m)
  PROVE  /\ m \in Msg /\ Tail(queue) \in Seq(Msg) /\ Len(queue) \in Nat /\ Len(queue) >= 1
         /\ m = queue[1] /\ Len(Tail(queue)) = Len(queue) - 1
         /\ \A i \in 1 .. Len(Tail(queue)) : Tail(queue)[i] = queue[i + 1]
<1>1. queue \in Seq(Msg) /\ queue # <<>> /\ m = Head(queue)
  BY DEF TypeOK, Received, Msg
<1>. QED BY <1>1

\* What an addition reports is made of blocks.
LEMMA ReportsTypes ==
  ASSUME stored \subseteq Block, NEW b \in Block, NEW missing \in Reports(b)
  PROVE  missing \subseteq Block
<1>1. ASSUME NEW x \in Block, NEW have PROVE Missing(x, have) \subseteq Block
  <2>1. prev[x] \in Block \cup {Zero} /\ uncles[x] \subseteq Block
    BY MissingAssumption
  <2>2. \A u \in uncles[x] : prev[u] \in Block \cup {Zero}
    BY <2>1, MissingAssumption
  <2>. QED BY <2>1, <2>2 DEF Missing, Parents
<1>. DEFINE have    == stored \cup {b}
            related == {x \in have : b \in Past[x] \/ x \in Past[b]}
            others  == UNION {Missing(x, have) : x \in related}
<1>2. related \subseteq Block
  OBVIOUS
<1>3. others \subseteq Block
  <2>. HIDE DEF related, have
  <2>. QED BY <1>1, <1>2
<1>4. Missing(b, have) \subseteq Block
  BY <1>1
<1>5. missing = {} \/ missing \in {Missing(b, have) \cup more : more \in SUBSET others}
  BY DEF Reports
<1>. HIDE DEF have, related, others
<1>. QED BY <1>3, <1>4, <1>5

\* A peer answers with blocks.
LEMMA AnswerTypes ==
  ASSUME NEW r \in Request
  PROVE  Answer(r) \subseteq Block
<1>1. r.peer \in Peer /\ r.missing \subseteq Block
  BY DEF Request
<1>2. Has[r.peer] \subseteq Block /\ \A x \in r.missing : main[r.peer][height[x]] \in Block \cup {Zero}
  BY <1>1, MissingAssumption
<1>. QED BY <1>1, <1>2 DEF Answer

\* The requests in flight, as a set.
LEMMA BagFacts ==
  ASSUME NEW B, NEW S
  PROVE  /\ BagToSet(B (+) SetToBag(S)) = BagToSet(B) \cup S
         /\ BagToSet(B (-) SetToBag(S)) \subseteq BagToSet(B)
<1>1. DOMAIN SetToBag(S) = S
  BY DEF SetToBag
<1>2. BagToSet(B (+) SetToBag(S)) = BagToSet(B) \cup S
  BY <1>1 DEF BagToSet, \oplus
<1>3. BagToSet(B (-) SetToBag(S)) \subseteq BagToSet(B)
  BY <1>1 DEF BagToSet, \ominus
<1>. QED BY <1>2, <1>3

-----------------------------------------------------------------------------
(* Type correctness.                                                       *)

LEMMA TypeNewBlock ==
  ASSUME TypeOK, NEW p \in Peer, NEW b \in Block, NewBlock(p, b)
  PROVE  TypeOK'
<1>1. /\ stored' \in {stored, stored \cup {b}} /\ notifies < MaxNotifies /\ notifies' = notifies + 1
      /\ UNCHANGED <<banned, requests, cut>>
  BY DEF NewBlock, AdditionFails
<1>2. stored' \subseteq Block /\ notifies' \in 0 .. MaxNotifies
  BY <1>1, MissingAssumption DEF TypeOK
<1>3. /\ notified' \in {notified, notified \cup {b}} /\ disturbed' \in BOOLEAN
      /\ \/ queue' = queue
         \/ \E missing \in Reports(b) :
              queue' = Append(queue, [type |-> "sync", peer |-> p, missing |-> missing,
                                      notify |-> TRUE, depth |-> 0])
  BY DEF NewBlock, AdditionFails
<1>4. queue' \in Seq(SyncMsg \cup AddMsg)
  <2>1. ASSUME NEW missing \in Reports(b)
        PROVE  [type |-> "sync", peer |-> p, missing |-> missing, notify |-> TRUE, depth |-> 0]
                 \in SyncMsg
    BY ReportsTypes, MissingAssumption DEF SyncMsg, TypeOK
  <2>2. CASE queue' = queue
    BY <2>2 DEF TypeOK
  <2>3. ASSUME NEW missing \in Reports(b),
               queue' = Append(queue, [type |-> "sync", peer |-> p, missing |-> missing,
                                       notify |-> TRUE, depth |-> 0])
        PROVE  queue' \in Seq(SyncMsg \cup AddMsg)
    <3>. DEFINE m == [type |-> "sync", peer |-> p, missing |-> missing, notify |-> TRUE, depth |-> 0]
    <3>1. m \in SyncMsg \cup AddMsg /\ queue' = Append(queue, m)
      BY <2>1, <2>3
    <3>. HIDE DEF m
    <3>. QED BY <3>1 DEF TypeOK
  <2>. QED BY <1>3, <2>2, <2>3
<1>. QED BY <1>1, <1>2, <1>3, <1>4 DEF TypeOK

LEMMA TypeSync ==
  ASSUME TypeOK, NEW m, NothingToAsk(m) \/ AskPeers(m)
  PROVE  TypeOK'
<1>1. /\ Received(m) /\ m.type = "sync" /\ queue' = Tail(queue) /\ disturbed' \in BOOLEAN
      /\ UNCHANGED <<stored, banned, notified, notifies>>
  BY DEF NothingToAsk, AskPeers
<1>5. cut' \in BOOLEAN
  BY DEF NothingToAsk, AskPeers, TypeOK
<1>2. m \in Msg /\ queue' \in Seq(SyncMsg \cup AddMsg)
  BY <1>1, ReceivedFacts DEF Msg
<1>3. m.peer \in Peer /\ m.missing \subseteq Block /\ m.depth \in 0 .. MAX_DEPTH
  BY <1>1, <1>2, MsgTypes
<1>4. BagToSet(requests)' \subseteq Request
  <2>1. CASE NothingToAsk(m)
    BY <2>1 DEF NothingToAsk, TypeOK
  <2>2. CASE AskPeers(m)
    <3>. DEFINE new == {[peer |-> p, missing |-> Wanted(m), depth |-> m.depth + 1] : p \in Targets(m)}
    <3>1. requests' = requests (+) SetToBag(new)
      BY <2>2 DEF AskPeers
    <3>2. m.depth + 1 \in 1 .. MAX_DEPTH
      BY <1>3, <2>2, MissingAssumption DEF AskPeers, Exhausted
    <3>3. Wanted(m) \subseteq Block
      BY <1>3 DEF Wanted, Kept
    <3>4. Targets(m) \subseteq Peer
      BY <1>3 DEF Targets, Connected
    <3>5. new \subseteq Request
      BY <3>2, <3>3, <3>4 DEF Request
    <3>. HIDE DEF new
    <3>6. BagToSet(requests') = BagToSet(requests) \cup new
      BY <3>1, BagFacts
    <3>. QED BY <3>5, <3>6 DEF TypeOK
  <2>. QED BY <2>1, <2>2
<1>. QED BY <1>1, <1>2, <1>4, <1>5 DEF TypeOK

LEMMA TypeAdd ==
  ASSUME TypeOK, NEW m, DropBlock(m) \/ AddSyncedBlock(m) \/ BanSource(m)
  PROVE  TypeOK'
<1>1. /\ Received(m) /\ m.type = "add"
  BY DEF DropBlock, AddSyncedBlock, BanSource
<1>2. m \in Msg /\ Tail(queue) \in Seq(Msg)
  BY <1>1, ReceivedFacts
<1>3. m.peer \in Peer /\ m.block \in Block /\ m.depth \in 1 .. MAX_DEPTH
  BY <1>1, <1>2, MsgTypes
<1>4. CASE DropBlock(m)
  BY <1>2, <1>4 DEF DropBlock, TypeOK, Msg, history
<1>5. CASE AddSyncedBlock(m)
  <2>1. PICK missing \in Reports(m.block) :
          queue' = Tail(queue) \o
            IF missing # {} /\ m.depth < MAX_DEPTH
            THEN <<[type |-> "sync", peer |-> m.peer, missing |-> missing, notify |-> FALSE,
                    depth |-> NextDepth(m)]>>
            ELSE <<>>
    BY <1>5 DEF AddSyncedBlock
  <2>. DEFINE n == [type |-> "sync", peer |-> m.peer, missing |-> missing, notify |-> FALSE,
                    depth |-> NextDepth(m)]
              s == IF missing # {} /\ m.depth < MAX_DEPTH THEN <<n>> ELSE <<>>
  <2>2. m.depth < MAX_DEPTH => n \in Msg
    <3>1. missing \subseteq Block
      BY <1>3, ReportsTypes DEF TypeOK
    <3>2. m.depth < MAX_DEPTH => NextDepth(m) \in 0 .. MAX_DEPTH
      BY <1>3, MissingAssumption DEF NextDepth
    <3>. QED BY <1>3, <3>1, <3>2 DEF Msg, SyncMsg
  <2>. HIDE DEF n
  <2>3. s \in Seq(Msg)
    BY <2>2
  <2>4. queue' = Tail(queue) \o s
    BY <2>1 DEF n
  <2>. HIDE DEF s
  <2>5. queue' \in Seq(SyncMsg \cup AddMsg)
    BY <1>2, <2>3, <2>4, ConcatProperties DEF Msg
  <2>6. stored' \subseteq Block /\ UNCHANGED <<banned, requests, notified, notifies, disturbed>>
    BY <1>3, <1>5 DEF AddSyncedBlock, TypeOK, history
  <2>7. cut' \in BOOLEAN
    BY <1>5 DEF AddSyncedBlock
  <2>. QED BY <2>5, <2>6, <2>7 DEF TypeOK
<1>6. CASE BanSource(m)
  BY <1>2, <1>3, <1>6 DEF BanSource, AdditionFails, TypeOK, Msg
<1>. QED BY <1>4, <1>5, <1>6

\* The messages a response becomes.
LEMMA ResponseMessages ==
  ASSUME NEW r \in Request, NEW order \in Orderings(Answer(r))
  PROVE  LET s == [i \in 1 .. Len(order) |-> [type |-> "add", peer |-> r.peer, block |-> order[i],
                                              depth |-> r.depth]]
         IN /\ s \in Seq(Msg)
            /\ \A i \in 1 .. Len(s) : s[i].block \in Answer(r)
<1>. DEFINE n == Cardinality(Answer(r))
            s == [i \in 1 .. Len(order) |-> [type |-> "add", peer |-> r.peer, block |-> order[i],
                                             depth |-> r.depth]]
<1>1. order \in [1 .. n -> Answer(r)]
  BY DEF Orderings
<1>2. n \in Nat
  <2>1. IsFiniteSet(Answer(r))
    BY AnswerTypes, MissingAssumption, FS_Subset
  <2>. QED BY <2>1, FS_CardinalityType
<1>. HIDE DEF n
<1>3. Len(order) = n
  BY <1>1, <1>2
<1>4. r.peer \in Peer /\ r.depth \in 1 .. MAX_DEPTH /\ Answer(r) \subseteq Block
  BY AnswerTypes DEF Request
<1>5. s \in [1 .. n -> AddMsg]
  BY <1>1, <1>3, <1>4 DEF AddMsg
<1>6. \A i \in 1 .. n : s[i].block \in Answer(r)
  BY <1>1, <1>3
<1>. HIDE DEF s
<1>7. s \in Seq(Msg) /\ Len(s) = n
  BY <1>2, <1>5 DEF Msg
<1>8. s \in Seq(Msg) /\ \A i \in 1 .. Len(s) : s[i].block \in Answer(r)
  BY <1>6, <1>7
<1>. QED BY <1>8 DEF s

LEMMA TypeAnswered ==
  ASSUME TypeOK, NEW r \in BagToSet(requests), Response(r) \/ Failure(r)
  PROVE  TypeOK'
<1>1. /\ r \in Request /\ r.peer \in Peer /\ requests' = requests (-) SetToBag({r})
      /\ UNCHANGED <<stored, banned, notified, notifies, cut>>
  BY DEF Response, Failure, TypeOK, Request
<1>2. BagToSet(requests') \subseteq Request
  BY <1>1, BagFacts DEF TypeOK
<1>3. disturbed' \in BOOLEAN
  BY DEF Response, Failure
<1>4. CASE Response(r)
  <2>1. PICK order \in Orderings(Answer(r)) :
          queue' = queue \o [i \in 1 .. Len(order) |-> [type |-> "add", peer |-> r.peer,
                                                        block |-> order[i], depth |-> r.depth]]
    BY <1>4 DEF Response
  <2>. DEFINE s == [i \in 1 .. Len(order) |-> [type |-> "add", peer |-> r.peer, block |-> order[i],
                                               depth |-> r.depth]]
  <2>2. s \in Seq(Msg) /\ queue' = queue \o s
    BY <1>1, <2>1, ResponseMessages
  <2>. HIDE DEF s
  <2>3. queue' \in Seq(SyncMsg \cup AddMsg)
    BY <2>2, ConcatProperties DEF Msg, TypeOK
  <2>. QED BY <1>1, <1>2, <1>3, <2>3 DEF TypeOK
<1>5. CASE Failure(r)
  BY <1>1, <1>2, <1>3, <1>5 DEF Failure, TypeOK
<1>. QED BY <1>4, <1>5

\* The request the main loop handles is the one at the head of the channel.
LEMMA HandledRequest ==
  ASSUME HandleInnerRequest
  PROVE  \E m : NothingToAsk(m) \/ AskPeers(m) \/ DropBlock(m) \/ AddSyncedBlock(m) \/ BanSource(m)
BY DEF HandleInnerRequest

LEMMA TypeInit == Init => TypeOK
<1>. SUFFICES ASSUME Init PROVE TypeOK
  OBVIOUS
<1>1. BagToSet(EmptyBag) = {}
  BY DEF BagToSet, EmptyBag, SetToBag
<1>2. disturbed \in BOOLEAN /\ cut \in BOOLEAN
  BY DEF Init
<1>. QED BY <1>1, <1>2, MissingAssumption DEF Init, TypeOK, Start

LEMMA TypeStep == TypeOK /\ [Next]_vars => TypeOK'
<1>. SUFFICES ASSUME TypeOK, [Next]_vars PROVE TypeOK'
  OBVIOUS
<1>1. CASE UNCHANGED vars
  BY <1>1 DEF vars, history, TypeOK
<1>2. ASSUME NEW p \in Peer, NEW b \in Block, NewBlock(p, b) PROVE TypeOK'
  BY <1>2, TypeNewBlock
<1>3. CASE HandleInnerRequest
  BY <1>3, HandledRequest, TypeSync, TypeAdd
<1>4. ASSUME NEW r \in BagToSet(requests), Response(r) \/ Failure(r) PROVE TypeOK'
  BY <1>4, TypeAnswered
<1>5. CASE ClearBlackList
  BY <1>5 DEF ClearBlackList, history, TypeOK
<1>. QED BY <1>1, <1>2, <1>3, <1>4, <1>5 DEF Next

\* The messages keep their types for any blocks, peers and limits: no request,
\* and no block that came with an answer, is deeper than
\* max_missing_blocks_sync_depth, however often an addition reports missing
\* blocks.
THEOREM DepthsBounded == Spec => []TypeOK
BY TypeInit, TypeStep, PTL DEF Spec

-----------------------------------------------------------------------------
(* Undisturbed syncs leave no gap.                                         *)

\* A peer that every missing block can be had from: it stores all that any block
\* misses, and is never too far behind to be asked.
FullPeer(F) ==
  F \in Peer /\ \A b \in Block : \A d \in Parents(b) : d \in Has[F] /\ peer_height[F] + Lag >= height[d]

Msgs(q) == {q[i] : i \in 1 .. Len(q)}

Brings(n, y) == \/ n.type = "sync" /\ y \in n.missing
                \/ n.type = "add" /\ y = n.block

\* A request whose answer must contain what it asks for: one of a later round, whose
\* peer sent a block that names what is missing, or one to the full peer.
Reliable(F, r) == r.depth > 1 \/ r.peer = F

Coming(F, y) == \/ \E n \in Msgs(queue) : Brings(n, y)
                \/ \E r \in BagToSet(requests) : Reliable(F, r) /\ y \in r.missing

\* Every parent that a stored block misses is on its way.
ParentsCome(F) == \A w \in stored : \A y \in Parents(w) : y \in stored \/ Coming(F, y)

LaterRounds(q) == \A n \in Msgs(q) : n.type = "sync" => n.notify \/ n.depth >= 1

GapInv(F) ==
  /\ \A r \in BagToSet(requests) : requests[r] \in Nat /\ requests[r] > 0
  /\ ~disturbed /\ ~cut =>
       banned = {} /\ notified \subseteq stored /\ LaterRounds(queue) /\ ParentsCome(F)

LEMMA MsgsConcat ==
  ASSUME NEW q \in Seq(Msg), NEW s \in Seq(Msg)
  PROVE  Msgs(q \o s) = Msgs(q) \cup Msgs(s)
<1>1. /\ Len(q) \in Nat /\ Len(s) \in Nat /\ Len(q \o s) = Len(q) + Len(s)
      /\ \A i \in 1 .. Len(q) + Len(s) : (q \o s)[i] = IF i <= Len(q) THEN q[i] ELSE s[i - Len(q)]
  BY ConcatProperties
<1>2. ASSUME NEW i \in 1 .. Len(q) + Len(s) PROVE (q \o s)[i] \in Msgs(q) \cup Msgs(s)
  <2>1. CASE i <= Len(q)
    BY <1>1, <2>1 DEF Msgs
  <2>2. CASE ~(i <= Len(q))
    <3>1. i - Len(q) \in 1 .. Len(s)
      BY <1>1, <2>2
    <3>. QED BY <1>1, <2>2, <3>1 DEF Msgs
  <2>. QED BY <2>1, <2>2
<1>3. ASSUME NEW i \in 1 .. Len(q) PROVE q[i] \in Msgs(q \o s)
  <2>1. i \in 1 .. Len(q) + Len(s) /\ i <= Len(q)
    BY <1>1
  <2>. QED BY <1>1, <2>1 DEF Msgs
<1>4. ASSUME NEW i \in 1 .. Len(s) PROVE s[i] \in Msgs(q \o s)
  <2>1. Len(q) + i \in 1 .. Len(q) + Len(s) /\ ~(Len(q) + i <= Len(q)) /\ (Len(q) + i) - Len(q) = i
    BY <1>1
  <2>2. (q \o s)[Len(q) + i] = s[i]
    BY <1>1, <2>1
  <2>. QED BY <1>1, <2>1, <2>2 DEF Msgs
<1>5. Msgs(q \o s) \subseteq Msgs(q) \cup Msgs(s)
  BY <1>1, <1>2 DEF Msgs
<1>6. Msgs(q) \subseteq Msgs(q \o s) /\ Msgs(s) \subseteq Msgs(q \o s)
  BY <1>3, <1>4 DEF Msgs
<1>. QED BY <1>5, <1>6

LEMMA MsgsOne ==
  ASSUME NEW q \in Seq(Msg), NEW n \in Msg
  PROVE  /\ Msgs(Append(q, n)) = Msgs(q) \cup {n}
         /\ Msgs(q \o <<n>>) = Msgs(q) \cup {n}
         /\ Msgs(<<>>) = {}
<1>1. <<n>> \in Seq(Msg) /\ Append(q, n) = q \o <<n>>
  OBVIOUS
<1>2. Msgs(<<n>>) = {n}
  BY DEF Msgs
<1>3. Msgs(<<>>) = {}
  BY DEF Msgs
<1>. QED BY <1>1, <1>2, <1>3, MsgsConcat

LEMMA MsgsReceived ==
  ASSUME TypeOK, NEW m, Received(m)
  PROVE  Msgs(queue) = Msgs(Tail(queue)) \cup {m}
<1>1. /\ Len(queue) \in Nat /\ Len(queue) >= 1 /\ m = queue[1] /\ Len(Tail(queue)) = Len(queue) - 1
      /\ \A i \in 1 .. Len(Tail(queue)) : Tail(queue)[i] = queue[i + 1]
  BY ReceivedFacts
<1>2. ASSUME NEW i \in 1 .. Len(queue) PROVE queue[i] \in Msgs(Tail(queue)) \cup {m}
  <2>1. CASE i = 1
    BY <1>1, <2>1
  <2>2. CASE i # 1
    <3>1. i - 1 \in 1 .. Len(Tail(queue)) /\ (i - 1) + 1 = i
      BY <1>1, <2>2
    <3>. QED BY <1>1, <3>1 DEF Msgs
  <2>. QED BY <2>1, <2>2
<1>3. ASSUME NEW i \in 1 .. Len(Tail(queue)) PROVE Tail(queue)[i] \in Msgs(queue)
  <2>1. i + 1 \in 1 .. Len(queue)
    BY <1>1
  <2>. QED BY <1>1, <2>1 DEF Msgs
<1>4. m \in Msgs(queue)
  BY <1>1 DEF Msgs
<1>. QED BY <1>2, <1>3, <1>4 DEF Msgs

\* An ordering of an answer leaves no block of it out.
LEMMA OrderingOnto ==
  ASSUME NEW S \in SUBSET Block, NEW order \in Orderings(S), NEW y \in S
  PROVE  \E i \in 1 .. Len(order) : order[i] = y
<1>. DEFINE n == Cardinality(S)
<1>1. IsFiniteSet(S) /\ n \in Nat
  BY MissingAssumption, FS_Subset, FS_CardinalityType
<1>2. order \in [1 .. n -> S] /\ \A i, j \in 1 .. n : order[i] = order[j] => i = j
  BY DEF Orderings
<1>. HIDE DEF n
<1>3. order \in Injection(1 .. n, S)
  BY <1>2 DEF Injection, IsInjective
<1>4. Cardinality(1 .. n) = n
  BY <1>1, FS_Interval
<1>5. order \in Surjection(1 .. n, S)
  BY <1>1, <1>3, <1>4, FS_Injection DEF n
<1>6. Len(order) = n
  BY <1>1, <1>2
<1>. QED BY <1>5, <1>6 DEF Surjection

\* A non-empty set of naturals has a least element, and Min gives it.
LEMMA LeastElement ==
  ASSUME NEW S \in SUBSET Nat, S # {}
  PROVE  Min(S) \in S /\ \A y \in S : Min(S) <= y
<1>. DEFINE R == {ss \in Nat \X Nat : ss[1] < ss[2]}
<1>1. IsWellFoundedOn(R, Nat)
  BY NatLessThanWellFounded DEF OpToRel
<1>. HIDE DEF R
<1>2. PICK x \in S : \A y \in S : ~(<<y, x>> \in R)
  BY <1>1, WFMin
<1>3. ASSUME NEW y \in S PROVE x <= y
  <2>1. ~(y < x)
    BY <1>2 DEF R
  <2>. QED BY <2>1
<1>. QED BY <1>3 DEF Min

\* What a block misses is reported when it is added.
LEMMA ParentsReported ==
  ASSUME NEW b \in Block, NEW missing \in Reports(b), NEW y \in Parents(b), y \notin stored \cup {b}
  PROVE  y \in missing
<1>1. y \in Block
  BY MissingAssumption DEF Parents
<1>2. CASE b \in stored /\ Verified(b)
  <2>1. y \in Past[y] /\ Past[y] \subseteq Past[b]
    BY <1>1, PastAssumption
  <2>. QED BY <1>2, <2>1 DEF Verified, Complete
<1>3. CASE ~(b \in stored /\ Verified(b))
  <2>1. y \in Missing(b, stored \cup {b})
    BY DEF Missing, Parents
  <2>. QED BY <1>3, <2>1 DEF Reports
<1>. QED BY <1>2, <1>3

\* One request is answered; the others stay.
LEMMA BagRest ==
  ASSUME NEW B, NEW r, \A x \in BagToSet(B) : B[x] \in Nat /\ B[x] > 0
  PROVE  /\ BagToSet(B) \ {r} \subseteq BagToSet(B (-) SetToBag({r}))
         /\ \A x \in BagToSet(B (-) SetToBag({r})) :
              (B (-) SetToBag({r}))[x] \in Nat /\ (B (-) SetToBag({r}))[x] > 0
<1>. DEFINE D == [e \in DOMAIN B |-> IF e \in {r} THEN B[e] - 1 ELSE B[e]]
<1>1. DOMAIN SetToBag({r}) = {r} /\ SetToBag({r})[r] = 1
  BY DEF SetToBag
<1>2. B (-) SetToBag({r}) = [e \in {d \in DOMAIN D : D[d] > 0} |-> D[e]]
  BY <1>1 DEF \ominus
<1>3. \A e \in DOMAIN B : D[e] \in Nat
  BY DEF BagToSet
<1>4. \A e \in DOMAIN B \ {r} : D[e] > 0
  BY DEF BagToSet
<1>5. DOMAIN D = DOMAIN B
  OBVIOUS
<1>. HIDE DEF D
<1>. QED BY <1>2, <1>3, <1>4, <1>5 DEF BagToSet

LEMMA BagMore ==
  ASSUME NEW B, NEW S, \A x \in BagToSet(B) : B[x] \in Nat /\ B[x] > 0
  PROVE  \A x \in BagToSet(B (+) SetToBag(S)) :
           (B (+) SetToBag(S))[x] \in Nat /\ (B (+) SetToBag(S))[x] > 0
<1>1. DOMAIN SetToBag(S) = S /\ \A x \in S : SetToBag(S)[x] = 1
  BY DEF SetToBag
<1>. QED BY <1>1 DEF BagToSet, \oplus

LEMMA ParentTypes ==
  ASSUME NEW w \in Block, NEW y \in Parents(w)
  PROVE  y \in Block /\ height[y] \in Nat /\ height[w] \in Nat /\ height[y] < height[w]
BY MissingAssumption DEF Parents

\* What comes still comes when nothing is taken away.
LEMMA ComingGrows ==
  ASSUME NEW F, Msgs(queue) \subseteq Msgs(queue'), BagToSet(requests) \subseteq BagToSet(requests'),
         NEW y, Coming(F, y)
  PROVE  Coming(F, y)'
<1>1. CASE \E n \in Msgs(queue) : Brings(n, y)
  <2>1. PICK n \in Msgs(queue) : Brings(n, y)
    BY <1>1
  <2>2. n \in Msgs(queue)' /\ Brings(n, y)'
    BY <2>1 DEF Msgs, Brings
  <2>. QED BY <2>2 DEF Coming
<1>2. CASE \E r \in BagToSet(requests) : Reliable(F, r) /\ y \in r.missing
  <2>1. PICK r \in BagToSet(requests) : Reliable(F, r) /\ y \in r.missing
    BY <1>2
  <2>2. r \in BagToSet(requests)' /\ Reliable(F, r)'
    BY <2>1 DEF BagToSet, Reliable
  <2>. QED BY <2>1, <2>2 DEF Coming
<1>. QED BY <1>1, <1>2 DEF Coming

LEMMA GapNewBlock ==
  ASSUME TypeOK, NEW F, GapInv(F), NEW p \in Peer, NEW b \in Block, NewBlock(p, b)
  PROVE  GapInv(F)'
<1>1. \A r \in BagToSet(requests)' : requests'[r] \in Nat /\ requests'[r] > 0
  BY DEF NewBlock, GapInv, BagToSet
<1>. SUFFICES ASSUME ~disturbed', ~cut'
              PROVE  /\ banned' = {} /\ notified' \subseteq stored' /\ LaterRounds(queue)'
                     /\ ParentsCome(F)'
  BY <1>1 DEF GapInv
<1>0. ~AdditionFails(b)
  BY DEF AdditionFails
<1>2. PICK missing \in Reports(b) :
        LET few == Cardinality(missing) <= NotifyMissing
            asks == missing # {} /\ few /\ tip_height <= height[b] + NotifyBelow
        IN /\ queue' = IF asks
                       THEN Append(queue, [type |-> "sync", peer |-> p, missing |-> missing,
                                           notify |-> TRUE, depth |-> 0])
                       ELSE queue
           /\ notified' = IF asks THEN notified \cup {b} ELSE notified
           /\ disturbed' = (disturbed \/ (missing # {} /\ ~asks))
  BY <1>0 DEF NewBlock
<1>. DEFINE n == [type |-> "sync", peer |-> p, missing |-> missing, notify |-> TRUE, depth |-> 0]
<1>3. /\ ~disturbed /\ ~cut /\ stored' = stored \cup {b} /\ UNCHANGED <<banned, requests>>
      /\ notified' \subseteq notified \cup {b}
      /\ missing # {} => queue' = Append(queue, n)
      /\ missing = {} => queue' = queue
  BY <1>0, <1>2 DEF NewBlock
<1>4. n \in Msg
  BY ReportsTypes, MissingAssumption DEF Msg, SyncMsg, TypeOK
<1>5. n.type = "sync" /\ n.notify /\ n.missing = missing
  OBVIOUS
<1>. HIDE DEF n
<1>6. queue \in Seq(Msg)
  BY DEF TypeOK, Msg
<1>7. Msgs(queue') = IF missing = {} THEN Msgs(queue) ELSE Msgs(queue) \cup {n}
  BY <1>3, <1>4, <1>6, MsgsOne
<1>8. banned = {} /\ notified \subseteq stored /\ LaterRounds(queue) /\ ParentsCome(F)
  BY <1>3 DEF GapInv
<1>9. LaterRounds(queue)'
  <2>1. \A x \in Msgs(queue') : x.type = "sync" => x.notify \/ x.depth >= 1
    BY <1>5, <1>7, <1>8 DEF LaterRounds
  <2>. QED BY <2>1 DEF LaterRounds, Msgs
<1>10. ASSUME NEW w \in stored', NEW y \in Parents(w), y \notin stored'
       PROVE  Coming(F, y)'
  <2>1. CASE w \in stored
    <3>1. Coming(F, y)
      BY <1>3, <1>8, <1>10, <2>1 DEF ParentsCome
    <3>2. Msgs(queue) \subseteq Msgs(queue') /\ BagToSet(requests) \subseteq BagToSet(requests')
      BY <1>3, <1>7
    <3>. QED BY <3>1, <3>2, ComingGrows
  <2>2. CASE w = b
    <3>1. y \in missing
      BY <1>3, <1>10, <2>2, ParentsReported
    <3>2. n \in Msgs(queue') /\ Brings(n, y)
      BY <1>5, <1>7, <3>1 DEF Brings
    <3>3. \E x \in Msgs(queue)' : Brings(x, y)'
      BY <3>2 DEF Msgs, Brings
    <3>. QED BY <3>3 DEF Coming
  <2>. QED BY <1>3, <2>1, <2>2
<1>11. ParentsCome(F)'
  BY <1>10 DEF ParentsCome, Parents
<1>. QED BY <1>3, <1>8, <1>9, <1>11

\* The full peer is among those asked after a gossiped block for what a stored one
\* misses.
LEMMA FullPeerAsked ==
  ASSUME TypeOK, NEW F, FullPeer(F), banned = {}, NEW m \in Msg, m.type = "sync", m.notify,
         NEW w \in Block, NEW y \in Parents(w), y \in Wanted(m)
  PROVE  F \in Targets(m)
<1>. DEFINE S == {height[x] : x \in Wanted(m)}
<1>1. Wanted(m) \subseteq Block
  BY MsgTypes DEF Wanted, Kept
<1>2. S \in SUBSET Nat /\ height[y] \in S
  BY <1>1, MissingAssumption
<1>3. Min(S) \in Nat /\ Min(S) <= height[y]
  <2>. HIDE DEF S
  <2>. QED BY <1>2, LeastElement
<1>4. F \in Peer /\ peer_height[F] + Lag \in Nat /\ peer_height[F] + Lag >= height[y]
  BY MissingAssumption DEF FullPeer
<1>5. peer_height[F] + Lag >= Min(S)
  BY <1>2, <1>3, <1>4
<1>. QED BY <1>4, <1>5 DEF Targets, Connected

LEMMA GapSync ==
  ASSUME TypeOK, NEW F, FullPeer(F), GapInv(F), NEW m, NothingToAsk(m) \/ AskPeers(m)
  PROVE  GapInv(F)'
<1>. DEFINE new == {[peer |-> p, missing |-> Wanted(m), depth |-> m.depth + 1] : p \in Targets(m)}
<1>1. /\ Received(m) /\ m.type = "sync" /\ queue' = Tail(queue)
      /\ UNCHANGED <<stored, banned, notified>>
      /\ requests' = requests \/ requests' = requests (+) SetToBag(new)
  BY DEF NothingToAsk, AskPeers
<1>2. m \in Msg /\ m.missing \subseteq Block /\ m.depth \in 0 .. MAX_DEPTH
  BY <1>1, ReceivedFacts, MsgTypes
<1>3. \A r \in BagToSet(requests)' : requests'[r] \in Nat /\ requests'[r] > 0
  <2>. HIDE DEF new
  <2>1. CASE requests' = requests
    BY <2>1 DEF GapInv, BagToSet
  <2>2. CASE requests' = requests (+) SetToBag(new)
    <3>1. \A r \in BagToSet(requests (+) SetToBag(new)) :
            (requests (+) SetToBag(new))[r] \in Nat /\ (requests (+) SetToBag(new))[r] > 0
      BY BagMore DEF GapInv
    <3>. QED BY <2>2, <3>1 DEF BagToSet
  <2>. QED BY <1>1, <2>1, <2>2
<1>. SUFFICES ASSUME ~disturbed', ~cut'
              PROVE  /\ banned' = {} /\ notified' \subseteq stored' /\ LaterRounds(queue)'
                     /\ ParentsCome(F)'
  BY <1>3 DEF GapInv
<1>4. ~disturbed /\ ~cut /\ Kept(m) = m.missing /\ (NothingToAsk(m) => Wanted(m) = {})
  <2>1. CASE NothingToAsk(m)
    <3>1. disturbed' = (disturbed \/ Kept(m) # m.missing) /\ cut' = (cut \/ Wanted(m) # {})
      BY <2>1 DEF NothingToAsk
    <3>. QED BY <3>1, Zenon
  <2>2. CASE AskPeers(m)
    <3>1. /\ disturbed' = (disturbed \/ Kept(m) # m.missing) /\ cut' = cut
          /\ Wanted(m) # {} /\ ~Exhausted(m)
      BY <2>2 DEF AskPeers
    <3>2. ~NothingToAsk(m)
      BY <3>1 DEF NothingToAsk
    <3>. QED BY <3>1, <3>2, Zenon
  <2>. QED BY <2>1, <2>2
<1>5. banned = {} /\ notified \subseteq stored /\ LaterRounds(queue) /\ ParentsCome(F)
  BY <1>4 DEF GapInv
<1>6. Msgs(queue) = Msgs(queue') \cup {m}
  BY <1>1, MsgsReceived
<1>7. LaterRounds(queue)' /\ (m.notify \/ m.depth >= 1)
  <2>1. \A x \in Msgs(queue') : x.type = "sync" => x.notify \/ x.depth >= 1
    BY <1>5, <1>6 DEF LaterRounds
  <2>. QED BY <1>1, <1>5, <1>6, <2>1 DEF LaterRounds, Msgs
<1>8. BagToSet(requests) \subseteq BagToSet(requests')
  <2>. HIDE DEF new
  <2>. QED BY <1>1, BagFacts
<1>9. ASSUME NEW w \in stored, NEW y \in Parents(w), y \notin stored
      PROVE  Coming(F, y)'
  <2>1. w \in Block /\ Coming(F, y)
    BY <1>5, <1>9 DEF ParentsCome, TypeOK
  <2>2. CASE y \in m.missing
    <3>1. y \in Wanted(m) /\ AskPeers(m)
      BY <1>4, <1>9, <2>2 DEF Wanted
    <3>2. requests' = requests (+) SetToBag(new)
      BY <3>1 DEF AskPeers
    <3>3. PICK p \in Targets(m) : m.depth >= 1 \/ p = F
      <4>1. CASE m.notify
        BY <1>1, <1>2, <1>5, <2>1, <3>1, <4>1, FullPeerAsked
      <4>2. CASE ~m.notify
        BY <1>7, <4>2 DEF Targets
      <4>. QED BY <4>1, <4>2
    <3>. DEFINE r == [peer |-> p, missing |-> Wanted(m), depth |-> m.depth + 1]
    <3>4. r \in new /\ y \in r.missing
      BY <3>1
    <3>5. Reliable(F, r)
      BY <1>2, <3>3 DEF Reliable
    <3>. HIDE DEF r, new
    <3>6. r \in BagToSet(requests')
      BY <3>2, <3>4, BagFacts
    <3>7. \E x \in BagToSet(requests') : Reliable(F, x) /\ y \in x.missing
      BY <3>4, <3>5, <3>6
    <3>. QED BY <3>7 DEF Coming, Reliable, BagToSet
  <2>3. CASE \E n \in Msgs(queue') : Brings(n, y)
    <3>1. \E n \in Msgs(queue)' : Brings(n, y)'
      BY <2>3 DEF Msgs, Brings
    <3>. QED BY <3>1 DEF Coming
  <2>4. CASE \E r \in BagToSet(requests) : Reliable(F, r) /\ y \in r.missing
    <3>1. \E r \in BagToSet(requests)' : Reliable(F, r)' /\ y \in r.missing
      <4>1. PICK r \in BagToSet(requests) : Reliable(F, r) /\ y \in r.missing
        BY <2>4
      <4>2. r \in BagToSet(requests)' /\ Reliable(F, r)'
        BY <1>8, <4>1 DEF Reliable, BagToSet
      <4>. QED BY <4>1, <4>2
    <3>. QED BY <3>1 DEF Coming
  <2>5. \/ y \in m.missing \/ \E n \in Msgs(queue') : Brings(n, y)
        \/ \E r \in BagToSet(requests) : Reliable(F, r) /\ y \in r.missing
    BY <1>1, <1>6, <2>1 DEF Coming, Brings
  <2>. QED BY <2>2, <2>3, <2>4, <2>5
<1>10. ParentsCome(F)'
  BY <1>1, <1>9 DEF ParentsCome, Parents
<1>. QED BY <1>1, <1>5, <1>7, <1>10

LEMMA GapAdd ==
  ASSUME TypeOK, NEW F, GapInv(F), NEW m, DropBlock(m) \/ AddSyncedBlock(m) \/ BanSource(m)
  PROVE  GapInv(F)'
<1>1. Received(m) /\ m.type = "add" /\ UNCHANGED requests
  BY DEF DropBlock, AddSyncedBlock, BanSource
<1>2. \A r \in BagToSet(requests)' : requests'[r] \in Nat /\ requests'[r] > 0
  BY <1>1 DEF GapInv, BagToSet
<1>. SUFFICES ASSUME ~disturbed', ~cut'
              PROVE  /\ banned' = {} /\ notified' \subseteq stored' /\ LaterRounds(queue)'
                     /\ ParentsCome(F)'
  BY <1>2 DEF GapInv
<1>3. ~disturbed /\ ~cut
  <2>1. CASE DropBlock(m)
    BY <2>1 DEF DropBlock, history
  <2>2. CASE AddSyncedBlock(m)
    <3>1. disturbed' = disturbed /\ (cut => cut')
      BY <2>2, Zenon DEF AddSyncedBlock
    <3>. QED BY <3>1, Zenon
  <2>3. CASE BanSource(m)
    BY <2>3 DEF BanSource, AdditionFails
  <2>. QED BY <2>1, <2>2, <2>3
<1>4. banned = {} /\ notified \subseteq stored /\ LaterRounds(queue) /\ ParentsCome(F)
  BY <1>3 DEF GapInv
<1>5. AddSyncedBlock(m)
  BY <1>4 DEF DropBlock, BanSource, AdditionFails
<1>6. /\ m \in Msg /\ Tail(queue) \in Seq(Msg) /\ m.peer \in Peer /\ m.block \in Block
      /\ m.depth \in 1 .. MAX_DEPTH /\ Msgs(queue) = Msgs(Tail(queue)) \cup {m}
  BY <1>1, ReceivedFacts, MsgTypes, MsgsReceived
<1>7. PICK missing \in Reports(m.block) :
        /\ queue' = Tail(queue) \o
             IF missing # {} /\ m.depth < MAX_DEPTH
             THEN <<[type |-> "sync", peer |-> m.peer, missing |-> missing, notify |-> FALSE,
                     depth |-> NextDepth(m)]>>
             ELSE <<>>
        /\ cut' = (cut \/ (missing # {} /\ m.depth >= MAX_DEPTH))
  BY <1>5 DEF AddSyncedBlock
<1>. DEFINE n == [type |-> "sync", peer |-> m.peer, missing |-> missing, notify |-> FALSE,
                  depth |-> NextDepth(m)]
<1>8. missing # {} => m.depth < MAX_DEPTH
  <2>1. missing # {} => ~(m.depth >= MAX_DEPTH)
    BY <1>7, Zenon
  <2>. QED BY <1>6, <2>1, MissingAssumption
<1>9. /\ missing # {} => queue' = Tail(queue) \o <<n>>
      /\ missing = {} => queue' = Tail(queue) \o <<>>
  BY <1>7, <1>8
<1>10. missing # {} => n \in Msg
  <2>1. missing \subseteq Block
    BY <1>6, ReportsTypes DEF TypeOK
  <2>2. missing # {} => NextDepth(m) \in 0 .. MAX_DEPTH
    BY <1>6, <1>8, MissingAssumption DEF NextDepth
  <2>. QED BY <1>6, <2>1, <2>2 DEF Msg, SyncMsg
<1>11. n.type = "sync" /\ n.depth >= 1 /\ n.missing = missing
  BY <1>6 DEF NextDepth
<1>. HIDE DEF n
<1>12. Msgs(queue') = IF missing = {} THEN Msgs(Tail(queue)) ELSE Msgs(Tail(queue)) \cup {n}
  <2>1. CASE missing = {}
    <3>1. queue' = Tail(queue)
      BY <1>6, <1>9, <2>1
    <3>. QED BY <2>1, <3>1
  <2>2. CASE missing # {}
    BY <1>6, <1>9, <1>10, <2>2, MsgsOne
  <2>. QED BY <2>1, <2>2
<1>13. LaterRounds(queue)'
  <2>1. \A x \in Msgs(queue') : x.type = "sync" => x.notify \/ x.depth >= 1
    BY <1>4, <1>6, <1>11, <1>12 DEF LaterRounds
  <2>. QED BY <2>1 DEF LaterRounds, Msgs
<1>14. stored' = stored \cup {m.block} /\ UNCHANGED <<banned, notified>>
  BY <1>5 DEF AddSyncedBlock
<1>15. ASSUME NEW w \in stored', NEW y \in Parents(w), y \notin stored'
       PROVE  Coming(F, y)'
  <2>1. CASE w \in stored
    <3>1. Coming(F, y)
      BY <1>4, <1>14, <1>15, <2>1 DEF ParentsCome
    <3>2. CASE \E x \in Msgs(queue) : Brings(x, y)
      <4>1. PICK x \in Msgs(queue) : Brings(x, y)
        BY <3>2
      <4>2. x # m
        BY <1>1, <1>14, <1>15, <4>1 DEF Brings
      <4>3. x \in Msgs(queue')
        BY <1>6, <1>12, <4>1, <4>2
      <4>4. \E z \in Msgs(queue)' : Brings(z, y)'
        BY <4>1, <4>3 DEF Msgs, Brings
      <4>. QED BY <4>4 DEF Coming
    <3>3. CASE \E r \in BagToSet(requests) : Reliable(F, r) /\ y \in r.missing
      BY <1>1, <3>3 DEF Coming, Reliable, BagToSet
    <3>. QED BY <3>1, <3>2, <3>3 DEF Coming
  <2>2. CASE w = m.block
    <3>1. y \in missing
      BY <1>6, <1>14, <1>15, <2>2, ParentsReported
    <3>2. n \in Msgs(queue') /\ Brings(n, y)
      BY <1>11, <1>12, <3>1 DEF Brings
    <3>3. \E x \in Msgs(queue)' : Brings(x, y)'
      BY <3>2 DEF Msgs, Brings
    <3>. QED BY <3>3 DEF Coming
  <2>. QED BY <1>14, <1>15, <2>1, <2>2
<1>16. ParentsCome(F)'
  BY <1>15 DEF ParentsCome, Parents
<1>. QED BY <1>4, <1>13, <1>14, <1>16

\* Each block of an answer comes in a message.
LEMMA AnswerQueued ==
  ASSUME TypeOK, NEW r \in Request, Response(r)
  PROVE  /\ Msgs(queue) \subseteq Msgs(queue')
         /\ \A y \in Answer(r) : \E n \in Msgs(queue') : Brings(n, y)
         /\ \A n \in Msgs(queue') : n \in Msgs(queue) \/ n.type = "add"
<1>1. PICK order \in Orderings(Answer(r)) :
        queue' = queue \o [i \in 1 .. Len(order) |-> [type |-> "add", peer |-> r.peer,
                                                      block |-> order[i], depth |-> r.depth]]
  BY DEF Response
<1>. DEFINE s == [i \in 1 .. Len(order) |-> [type |-> "add", peer |-> r.peer, block |-> order[i],
                                             depth |-> r.depth]]
<1>2. s \in Seq(Msg) /\ queue' = queue \o s
  BY <1>1, ResponseMessages
<1>3. DOMAIN s = 1 .. Len(order) /\ \A i \in 1 .. Len(order) : s[i].type = "add" /\ s[i].block = order[i]
  OBVIOUS
<1>. HIDE DEF s
<1>4. 1 .. Len(s) = 1 .. Len(order)
  BY <1>2, <1>3
<1>5. Msgs(queue') = Msgs(queue) \cup Msgs(s)
  BY <1>2, MsgsConcat DEF TypeOK, Msg
<1>6. ASSUME NEW y \in Answer(r) PROVE \E n \in Msgs(s) : Brings(n, y)
  <2>1. PICK i \in 1 .. Len(order) : order[i] = y
    BY AnswerTypes, OrderingOnto
  <2>. QED BY <1>3, <1>4, <2>1 DEF Msgs, Brings
<1>7. \A n \in Msgs(s) : n.type = "add"
  BY <1>3, <1>4 DEF Msgs
<1>. QED BY <1>5, <1>6, <1>7

LEMMA GapAnswered ==
  ASSUME TypeOK, NEW F, FullPeer(F), GapInv(F), NEW r \in BagToSet(requests),
         Response(r) \/ Failure(r)
  PROVE  GapInv(F)'
<1>1. r \in Request /\ requests' = requests (-) SetToBag({r})
  BY DEF Response, Failure, TypeOK
<1>2. /\ BagToSet(requests) \ {r} \subseteq BagToSet(requests')
      /\ \A x \in BagToSet(requests') : requests'[x] \in Nat /\ requests'[x] > 0
  BY <1>1, BagRest DEF GapInv
<1>. SUFFICES ASSUME ~disturbed', ~cut'
              PROVE  /\ banned' = {} /\ notified' \subseteq stored' /\ LaterRounds(queue)'
                     /\ ParentsCome(F)'
  BY <1>2 DEF GapInv, BagToSet
<1>3. Response(r)
  BY DEF Failure
<1>4. /\ disturbed' = (disturbed \/ (r.depth > 1 /\ Answer(r) # r.missing))
      /\ UNCHANGED <<stored, banned, notified, cut>>
  BY <1>3 DEF Response
<1>5. ~disturbed /\ ~cut /\ (r.depth > 1 => Answer(r) = r.missing)
  BY <1>4, Zenon
<1>6. banned = {} /\ notified \subseteq stored /\ LaterRounds(queue) /\ ParentsCome(F)
  BY <1>5 DEF GapInv
<1>7. LaterRounds(queue)'
  <2>1. \A n \in Msgs(queue') : n.type = "sync" => n.notify \/ n.depth >= 1
    BY <1>1, <1>3, <1>6, AnswerQueued DEF LaterRounds
  <2>. QED BY <2>1 DEF LaterRounds, Msgs
<1>8. ASSUME NEW w \in stored, NEW y \in Parents(w), y \notin stored
      PROVE  Coming(F, y)'
  <2>1. w \in Block /\ Coming(F, y)
    BY <1>6, <1>8 DEF ParentsCome, TypeOK
  <2>2. CASE \E n \in Msgs(queue') : Brings(n, y)
    BY <2>2 DEF Coming, Msgs, Brings
  <2>3. ASSUME NEW x \in BagToSet(requests), Reliable(F, x), y \in x.missing
        PROVE  Coming(F, y)'
    <3>1. CASE x # r
      <4>1. \E z \in BagToSet(requests') : Reliable(F, z) /\ y \in z.missing
        BY <1>2, <2>3, <3>1
      <4>. QED BY <4>1 DEF Coming, Reliable, BagToSet
    <3>2. CASE x = r
      <4>1. y \in Answer(r)
        <5>1. CASE r.depth > 1
          BY <1>5, <2>3, <3>2, <5>1
        <5>2. CASE r.peer = F
          <6>1. y \in Has[F] /\ y # Zero
            BY <2>1, MissingAssumption DEF FullPeer, Parents
          <6>. QED BY <2>3, <3>2, <5>2, <6>1 DEF Answer
        <5>. QED BY <2>3, <3>2, <5>1, <5>2 DEF Reliable
      <4>. QED BY <1>1, <1>3, <2>2, <4>1, AnswerQueued
    <3>. QED BY <3>1, <3>2
  <2>4. \/ \E n \in Msgs(queue') : Brings(n, y)
        \/ \E x \in BagToSet(requests) : Reliable(F, x) /\ y \in x.missing
    BY <1>1, <1>3, <2>1, AnswerQueued DEF Coming
  <2>. QED BY <2>2, <2>3, <2>4
<1>9. ParentsCome(F)'
  BY <1>4, <1>8 DEF ParentsCome, Parents
<1>. QED BY <1>4, <1>6, <1>7, <1>9

LEMMA GapInit ==
  ASSUME NEW F, Init
  PROVE  GapInv(F)
<1>1. BagToSet(requests) = {}
  BY DEF Init, BagToSet, EmptyBag, SetToBag
<1>2. Msgs(queue) = {}
  BY DEF Init, Msgs
<1>3. ASSUME NEW w \in stored, NEW y \in Parents(w) PROVE y \in stored
  <2>1. w \in Block /\ height[w] = 0
    BY MissingAssumption DEF Init, Start
  <2>2. height[y] \in Nat /\ height[y] < height[w]
    BY <2>1, ParentTypes
  <2>. QED BY <2>1, <2>2
<1>. QED BY <1>1, <1>2, <1>3 DEF Init, GapInv, LaterRounds, ParentsCome

LEMMA GapStep ==
  ASSUME TypeOK, NEW F, FullPeer(F), GapInv(F), [Next]_vars
  PROVE  GapInv(F)'
<1>1. CASE UNCHANGED <<stored, banned, queue, requests, notified, disturbed, cut>>
  BY <1>1 DEF GapInv, BagToSet, LaterRounds, ParentsCome, Parents, Coming, Reliable, Msgs, Brings
<1>2. ASSUME NEW p \in Peer, NEW b \in Block, NewBlock(p, b) PROVE GapInv(F)'
  BY <1>2, GapNewBlock
<1>3. CASE HandleInnerRequest
  BY <1>3, HandledRequest, GapSync, GapAdd
<1>4. ASSUME NEW r \in BagToSet(requests), Response(r) \/ Failure(r) PROVE GapInv(F)'
  BY <1>4, GapAnswered
<1>5. CASE ClearBlackList
  <2>1. banned' = {} /\ UNCHANGED <<stored, queue, requests, notified, disturbed, cut>>
    BY <1>5 DEF ClearBlackList, history
  <2>. QED BY <2>1 DEF GapInv, BagToSet, LaterRounds, ParentsCome, Parents, Coming, Reliable, Msgs, Brings
<1>. QED BY <1>1, <1>2, <1>3, <1>4, <1>5 DEF Next, vars, history

\* Blocks that all have their parents have all of their past: the lowest one that
\* had not would have a lower one.
LEMMA ClosedIsComplete ==
  ASSUME stored \subseteq Block, \A w \in stored : Parents(w) \subseteq stored
  PROVE  \A b \in stored : Complete(b, stored)
<1>. DEFINE gap == {b \in stored : ~Complete(b, stored)}
            S   == {height[b] : b \in gap}
<1>1. SUFFICES ASSUME gap # {} PROVE FALSE
  OBVIOUS
<1>2. S \in SUBSET Nat /\ S # {}
  BY <1>1, MissingAssumption
<1>3. Min(S) \in S /\ \A n \in S : Min(S) <= n
  <2>. HIDE DEF S
  <2>. QED BY <1>2, LeastElement
<1>4. PICK b \in gap : \A x \in gap : height[b] <= height[x]
  BY <1>3
<1>5. ASSUME NEW d \in Parents(b) PROVE Past[d] \subseteq stored
  <2>1. d \in stored /\ height[d] \in Nat /\ height[b] \in Nat /\ height[d] < height[b]
    BY <1>5, ParentTypes
  <2>2. ~(height[b] <= height[d])
    BY <2>1
  <2>3. d \notin gap
    BY <1>4, <2>2
  <2>. QED BY <2>1, <2>3 DEF Complete
<1>6. b \in Block /\ b \in stored /\ Past[b] = {b} \cup UNION {Past[d] : d \in Parents(b)}
  BY PastAssumption
<1>7. Past[b] \subseteq stored
  BY <1>5, <1>6
<1>. QED BY <1>7 DEF Complete

\* With one peer that has all that is missing, syncs that nothing disturbs and the
\* depth limit does not end leave no gap, for any blocks, other peers, limits and
\* number of gossiped blocks: while a stored block misses a parent, some message
\* or request is bound to bring it, although each sync leaves out what another
\* one has stored.
THEOREM GapsAreFilled ==
  ASSUME NEW F, FullPeer(F)
  PROVE  Spec => []GapsFilled
<1>1. Init => TypeOK /\ GapInv(F)
  BY TypeInit, GapInit
<1>2. TypeOK /\ GapInv(F) /\ [Next]_vars => TypeOK' /\ GapInv(F)'
  BY TypeStep, GapStep
<1>3. TypeOK /\ GapInv(F) => GapsFilled
  <2>. SUFFICES ASSUME TypeOK, GapInv(F), Quiet, ~disturbed, ~cut
                PROVE  \A b \in notified : Complete(b, stored)
    BY DEF GapsFilled
  <2>1. BagToSet(requests) = {} /\ Msgs(queue) = {}
    BY DEF Quiet, BagToSet, EmptyBag, SetToBag, Msgs
  <2>2. notified \subseteq stored /\ ParentsCome(F)
    BY DEF GapInv
  <2>3. \A w \in stored : Parents(w) \subseteq stored
    BY <2>1, <2>2 DEF ParentsCome, Coming
  <2>. QED BY <2>2, <2>3, ClosedIsComplete DEF TypeOK
<1>. QED BY <1>1, <1>2, <1>3, PTL DEF Spec
=============================================================================
