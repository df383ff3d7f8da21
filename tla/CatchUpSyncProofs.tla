-------------------------- MODULE CatchUpSyncProofs --------------------------
(***************************************************************************)
(* Proofs about CatchUpSync: whatever the peers answer and whichever way a *)
(* sync ends, a permit has exactly one owner, for any number of peers,     *)
(* permits and blocks; and with one permit, the default, a continuation    *)
(* never meets the saved progress of another sync.                         *)
(***************************************************************************)
EXTENDS CatchUpSync, SequenceTheorems, WellFoundedInduction, TLAPS

-----------------------------------------------------------------------------
(* Heights.                                                                *)

\* A non-empty set of naturals below n has a greatest element, and Max gives it.
LEMMA GreatestElement ==
  ASSUME NEW n \in Nat, NEW S \in SUBSET (0 .. n), S # {}
  PROVE  Max(S) \in S /\ \A y \in S : Max(S) >= y
<1>. DEFINE R == {ss \in Nat \X Nat : ss[1] < ss[2]}
<1>. DEFINE T == {x \in 0 .. n : n - x \in S}
<1>1. IsWellFoundedOn(R, Nat)
  BY NatLessThanWellFounded DEF OpToRel
<1>. HIDE DEF R
<1>2. T \subseteq Nat /\ T # {}
  <2>1. PICK s \in S : TRUE
    OBVIOUS
  <2>2. n - s \in T
    BY <2>1
  <2>. QED BY <2>2
<1>. HIDE DEF T
<1>3. PICK x \in T : \A y \in T : ~(<<y, x>> \in R)
  BY <1>1, <1>2, WFMin
<1>4. ASSUME NEW y \in S PROVE n - x >= y
  <2>1. n - y \in T /\ x \in 0 .. n
    BY DEF T
  <2>2. ~(n - y < x)
    BY <1>2, <1>3, <2>1 DEF R
  <2>. QED BY <2>1, <2>2
<1>5. n - x \in S
  BY DEF T
<1>. QED BY <1>4, <1>5 DEF Max

LEMMA OurTipType == TypeOK => OurTip \in 0 .. MaxTip
<1>. SUFFICES ASSUME TypeOK PROVE OurTip \in 0 .. MaxTip
  OBVIOUS
<1>. DEFINE S == {h \in 0 .. MaxTip : 1 .. h \subseteq held}
<1>1. MaxTip \in Nat /\ S \in SUBSET (0 .. MaxTip) /\ 0 \in S
  BY SyncAssumption
<1>. HIDE DEF S
<1>2. Max(S) \in S
  BY <1>1, GreatestElement
<1>. QED BY <1>1, <1>2 DEF OurTip, S

\* What a peer returns is a part of its chain.
LEMMA ReturnedTypes ==
  ASSUME TypeOK, NEW p \in Peer, FirstReturned(p) <= their_tip[p]
  PROVE  /\ FirstReturned(p) \in Height /\ LastReturned(p) \in Height
         /\ FirstReturned(p) <= LastReturned(p) /\ LastReturned(p) <= their_tip[p]
         /\ their_tip[p] \in Height
<1>. DEFINE C == {h \in asked[p].i_have \cup {asked[p].last} : h <= their_tip[p]} \cup {0}
<1>1. /\ MaxTip \in Nat /\ their_tip[p] \in 0 .. MaxTip /\ asked[p].i_have \subseteq Height
      /\ asked[p].last \in 0 .. MaxTip /\ MAX_CATCH_UP_BLOCKS_TO_RETURN \in Nat
  BY SyncAssumption DEF TypeOK, Request
<1>2. C \in SUBSET (0 .. MaxTip) /\ C # {}
  BY <1>1 DEF Height
<1>3. FirstReturned(p) = Max(C) + 1
  BY DEF FirstReturned
<1>. HIDE DEF C
<1>4. Max(C) \in 0 .. MaxTip
  BY <1>1, <1>2, GreatestElement
<1>. DEFINE u == FirstReturned(p) + MAX_CATCH_UP_BLOCKS_TO_RETURN
<1>5. LastReturned(p) = Min({their_tip[p], u})
  BY DEF LastReturned
<1>6. u \in Nat /\ u >= FirstReturned(p) /\ FirstReturned(p) \in Nat /\ FirstReturned(p) >= 1
  BY <1>1, <1>3, <1>4
<1>. HIDE DEF u
<1>7. LastReturned(p) = IF their_tip[p] <= u THEN their_tip[p] ELSE u
  <2>. DEFINE g == IF their_tip[p] <= u THEN their_tip[p] ELSE u
  <2>1. g \in {their_tip[p], u} /\ \A y \in {their_tip[p], u} : g <= y
    BY <1>1, <1>6
  <2>2. \A x \in {their_tip[p], u} : (\A y \in {their_tip[p], u} : x <= y) => x = g
    BY <1>1, <1>6
  <2>. QED BY <1>5, <2>1, <2>2 DEF Min
<1>. QED BY <1>1, <1>6, <1>7 DEF Height

-----------------------------------------------------------------------------
(* Type correctness.                                                       *)

\* A task holds a part of its peer's chain, one block at least.
TasksOnChain == \A t \in tasks : t.lo <= t.hi /\ t.hi <= their_tip[t.peer]

TypeInv == TypeOK /\ TasksOnChain

LEMMA ReceivedFacts ==
  ASSUME TypeOK, NEW m, Received(m)
  PROVE  /\ m \in PerformMsg \cup AddMsg /\ Len(queue) \in Nat /\ Len(queue) >= 1 /\ m = queue[1]
         /\ queue' \in Seq(PerformMsg \cup AddMsg) /\ Len(queue') = Len(queue) - 1
         /\ \A i \in 1 .. Len(queue') : queue'[i] = queue[i + 1]
<1>1. queue \in Seq(PerformMsg \cup AddMsg) /\ queue # <<>> /\ m = Head(queue) /\ queue' = Tail(queue)
  BY DEF TypeOK, Received
<1>. QED BY <1>1

LEMMA PerformTypes ==
  ASSUME NEW m \in PerformMsg \cup AddMsg
  PROVE  /\ m.peer \in Peer
         /\ m.type = "perform" => m.last \in 0 .. MaxTip /\ m.permit \in Permit \cup {NoPermit}
         /\ m.type = "add" => m.block \in Height
BY DEF PerformMsg, AddMsg

LEMMA TaskTypes ==
  ASSUME TypeOK, NEW t \in tasks
  PROVE  /\ t \in Task /\ t.peer \in Peer /\ t.lo \in Height /\ t.hi \in Height /\ t.tip \in Height
         /\ t.permit \in Permit
BY DEF TypeOK, Task

LEMMA TypeInit == Init => TypeInv
BY SyncAssumption DEF Init, TypeInv, TypeOK, TasksOnChain, Request, NoRequest, Height

LEMMA TypeReceive ==
  ASSUME TypeInv, NEW m, Received(m),
         RefusePeer(m) \/ AlreadyBusy(m) \/ SendRequest(m) \/ AddSyncedBlock(m)
  PROVE  TypeInv'
<1>1. /\ m \in PerformMsg \cup AddMsg /\ queue' \in Seq(PerformMsg \cup AddMsg)
      /\ m.peer \in Peer
      /\ m.type = "perform" => m.last \in 0 .. MaxTip /\ m.permit \in Permit \cup {NoPermit}
      /\ m.type = "add" => m.block \in Height
  BY ReceivedFacts, PerformTypes DEF TypeInv
<1>2. CASE RefusePeer(m)
  <2>1. last_failed' \in Peer \cup {NoPeer} /\ free' \subseteq Permit
    BY <1>1, <1>2 DEF RefusePeer, Released, TypeInv, TypeOK
  <2>. QED BY <1>1, <1>2, <2>1 DEF RefusePeer, TypeInv, TypeOK, TasksOnChain, peer_vars
<1>3. CASE AlreadyBusy(m)
  <2>1. last_requested' \in 0 .. MaxTip /\ free' \subseteq Permit
    BY <1>1, <1>3, SyncAssumption DEF AlreadyBusy, Accepted, Released, TypeInv, TypeOK
  <2>. QED BY <1>1, <1>3, <2>1 DEF AlreadyBusy, TypeInv, TypeOK, TasksOnChain, peer_vars
<1>4. CASE SendRequest(m)
  <2>1. m.type = "perform"
    BY <1>4 DEF SendRequest, Accepted
  <2>2. free' \subseteq Permit /\ in_progress' \in [Peer -> Permit \cup {NoPermit}]
    BY <1>1, <1>4, <2>1 DEF SendRequest, TypeInv, TypeOK
  <2>. DEFINE last  == IF m.last # 0 THEN m.last ELSE last_requested
              chain == IF m.last # 0 THEN {} ELSE 1 .. OurTip
              tips  == {recent[p] : p \in Peer} \ {0}
  <2>3. last \in 0 .. MaxTip /\ tips \subseteq Height /\ chain \subseteq Height
    <3>1. last \in 0 .. MaxTip
      BY <1>1, <2>1 DEF TypeInv, TypeOK
    <3>2. tips \subseteq Height
      BY SyncAssumption DEF TypeInv, TypeOK, Height
    <3>3. OurTip \in 0 .. MaxTip
      BY OurTipType DEF TypeInv
    <3>4. chain \subseteq Height
      BY <3>3, SyncAssumption DEF Height
    <3>. QED BY <3>1, <3>2, <3>4
  <2>4. /\ asked' = [asked EXCEPT ![m.peer] = [i_have |-> chain \cup tips, last |-> last]]
        /\ last_requested' = last
    BY <1>4 DEF SendRequest
  <2>. HIDE DEF last, chain, tips
  <2>5. asked' \in [Peer -> Request] /\ last_requested' \in 0 .. MaxTip
    BY <1>1, <2>3, <2>4 DEF TypeInv, TypeOK, Request
  <2>. QED BY <1>1, <1>4, <2>2, <2>5 DEF SendRequest, TypeInv, TypeOK, TasksOnChain, peer_vars
<1>5. CASE AddSyncedBlock(m)
  <2>1. held' \subseteq Height /\ list' \in [Peer -> {"white", "grey", "black"}]
    BY <1>1, <1>5 DEF AddSyncedBlock, TypeInv, TypeOK
  <2>. QED BY <1>1, <1>5, <2>1 DEF AddSyncedBlock, TypeInv, TypeOK, TasksOnChain, sync_vars
<1>. QED BY <1>2, <1>3, <1>4, <1>5

LEMMA TypeAnswer ==
  ASSUME TypeInv, NEW p \in Peer,
         ErrorResponse(p) \/ EmptyResponse(p) \/ BlocksResponse(p) \/ OutboundFailure(p)
  PROVE  TypeInv'
<1>1. /\ Answered(p) /\ in_progress[p] \in Permit
      /\ in_progress' \in [Peer -> Permit \cup {NoPermit}] /\ asked' \in [Peer -> Request]
      /\ in_progress[p] \in Permit
  <2>1. Answered(p)
    BY DEF ErrorResponse, EmptyResponse, BlocksResponse, OutboundFailure
  <2>2. NoRequest \in Request
    BY SyncAssumption DEF NoRequest, Request
  <2>. QED BY <2>1, <2>2 DEF Answered, TypeInv, TypeOK
<1>2. CASE ErrorResponse(p)
  BY <1>1, <1>2 DEF ErrorResponse, TypeInv, TypeOK, TasksOnChain, peer_vars
<1>3. CASE EmptyResponse(p)
  BY <1>1, <1>3, SyncAssumption DEF EmptyResponse, TypeInv, TypeOK, TasksOnChain
<1>4. CASE BlocksResponse(p)
  <2>. DEFINE t == [peer |-> p, lo |-> FirstReturned(p), hi |-> LastReturned(p),
                    tip |-> their_tip[p], permit |-> in_progress[p],
                    pc |-> "send", must_continue |-> FALSE]
  <2>1. t \in Task /\ t.lo <= t.hi /\ t.hi <= their_tip[t.peer]
    <3>1. FirstReturned(p) <= their_tip[p]
      BY <1>4 DEF BlocksResponse
    <3>2. /\ FirstReturned(p) \in Height /\ LastReturned(p) \in Height
          /\ FirstReturned(p) <= LastReturned(p) /\ LastReturned(p) <= their_tip[p]
          /\ their_tip[p] \in Height
      BY <3>1, ReturnedTypes DEF TypeInv
    <3>. QED BY <1>1, <3>2 DEF Task
  <2>2. tasks' = tasks \cup {t}
    BY <1>4 DEF BlocksResponse
  <2>. HIDE DEF t
  <2>3. tasks' \subseteq Task /\ TasksOnChain'
    BY <1>4, <2>1, <2>2 DEF BlocksResponse, TypeInv, TypeOK, TasksOnChain
  <2>. QED BY <1>1, <1>4, <2>3, SyncAssumption DEF BlocksResponse, TypeInv, TypeOK, peer_vars
<1>5. CASE OutboundFailure(p)
  <2>1. list' \in [Peer -> {"white", "grey", "black"}]
    BY <1>5 DEF OutboundFailure, TypeInv, TypeOK
  <2>. QED BY <1>1, <1>5, <2>1 DEF OutboundFailure, TypeInv, TypeOK, TasksOnChain
<1>. QED BY <1>2, <1>3, <1>4, <1>5

LEMMA TypeTask ==
  ASSUME TypeInv, NEW t \in tasks, TaskSend(t) \/ TaskRecord(t) \/ TaskContinue(t) \/ TaskEnd(t)
  PROVE  TypeInv'
<1>1. /\ t \in Task /\ t.peer \in Peer /\ t.lo \in Height /\ t.hi \in Height /\ t.tip \in Height
      /\ t.permit \in Permit /\ t.lo <= t.hi /\ t.hi <= their_tip[t.peer]
  BY TaskTypes DEF TypeInv, TasksOnChain
<1>2. CASE TaskSend(t)
  <2>. DEFINE n == t.hi - t.lo + 1
              blocks == [i \in 1 .. n |-> [type |-> "add", peer |-> t.peer, block |-> t.lo + i - 1]]
  <2>1. n \in Nat /\ \A i \in 1 .. n : t.lo + i - 1 \in Height
    BY <1>1, SyncAssumption DEF Height
  <2>2. blocks \in [1 .. n -> AddMsg]
    BY <1>1, <2>1 DEF AddMsg
  <2>3. queue' = queue \o blocks
    BY <1>2 DEF TaskSend
  <2>. HIDE DEF blocks, n
  <2>4. queue' \in Seq(PerformMsg \cup AddMsg)
    BY <2>1, <2>2, <2>3 DEF TypeInv, TypeOK
  <2>5. tasks' \subseteq Task /\ TasksOnChain'
    BY <1>1, <1>2 DEF TaskSend, TypeInv, TypeOK, TasksOnChain, Task
  <2>. QED BY <1>2, <2>4, <2>5 DEF TaskSend, TypeInv, TypeOK, peer_vars, sync_vars
<1>3. CASE TaskRecord(t)
  <2>. DEFINE more == t.hi # t.tip /\ t.tip > OurTip
              u == [t EXCEPT !.pc = "decide", !.must_continue = more]
  <2>3. more \in BOOLEAN
    OBVIOUS
  <2>4. tasks' = (tasks \ {t}) \cup {u}
    BY <1>3 DEF TaskRecord
  <2>. HIDE DEF more
  <2>5. u \in Task /\ u.lo <= u.hi /\ u.hi <= their_tip[u.peer]
    BY <1>1, <2>3 DEF Task
  <2>. HIDE DEF u
  <2>1. tasks' \subseteq Task /\ TasksOnChain'
    BY <1>3, <2>4, <2>5 DEF TaskRecord, TypeInv, TypeOK, TasksOnChain
  <2>2. recent' \in [Peer -> 0 .. MaxTip]
    BY <1>1, <1>3, SyncAssumption DEF TaskRecord, TypeInv, TypeOK, Height
  <2>. QED BY <1>3, <2>1, <2>2 DEF TaskRecord, TypeInv, TypeOK, peer_vars, sync_vars
<1>4. CASE TaskContinue(t)
  <2>. DEFINE m == [type |-> "perform", peer |-> t.peer, last |-> t.hi, permit |-> t.permit]
  <2>1. m \in PerformMsg \cup AddMsg
    BY <1>1, SyncAssumption DEF PerformMsg, Height
  <2>2. queue' = Append(queue, m)
    BY <1>4 DEF TaskContinue
  <2>. HIDE DEF m
  <2>3. queue' \in Seq(PerformMsg \cup AddMsg)
    BY <2>1, <2>2 DEF TypeInv, TypeOK
  <2>4. attempts' \in [Peer -> Nat]
    BY <1>1, <1>4 DEF TaskContinue, TypeInv, TypeOK
  <2>5. tasks' \subseteq Task /\ TasksOnChain'
    BY <1>4 DEF TaskContinue, TypeInv, TypeOK, TasksOnChain
  <2>. QED BY <1>4, <2>3, <2>4, <2>5 DEF TaskContinue, TypeInv, TypeOK, sync_vars
<1>5. CASE TaskEnd(t)
  <2>1. attempts' \in [Peer -> Nat] /\ free' \subseteq Permit
    BY <1>1, <1>5 DEF TaskEnd, TypeInv, TypeOK
  <2>2. tasks' \subseteq Task /\ TasksOnChain'
    BY <1>5 DEF TaskEnd, TypeInv, TypeOK, TasksOnChain
  <2>. QED BY <1>5, <2>1, <2>2 DEF TaskEnd, TypeInv, TypeOK, sync_vars
<1>. QED BY <1>2, <1>3, <1>4, <1>5

LEMMA TypePeer ==
  ASSUME TypeInv, NEW p \in Peer, PeerMines(p) \/ MetaData(p) \/ Restore(p)
  PROVE  TypeInv'
<1>1. CASE PeerMines(p)
  <2>1. their_tip' \in [Peer -> 0 .. MaxTip]
    BY <1>1, SyncAssumption DEF PeerMines, TypeInv, TypeOK
  <2>2. \A q \in Peer : their_tip[q] <= their_tip'[q]
    BY <1>1, SyncAssumption DEF PeerMines, TypeInv, TypeOK
  <2>3. TasksOnChain'
    <3>1. tasks' = tasks
      BY <1>1 DEF PeerMines
    <3>2. ASSUME NEW t \in tasks PROVE t.lo <= t.hi /\ t.hi <= their_tip'[t.peer]
      <4>1. t.hi \in Nat /\ t.peer \in Peer /\ t.lo <= t.hi /\ t.hi <= their_tip[t.peer]
        BY TaskTypes, SyncAssumption DEF TypeInv, TasksOnChain, Height
      <4>2. their_tip[t.peer] \in Nat /\ their_tip'[t.peer] \in Nat
        BY <2>1, <4>1, SyncAssumption DEF TypeInv, TypeOK
      <4>. QED BY <2>2, <4>1, <4>2
    <3>. QED BY <3>1, <3>2 DEF TasksOnChain
  <2>. QED BY <1>1, <2>1, <2>3 DEF PeerMines, TypeInv, TypeOK, peer_vars, sync_vars
<1>2. CASE MetaData(p)
  <2>. DEFINE m == [type |-> "perform", peer |-> p, last |-> 0, permit |-> NoPermit]
  <2>1. m \in PerformMsg \cup AddMsg
    BY SyncAssumption DEF PerformMsg
  <2>2. queue' = Append(queue, m)
    BY <1>2 DEF MetaData
  <2>. HIDE DEF m
  <2>3. queue' \in Seq(PerformMsg \cup AddMsg)
    BY <2>1, <2>2 DEF TypeInv, TypeOK
  <2>. QED BY <1>2, <2>3 DEF MetaData, TypeInv, TypeOK, TasksOnChain, peer_vars, sync_vars
<1>3. CASE Restore(p)
  BY <1>3 DEF Restore, TypeInv, TypeOK, TasksOnChain, sync_vars
<1>. QED BY <1>1, <1>2, <1>3

LEMMA TypeClear == TypeInv /\ ClearBlackList => TypeInv'
<1>. SUFFICES ASSUME TypeInv, ClearBlackList PROVE TypeInv'
  OBVIOUS
<1>1. list' \in [Peer -> {"white", "grey", "black"}] /\ attempts' \in [Peer -> Nat]
  BY DEF ClearBlackList, TypeInv, TypeOK
<1>. QED BY <1>1 DEF ClearBlackList, TypeInv, TypeOK, TasksOnChain, sync_vars

\* The request the main loop handles is the one at the head of the channel.
LEMMA HandledRequest ==
  ASSUME HandleInnerRequest
  PROVE  \E m : Received(m) /\ (RefusePeer(m) \/ AlreadyBusy(m) \/ SendRequest(m) \/ AddSyncedBlock(m))
BY DEF HandleInnerRequest, RefusePeer, AlreadyBusy, SendRequest, AddSyncedBlock, Accepted

LEMMA TypeStep == TypeInv /\ [Next]_vars => TypeInv'
<1>. SUFFICES ASSUME TypeInv, [Next]_vars PROVE TypeInv'
  OBVIOUS
<1>1. CASE UNCHANGED vars
  BY <1>1 DEF vars, peer_vars, sync_vars, TypeInv, TypeOK, TasksOnChain
<1>2. CASE HandleInnerRequest
  BY <1>2, HandledRequest, TypeReceive
<1>3. CASE TaskStep
  BY <1>3, TypeTask DEF TaskStep
<1>4. CASE ClearBlackList
  BY <1>4, TypeClear
<1>5. ASSUME NEW p \in Peer,
             \/ PeerMines(p) \/ MetaData(p) \/ Restore(p)
             \/ ErrorResponse(p) \/ EmptyResponse(p) \/ BlocksResponse(p) \/ OutboundFailure(p)
      PROVE TypeInv'
  BY <1>5, TypePeer, TypeAnswer
<1>. QED BY <1>1, <1>2, <1>3, <1>4, <1>5 DEF Next

\* The sync state and the messages keep their types, for any number of peers,
\* permits and blocks.  Every task of a response has at least one block to send,
\* and all its blocks are of its peer's chain, also after other peers and this one
\* mined on: what request_sync returns from the highest block both sides have is
\* never an empty or reversed range.
THEOREM SyncTypeCorrectness == Spec => [](TypeOK /\ TasksOnChain)
<1>1. TypeInv => TypeOK /\ TasksOnChain
  BY DEF TypeInv
<1>. QED BY <1>1, TypeInit, TypeStep, PTL DEF Spec

-----------------------------------------------------------------------------
(* The owners of permits.                                                  *)

Requested(k) == \E p \in Peer : in_progress[p] = k
Handled(k)   == \E t \in tasks : t.permit = k
Carries(i, k) == Performs(i) /\ queue[i].permit = k
Queued(k)    == \E i \in 1 .. Len(queue) : Carries(i, k)

RequestsUnique == \A p, q \in Peer : in_progress[p] # NoPermit /\ in_progress[p] = in_progress[q] => p = q
TasksUnique    == \A t, u \in tasks : t.permit = u.permit => t = u
QueueUnique    == \A k \in Permit : \A i, j \in 1 .. Len(queue) : Carries(i, k) /\ Carries(j, k) => i = j

\* Every permit is in the semaphore or has one kind of owner.
OneKind ==
  \A k \in Permit :
    /\ k \in free <=> ~(Requested(k) \/ Handled(k) \/ Queued(k))
    /\ ~(Requested(k) /\ Handled(k)) /\ ~(Requested(k) /\ Queued(k)) /\ ~(Handled(k) /\ Queued(k))

PermitInv == RequestsUnique /\ TasksUnique /\ QueueUnique /\ OneKind

LEMMA PermitInvOwned == TypeOK /\ PermitInv => PermitOwnedOnce
<1>. SUFFICES ASSUME TypeOK, PermitInv PROVE PermitOwnedOnce
  OBVIOUS
<1>1. ASSUME NEW i \in 1 .. Len(queue), NEW j \in 1 .. Len(queue), Performs(i), Performs(j),
             queue[i].permit # NoPermit, queue[i].permit = queue[j].permit
      PROVE i = j
  <2>1. queue[i] \in PerformMsg \cup AddMsg
    BY DEF TypeOK
  <2>2. queue[i].permit \in Permit
    BY <1>1, <2>1, PerformTypes DEF Performs
  <2>. QED BY <1>1, <2>2 DEF PermitInv, QueueUnique, Carries
<1>2. PermitInv
  OBVIOUS
<1>. QED BY <1>1, <1>2 DEF PermitInv, RequestsUnique, TasksUnique, OneKind, PermitOwnedOnce,
            Requested, Handled, Queued, Carries

\* The queue loses its head, and the permit the head carries.
LEMMA QueueReceived ==
  ASSUME TypeOK, QueueUnique, NEW m, Received(m)
  PROVE  /\ QueueUnique'
         /\ \A k \in Permit : Queued(k)' <=> Queued(k) /\ ~(m.type = "perform" /\ m.permit = k)
         /\ \A k \in Permit : m.type = "perform" /\ m.permit = k => Queued(k)
<1>1. /\ Len(queue) \in Nat /\ Len(queue) >= 1 /\ m = queue[1] /\ Len(queue') = Len(queue) - 1
      /\ \A i \in 1 .. Len(queue') : queue'[i] = queue[i + 1]
  BY ReceivedFacts
<1>2. \A k \in Permit : Carries(1, k) <=> m.type = "perform" /\ m.permit = k
  BY <1>1 DEF Carries, Performs
<1>3. \A k \in Permit, i \in 1 .. Len(queue') : Carries(i, k)' <=> Carries(i + 1, k)
  BY <1>1 DEF Carries, Performs
<1>4. \A i \in 1 .. Len(queue) : i = 1 \/ i - 1 \in 1 .. Len(queue')
  BY <1>1
<1>5. QueueUnique'
  <2>1. SUFFICES ASSUME NEW k \in Permit, NEW i \in 1 .. Len(queue'), NEW j \in 1 .. Len(queue'),
                        Carries(i, k)', Carries(j, k)'
                 PROVE i = j
    BY DEF QueueUnique
  <2>2. i + 1 \in 1 .. Len(queue) /\ j + 1 \in 1 .. Len(queue)
    BY <1>1
  <2>3. i + 1 = j + 1
    BY <1>3, <2>1, <2>2 DEF QueueUnique
  <2>. QED BY <1>1, <2>3
<1>6. ASSUME NEW k \in Permit PROVE Queued(k)' <=> Queued(k) /\ ~(m.type = "perform" /\ m.permit = k)
  <2>1. ASSUME Queued(k)' PROVE Queued(k) /\ ~Carries(1, k)
    <3>1. PICK i \in 1 .. Len(queue') : Carries(i, k)'
      BY <2>1 DEF Queued
    <3>2. i + 1 \in 1 .. Len(queue) /\ 1 \in 1 .. Len(queue) /\ i + 1 # 1 /\ Carries(i + 1, k)
      BY <1>1, <1>3, <3>1
    <3>. QED BY <3>2 DEF QueueUnique, Queued
  <2>2. ASSUME Queued(k), ~Carries(1, k) PROVE Queued(k)'
    <3>1. PICK i \in 1 .. Len(queue) : Carries(i, k)
      BY <2>2 DEF Queued
    <3>2. i - 1 \in 1 .. Len(queue') /\ (i - 1) + 1 = i
      BY <1>1, <1>4, <2>2, <3>1
    <3>. QED BY <1>3, <3>1, <3>2 DEF Queued
  <2>. QED BY <1>2, <2>1, <2>2
<1>7. ASSUME NEW k \in Permit, m.type = "perform", m.permit = k PROVE Queued(k)
  BY <1>1, <1>2, <1>7 DEF Queued
<1>. QED BY <1>5, <1>6, <1>7

\* A request that is sent to the channel takes its permit along.
LEMMA QueueAppended ==
  ASSUME TypeOK, QueueUnique, NEW m, m.type = "perform", queue' = Append(queue, m),
         m.permit \in Permit => ~Queued(m.permit)
  PROVE  QueueUnique' /\ \A k \in Permit : Queued(k)' <=> Queued(k) \/ m.permit = k
<1>1. PICK n \in Nat : n = Len(queue)
  BY DEF TypeOK
<1>2. /\ Len(queue') = n + 1 /\ queue'[n + 1] = m
      /\ \A i \in 1 .. n : queue'[i] = queue[i]
  BY <1>1 DEF TypeOK
<1>3. \A k \in Permit : Carries(n + 1, k)' <=> m.permit = k
  BY <1>2 DEF Carries, Performs
<1>4. \A k \in Permit, i \in 1 .. n : Carries(i, k)' <=> Carries(i, k)
  BY <1>1, <1>2 DEF Carries, Performs
<1>5. \A i \in 1 .. (n + 1) : i = n + 1 \/ i \in 1 .. n
  OBVIOUS
<1>6. 1 .. n \subseteq 1 .. (n + 1) /\ n + 1 \in 1 .. (n + 1)
  OBVIOUS
<1>7. QueueUnique'
  <2>1. SUFFICES ASSUME NEW k \in Permit, NEW i \in 1 .. (n + 1), NEW j \in 1 .. (n + 1),
                        Carries(i, k)', Carries(j, k)'
                 PROVE i = j
    BY <1>2 DEF QueueUnique
  <2>2. CASE m.permit = k
    <3>1. \A l \in 1 .. n : ~Carries(l, k)
      BY <1>1, <2>2 DEF Queued
    <3>. QED BY <1>4, <1>5, <2>1, <3>1
  <2>3. CASE m.permit # k
    <3>1. i \in 1 .. n /\ j \in 1 .. n /\ Carries(i, k) /\ Carries(j, k)
      BY <1>3, <1>4, <1>5, <2>1, <2>3
    <3>. QED BY <1>1, <3>1 DEF QueueUnique
  <2>. QED BY <2>2, <2>3
<1>8. ASSUME NEW k \in Permit PROVE Queued(k)' <=> Queued(k) \/ m.permit = k
  <2>1. Queued(k)' <=> \E i \in 1 .. (n + 1) : Carries(i, k)'
    BY <1>2 DEF Queued
  <2>2. Queued(k) <=> \E i \in 1 .. n : Carries(i, k)
    BY <1>1 DEF Queued
  <2>. QED BY <1>3, <1>4, <1>5, <1>6, <2>1, <2>2
<1>. QED BY <1>7, <1>8

\* The blocks of a response carry no permit.
LEMMA QueueExtended ==
  ASSUME TypeOK, QueueUnique, NEW n \in Nat, NEW s \in [1 .. n -> AddMsg], queue' = queue \o s
  PROVE  QueueUnique' /\ \A k \in Permit : Queued(k)' <=> Queued(k)
<1>1. /\ Len(queue) \in Nat /\ Len(queue') = Len(queue) + n
      /\ \A i \in 1 .. Len(queue) : queue'[i] = queue[i]
      /\ \A i \in 1 .. Len(queue') : i \in 1 .. Len(queue) \/ queue'[i] = s[i - Len(queue)]
  <2>1. queue \in Seq(PerformMsg \cup AddMsg)
    BY DEF TypeOK
  <2>2. s \in Seq(AddMsg) /\ Len(s) = n
    OBVIOUS
  <2>3. Len(queue') = Len(queue) + Len(s)
    <3>1. s \in Seq(PerformMsg \cup AddMsg)
      BY <2>2
    <3>. QED BY <2>1, <3>1, ConcatProperties
  <2>4. \A i \in 1 .. Len(queue) : queue'[i] = queue[i]
    BY <2>1, <2>2
  <2>5. \A i \in 1 .. Len(queue') : i \in 1 .. Len(queue) \/ queue'[i] = s[i - Len(queue)]
    BY <2>1, <2>2, <2>3
  <2>. QED BY <2>1, <2>2, <2>3, <2>4, <2>5
<1>2. \A i \in 1 .. Len(queue') : i \in 1 .. Len(queue) \/ queue'[i] \in AddMsg
  BY <1>1
<1>3. \A k \in Permit, i \in 1 .. Len(queue) : Carries(i, k)' <=> Carries(i, k)
  BY <1>1 DEF Carries, Performs
<1>4. \A k \in Permit, i \in 1 .. Len(queue') : Carries(i, k)' => i \in 1 .. Len(queue)
  BY <1>2 DEF Carries, Performs, AddMsg
<1>5. 1 .. Len(queue) \subseteq 1 .. Len(queue')
  BY <1>1
<1>6. QueueUnique'
  BY <1>3, <1>4 DEF QueueUnique
<1>7. \A k \in Permit : Queued(k)' <=> Queued(k)
  BY <1>3, <1>4, <1>5 DEF Queued
<1>. QED BY <1>6, <1>7

-----------------------------------------------------------------------------
(* One owner per permit.                                                   *)

LEMMA PermitInit == Init => PermitInv
<1>. SUFFICES ASSUME Init PROVE PermitInv
  OBVIOUS
<1>1. \A i : ~(i \in 1 .. Len(queue))
  BY DEF Init
<1>2. \A k \in Permit : k \in free /\ ~Requested(k) /\ ~Handled(k) /\ ~Queued(k)
  BY <1>1, SyncAssumption DEF Init, Requested, Handled, Queued
<1>. QED BY <1>1, <1>2 DEF Init, PermitInv, RequestsUnique, TasksUnique, QueueUnique, OneKind

\* Steps that move no permit and add no task.
LEMMA PermitUnmoved ==
  ASSUME PermitInv, UNCHANGED <<free, in_progress, tasks>>, QueueUnique',
         \A k \in Permit : Queued(k)' <=> Queued(k)
  PROVE  PermitInv'
<1>1. \A k \in Permit : (Requested(k)' <=> Requested(k)) /\ (Handled(k)' <=> Handled(k))
  BY DEF Requested, Handled
<1>2. RequestsUnique' /\ TasksUnique'
  BY DEF PermitInv, RequestsUnique, TasksUnique
<1>3. OneKind'
  BY <1>1 DEF PermitInv, OneKind
<1>. QED BY <1>2, <1>3 DEF PermitInv

LEMMA QueueKept ==
  ASSUME QueueUnique, UNCHANGED queue
  PROVE  QueueUnique' /\ \A k \in Permit : Queued(k)' <=> Queued(k)
BY DEF QueueUnique, Queued, Carries, Performs

\* A dropped request gives its permit back.
LEMMA PermitDropped ==
  ASSUME TypeInv, PermitInv, NEW m, Received(m), m.type = "perform",
         free' = free \cup Released(m.permit), UNCHANGED <<in_progress, tasks>>
  PROVE  PermitInv'
<1>1. /\ QueueUnique'
      /\ \A k \in Permit : Queued(k)' <=> Queued(k) /\ m.permit # k
      /\ \A k \in Permit : m.permit = k => Queued(k)
  BY QueueReceived DEF TypeInv, PermitInv
<1>2. \A k \in Permit : (Requested(k)' <=> Requested(k)) /\ (Handled(k)' <=> Handled(k))
  BY DEF Requested, Handled
<1>3. RequestsUnique' /\ TasksUnique'
  BY DEF PermitInv, RequestsUnique, TasksUnique
<1>4. \A k \in Permit : k \in free' <=> k \in free \/ m.permit = k
  BY SyncAssumption DEF Released
<1>5. OneKind'
  BY <1>1, <1>2, <1>4 DEF PermitInv, OneKind
<1>. QED BY <1>1, <1>3, <1>5 DEF PermitInv

\* A request in flight takes the permit of its message, or a free one.
LEMMA PermitSent ==
  ASSUME TypeInv, PermitInv, NEW m, SendRequest(m)
  PROVE  PermitInv' /\ \E k \in Permit : Requested(k)'
<1>1. /\ Received(m) /\ m.type = "perform" /\ in_progress[m.peer] = NoPermit /\ UNCHANGED tasks
  BY DEF SendRequest, Accepted
<1>2. /\ QueueUnique'
      /\ \A k \in Permit : Queued(k)' <=> Queued(k) /\ m.permit # k
      /\ \A k \in Permit : m.permit = k => Queued(k)
  BY <1>1, QueueReceived DEF TypeInv, PermitInv
<1>3. m.peer \in Peer /\ m.permit \in Permit \cup {NoPermit}
  BY <1>1, ReceivedFacts, PerformTypes DEF TypeInv
<1>4. PICK k \in IF m.permit = NoPermit THEN free ELSE {m.permit} :
        in_progress' = [in_progress EXCEPT ![m.peer] = k] /\ free' = free \ {k}
  BY DEF SendRequest
<1>5. k \in Permit /\ k # NoPermit
  BY <1>3, <1>4, SyncAssumption DEF TypeInv, TypeOK
<1>6. ~Requested(k) /\ ~Handled(k) /\ (m.permit # k => k \in free /\ ~Queued(k))
  BY <1>2, <1>4, <1>5 DEF PermitInv, OneKind
<1>7. in_progress'[m.peer] = k /\ \A p \in Peer : p # m.peer => in_progress'[p] = in_progress[p]
  BY <1>3, <1>4 DEF TypeInv, TypeOK
<1>8. RequestsUnique'
  BY <1>5, <1>6, <1>7 DEF PermitInv, RequestsUnique, Requested
<1>9. \A l \in Permit : Requested(l)' <=> Requested(l) \/ l = k
  <2>1. \A l \in Permit : l # in_progress[m.peer]
    BY <1>1, SyncAssumption
  <2>. QED BY <1>3, <1>7, <2>1 DEF Requested
<1>10. \A l \in Permit : Handled(l)' <=> Handled(l)
  BY <1>1 DEF Handled
<1>11. ASSUME NEW l \in Permit
       PROVE  /\ l \in free' <=> ~(Requested(l)' \/ Handled(l)' \/ Queued(l)')
              /\ ~(Requested(l)' /\ Handled(l)') /\ ~(Requested(l)' /\ Queued(l)')
              /\ ~(Handled(l)' /\ Queued(l)')
  <2>1. CASE l = k
    BY <1>2, <1>4, <1>6, <1>9, <1>10, <2>1
  <2>2. CASE l # k
    <3>1. Queued(l)' <=> Queued(l)
      <4>1. CASE m.permit = l
        BY <1>4, <2>2, <4>1, SyncAssumption
      <4>2. CASE m.permit # l
        BY <1>2, <4>2
      <4>. QED BY <4>1, <4>2
    <3>2. l \in free' <=> l \in free
      BY <1>4, <2>2
    <3>. QED BY <1>9, <1>10, <2>2, <3>1, <3>2 DEF PermitInv, OneKind
  <2>. QED BY <2>1, <2>2
<1>12. OneKind'
  BY <1>11 DEF OneKind
<1>13. TasksUnique'
  BY <1>1 DEF PermitInv, TasksUnique
<1>. QED BY <1>2, <1>5, <1>8, <1>9, <1>12, <1>13 DEF PermitInv

\* What an answer or a failure does to the requests in flight.
LEMMA RequestAnswered ==
  ASSUME TypeInv, PermitInv, NEW p \in Peer, Answered(p)
  PROVE  /\ in_progress[p] \in Permit /\ RequestsUnique'
         /\ \A k \in Permit : Requested(k)' <=> Requested(k) /\ k # in_progress[p]
         /\ Requested(in_progress[p])
<1>1. /\ in_progress[p] \in Permit /\ in_progress'[p] = NoPermit
      /\ \A q \in Peer : q # p => in_progress'[q] = in_progress[q]
  BY DEF Answered, TypeInv, TypeOK
<1>2. RequestsUnique'
  BY <1>1 DEF PermitInv, RequestsUnique
<1>3. ASSUME NEW k \in Permit PROVE Requested(k)' <=> Requested(k) /\ k # in_progress[p]
  <2>1. ASSUME NEW q \in Peer, in_progress'[q] = k PROVE in_progress[q] = k /\ k # in_progress[p]
    <3>1. q # p /\ in_progress[q] = k /\ k # NoPermit
      BY <1>1, <2>1, SyncAssumption
    <3>. QED BY <3>1 DEF PermitInv, RequestsUnique
  <2>2. ASSUME NEW q \in Peer, in_progress[q] = k, k # in_progress[p] PROVE in_progress'[q] = k
    BY <1>1, <2>2
  <2>. QED BY <2>1, <2>2 DEF Requested
<1>. QED BY <1>1, <1>2, <1>3 DEF Requested

LEMMA PermitAnswered ==
  ASSUME TypeInv, PermitInv, NEW p \in Peer,
         ErrorResponse(p) \/ EmptyResponse(p) \/ BlocksResponse(p) \/ OutboundFailure(p)
  PROVE  PermitInv'
<1>1. Answered(p) /\ UNCHANGED queue
  BY DEF ErrorResponse, EmptyResponse, BlocksResponse, OutboundFailure
<1>2. QueueUnique' /\ \A k \in Permit : Queued(k)' <=> Queued(k)
  BY <1>1, QueueKept DEF PermitInv
<1>3. /\ in_progress[p] \in Permit /\ RequestsUnique'
      /\ \A k \in Permit : Requested(k)' <=> Requested(k) /\ k # in_progress[p]
      /\ Requested(in_progress[p])
  BY <1>1, RequestAnswered
<1>4. CASE ErrorResponse(p) \/ EmptyResponse(p) \/ OutboundFailure(p)
  <2>1. free' = free \cup {in_progress[p]} /\ UNCHANGED tasks
    BY <1>4 DEF ErrorResponse, EmptyResponse, OutboundFailure
  <2>2. TasksUnique' /\ \A k \in Permit : Handled(k)' <=> Handled(k)
    BY <2>1 DEF PermitInv, TasksUnique, Handled
  <2>3. OneKind'
    BY <1>2, <1>3, <2>1, <2>2 DEF PermitInv, OneKind
  <2>. QED BY <1>2, <1>3, <2>2, <2>3 DEF PermitInv
<1>5. CASE BlocksResponse(p)
  <2>. DEFINE t == [peer |-> p, lo |-> FirstReturned(p), hi |-> LastReturned(p),
                    tip |-> their_tip[p], permit |-> in_progress[p],
                    pc |-> "send", must_continue |-> FALSE]
  <2>1. tasks' = tasks \cup {t} /\ UNCHANGED free /\ t.permit = in_progress[p]
    BY <1>5 DEF BlocksResponse
  <2>. HIDE DEF t
  <2>2. ~Handled(in_progress[p]) /\ ~Queued(in_progress[p]) /\ in_progress[p] \notin free
    BY <1>3 DEF PermitInv, OneKind
  <2>3. TasksUnique'
    BY <2>1, <2>2 DEF PermitInv, TasksUnique, Handled
  <2>4. \A k \in Permit : Handled(k)' <=> Handled(k) \/ k = in_progress[p]
    BY <2>1 DEF Handled
  <2>5. OneKind'
    BY <1>2, <1>3, <2>1, <2>2, <2>4 DEF PermitInv, OneKind
  <2>. QED BY <1>2, <1>3, <2>3, <2>5 DEF PermitInv
<1>. QED BY <1>4, <1>5

\* The task keeps its permit until it hands it on or ends.
LEMMA PermitTask ==
  ASSUME TypeInv, PermitInv, NEW t \in tasks,
         TaskSend(t) \/ TaskRecord(t) \/ TaskContinue(t) \/ TaskEnd(t)
  PROVE  PermitInv'
<1>1. /\ t \in Task /\ t.permit \in Permit /\ Handled(t.permit) /\ t.lo \in Height /\ t.hi \in Height
      /\ t.lo <= t.hi /\ t.peer \in Peer
  BY TaskTypes DEF TypeInv, TasksOnChain, Handled
<1>2. UNCHANGED in_progress
  BY DEF TaskSend, TaskRecord, TaskContinue, TaskEnd, sync_vars
<1>3. RequestsUnique' /\ \A k \in Permit : Requested(k)' <=> Requested(k)
  BY <1>2 DEF PermitInv, RequestsUnique, Requested
<1>4. ASSUME NEW u, u.permit = t.permit, tasks' = (tasks \ {t}) \cup {u}
      PROVE  TasksUnique' /\ \A k \in Permit : Handled(k)' <=> Handled(k)
  <2>1. TasksUnique'
    BY <1>4 DEF PermitInv, TasksUnique
  <2>2. \A k \in Permit : Handled(k)' <=> Handled(k)
    BY <1>4 DEF Handled
  <2>. QED BY <2>1, <2>2
<1>5. ASSUME tasks' = tasks \ {t}
      PROVE  TasksUnique' /\ \A k \in Permit : Handled(k)' <=> Handled(k) /\ k # t.permit
  <2>1. TasksUnique'
    BY <1>5 DEF PermitInv, TasksUnique
  <2>2. \A k \in Permit : Handled(k)' <=> Handled(k) /\ k # t.permit
    BY <1>5 DEF PermitInv, TasksUnique, Handled
  <2>. QED BY <2>1, <2>2
<1>6. CASE TaskSend(t)
  <2>. DEFINE n == t.hi - t.lo + 1
              blocks == [i \in 1 .. n |-> [type |-> "add", peer |-> t.peer, block |-> t.lo + i - 1]]
              u == [t EXCEPT !.pc = "record"]
  <2>1. n \in Nat /\ \A i \in 1 .. n : t.lo + i - 1 \in Height
    BY <1>1, SyncAssumption DEF Height
  <2>2. blocks \in [1 .. n -> AddMsg]
    BY <1>1, <2>1 DEF AddMsg
  <2>3. queue' = queue \o blocks /\ tasks' = (tasks \ {t}) \cup {u} /\ UNCHANGED free
    BY <1>6 DEF TaskSend
  <2>4. u.permit = t.permit
    BY <1>1 DEF Task
  <2>. HIDE DEF n, blocks, u
  <2>5. QueueUnique' /\ \A k \in Permit : Queued(k)' <=> Queued(k)
    BY <2>1, <2>2, <2>3, QueueExtended DEF TypeInv, PermitInv
  <2>6. TasksUnique' /\ \A k \in Permit : Handled(k)' <=> Handled(k)
    BY <1>4, <2>3, <2>4
  <2>7. OneKind'
    BY <1>3, <2>3, <2>5, <2>6 DEF PermitInv, OneKind
  <2>. QED BY <1>3, <2>5, <2>6, <2>7 DEF PermitInv
<1>7. CASE TaskRecord(t)
  <2>. DEFINE more == t.hi # t.tip /\ t.tip > OurTip
              u == [t EXCEPT !.pc = "decide", !.must_continue = more]
  <2>1. tasks' = (tasks \ {t}) \cup {u} /\ UNCHANGED <<free, queue>>
    BY <1>7 DEF TaskRecord
  <2>. HIDE DEF more
  <2>2. u.permit = t.permit
    BY <1>1 DEF Task
  <2>. HIDE DEF u
  <2>3. QueueUnique' /\ \A k \in Permit : Queued(k)' <=> Queued(k)
    BY <2>1, QueueKept DEF PermitInv
  <2>4. TasksUnique' /\ \A k \in Permit : Handled(k)' <=> Handled(k)
    BY <1>4, <2>1, <2>2
  <2>5. OneKind'
    BY <1>3, <2>1, <2>3, <2>4 DEF PermitInv, OneKind
  <2>. QED BY <1>3, <2>3, <2>4, <2>5 DEF PermitInv
<1>8. CASE TaskContinue(t)
  <2>. DEFINE m == [type |-> "perform", peer |-> t.peer, last |-> t.hi, permit |-> t.permit]
  <2>1. queue' = Append(queue, m) /\ tasks' = tasks \ {t} /\ UNCHANGED free
        /\ m.type = "perform" /\ m.permit = t.permit
    BY <1>8 DEF TaskContinue
  <2>. HIDE DEF m
  <2>2. ~Queued(t.permit) /\ ~Requested(t.permit) /\ t.permit \notin free
    BY <1>1 DEF PermitInv, OneKind
  <2>3. QueueUnique' /\ \A k \in Permit : Queued(k)' <=> Queued(k) \/ t.permit = k
    BY <2>1, <2>2, QueueAppended DEF TypeInv, PermitInv
  <2>4. TasksUnique' /\ \A k \in Permit : Handled(k)' <=> Handled(k) /\ k # t.permit
    BY <1>5, <2>1
  <2>5. OneKind'
    BY <1>3, <2>1, <2>2, <2>3, <2>4 DEF PermitInv, OneKind
  <2>. QED BY <1>3, <2>3, <2>4, <2>5 DEF PermitInv
<1>9. CASE TaskEnd(t)
  <2>1. free' = free \cup {t.permit} /\ tasks' = tasks \ {t} /\ UNCHANGED queue
    BY <1>9 DEF TaskEnd
  <2>2. QueueUnique' /\ \A k \in Permit : Queued(k)' <=> Queued(k)
    BY <2>1, QueueKept DEF PermitInv
  <2>3. TasksUnique' /\ \A k \in Permit : Handled(k)' <=> Handled(k) /\ k # t.permit
    BY <1>5, <2>1
  <2>4. OneKind'
    BY <1>1, <1>3, <2>1, <2>2, <2>3 DEF PermitInv, OneKind
  <2>. QED BY <1>3, <2>2, <2>3, <2>4 DEF PermitInv
<1>. QED BY <1>6, <1>7, <1>8, <1>9

\* What the main loop does with the head of the channel.
LEMMA PermitReceived ==
  ASSUME TypeInv, PermitInv, NEW m,
         RefusePeer(m) \/ AlreadyBusy(m) \/ SendRequest(m) \/ AddSyncedBlock(m)
  PROVE  PermitInv'
<1>1. CASE RefusePeer(m)
  BY <1>1, PermitDropped DEF RefusePeer
<1>2. CASE AlreadyBusy(m)
  BY <1>2, PermitDropped DEF AlreadyBusy, Accepted
<1>3. CASE SendRequest(m)
  BY <1>3, PermitSent
<1>4. CASE AddSyncedBlock(m)
  <2>1. Received(m) /\ m.type = "add" /\ UNCHANGED <<free, in_progress, tasks>>
    BY <1>4 DEF AddSyncedBlock, sync_vars
  <2>2. QueueUnique' /\ \A k \in Permit : Queued(k)' <=> Queued(k)
    BY <2>1, QueueReceived DEF TypeInv, PermitInv
  <2>. QED BY <2>1, <2>2, PermitUnmoved
<1>. QED BY <1>1, <1>2, <1>3, <1>4

\* An announcement carries no permit.
LEMMA PermitAnnounced ==
  ASSUME TypeInv, PermitInv, NEW p \in Peer, MetaData(p)
  PROVE  PermitInv'
<1>. DEFINE m == [type |-> "perform", peer |-> p, last |-> 0, permit |-> NoPermit]
<1>1. queue' = Append(queue, m) /\ m.type = "perform" /\ m.permit = NoPermit
      /\ UNCHANGED <<free, in_progress, tasks>>
  BY DEF MetaData, sync_vars
<1>. HIDE DEF m
<1>2. QueueUnique' /\ \A k \in Permit : Queued(k)' <=> Queued(k) \/ m.permit = k
  BY <1>1, QueueAppended, SyncAssumption DEF TypeInv, PermitInv
<1>3. \A k \in Permit : Queued(k)' <=> Queued(k)
  BY <1>1, <1>2, SyncAssumption
<1>. QED BY <1>1, <1>2, <1>3, PermitUnmoved

LEMMA PermitStep == TypeInv /\ PermitInv /\ [Next]_vars => PermitInv'
<1>. SUFFICES ASSUME TypeInv, PermitInv, [Next]_vars PROVE PermitInv'
  OBVIOUS
<1>1. ASSUME UNCHANGED <<free, in_progress, tasks, queue>> PROVE PermitInv'
  <2>1. QueueUnique' /\ \A k \in Permit : Queued(k)' <=> Queued(k)
    BY <1>1, QueueKept DEF PermitInv
  <2>. QED BY <1>1, <2>1, PermitUnmoved
<1>2. CASE UNCHANGED vars
  BY <1>1, <1>2 DEF vars, sync_vars
<1>3. CASE HandleInnerRequest
  BY <1>3, HandledRequest, PermitReceived
<1>4. CASE TaskStep
  BY <1>4, PermitTask DEF TaskStep
<1>5. CASE ClearBlackList
  BY <1>1, <1>5 DEF ClearBlackList, sync_vars
<1>6. ASSUME NEW p \in Peer, PeerMines(p) \/ Restore(p) PROVE PermitInv'
  BY <1>1, <1>6 DEF PeerMines, Restore, sync_vars
<1>7. ASSUME NEW p \in Peer, MetaData(p) PROVE PermitInv'
  BY <1>7, PermitAnnounced
<1>8. ASSUME NEW p \in Peer,
             ErrorResponse(p) \/ EmptyResponse(p) \/ BlocksResponse(p) \/ OutboundFailure(p)
      PROVE PermitInv'
  BY <1>8, PermitAnswered
<1>. QED BY <1>2, <1>3, <1>4, <1>5, <1>6, <1>7, <1>8 DEF Next

\* A permit out of the semaphore has exactly one owner and no permit is lost,
\* for any number of peers and permits and whichever way a sync ends: refused,
\* dropped with its message, answered with an error, nothing or blocks, timed
\* out, continued or ended by its task.
THEOREM PermitsOwned == Spec => []PermitOwnedOnce
<1>1. TypeInv /\ PermitInv => PermitOwnedOnce
  BY PermitInvOwned DEF TypeInv
<1>2. Init => TypeInv /\ PermitInv
  BY TypeInit, PermitInit
<1>3. TypeInv /\ PermitInv /\ [Next]_vars => (TypeInv /\ PermitInv)'
  BY TypeStep, PermitStep
<1>. QED BY <1>1, <1>2, <1>3, PTL DEF Spec

-----------------------------------------------------------------------------
(* The saved progress, with one permit (num_concurrent_syncs is 1 unless   *)
(* configured otherwise).                                                  *)

OnePermit == \A k, l \in Permit : k = l

\* While a response is handled or its continuation waits, no progress is saved.
ProgressInv == tasks # {} \/ (\E k \in Permit : Queued(k)) => last_requested = 0

LEMMA ProgressInit == Init => ProgressInv
BY DEF Init, ProgressInv

\* Steps that neither save progress nor start or continue a sync.
LEMMA ProgressKept ==
  ASSUME ProgressInv, last_requested' \in {last_requested, 0},
         tasks' # {} => tasks # {},
         \A k \in Permit : Queued(k)' => Queued(k) \/ tasks # {}
  PROVE  ProgressInv'
BY DEF ProgressInv

\* A request saves its progress; it holds the only permit then, so no task and
\* no continuation is left.
LEMMA ProgressSent ==
  ASSUME OnePermit, TypeInv, PermitInv, NEW m, SendRequest(m)
  PROVE  ProgressInv'
<1>1. PermitInv' /\ UNCHANGED tasks
  BY PermitSent DEF SendRequest
<1>2. PICK k \in Permit : Requested(k)'
  BY PermitSent
<1>3. ~Handled(k)' /\ ~Queued(k)'
  BY <1>1, <1>2 DEF PermitInv, OneKind
<1>4. \A l \in Permit : l = k
  BY DEF OnePermit
<1>5. \A t \in tasks' : t.permit \in Permit
  BY <1>1, TaskTypes DEF TypeInv
<1>6. tasks' = {}
  BY <1>3, <1>4, <1>5 DEF Handled
<1>. QED BY <1>3, <1>4, <1>6 DEF ProgressInv

LEMMA ProgressStep == OnePermit /\ TypeInv /\ PermitInv /\ ProgressInv /\ [Next]_vars => ProgressInv'
<1>. SUFFICES ASSUME OnePermit, TypeInv, PermitInv, ProgressInv, [Next]_vars PROVE ProgressInv'
  OBVIOUS
<1>1. ASSUME UNCHANGED <<last_requested, tasks, queue>> PROVE ProgressInv'
  BY <1>1, QueueKept, ProgressKept DEF PermitInv
<1>2. ASSUME NEW m, Received(m), last_requested' \in {last_requested, 0}, UNCHANGED tasks
      PROVE ProgressInv'
  BY <1>2, QueueReceived, ProgressKept DEF PermitInv, TypeInv
<1>3. CASE UNCHANGED vars
  BY <1>1, <1>3 DEF vars, sync_vars
<1>4. CASE HandleInnerRequest
  <2>1. PICK m : RefusePeer(m) \/ AlreadyBusy(m) \/ SendRequest(m) \/ AddSyncedBlock(m)
    BY <1>4, HandledRequest
  <2>2. CASE RefusePeer(m)
    BY <1>2, <2>2 DEF RefusePeer
  <2>3. CASE AlreadyBusy(m)
    BY <1>2, <2>3 DEF AlreadyBusy, Accepted
  <2>4. CASE SendRequest(m)
    BY <2>4, ProgressSent
  <2>5. CASE AddSyncedBlock(m)
    BY <1>2, <2>5 DEF AddSyncedBlock, sync_vars
  <2>. QED BY <2>1, <2>2, <2>3, <2>4, <2>5
<1>5. CASE TaskStep
  <2>1. PICK t \in tasks : TaskSend(t) \/ TaskRecord(t) \/ TaskContinue(t) \/ TaskEnd(t)
    BY <1>5 DEF TaskStep
  <2>2. tasks # {} /\ last_requested' = last_requested
    BY <2>1 DEF TaskSend, TaskRecord, TaskContinue, TaskEnd, sync_vars
  <2>. QED BY <2>2 DEF ProgressInv
<1>6. CASE ClearBlackList
  BY <1>1, <1>6 DEF ClearBlackList, sync_vars
<1>7. ASSUME NEW p \in Peer, PeerMines(p) \/ Restore(p) PROVE ProgressInv'
  BY <1>1, <1>7 DEF PeerMines, Restore, sync_vars
<1>8. ASSUME NEW p \in Peer, MetaData(p) PROVE ProgressInv'
  <2>. DEFINE m == [type |-> "perform", peer |-> p, last |-> 0, permit |-> NoPermit]
  <2>1. queue' = Append(queue, m) /\ m.type = "perform" /\ m.permit = NoPermit
        /\ UNCHANGED <<last_requested, tasks>>
    BY <1>8 DEF MetaData, sync_vars
  <2>. HIDE DEF m
  <2>2. \A k \in Permit : Queued(k)' <=> Queued(k) \/ m.permit = k
    BY <2>1, QueueAppended, SyncAssumption DEF TypeInv, PermitInv
  <2>. QED BY <2>1, <2>2, ProgressKept, SyncAssumption
<1>9. ASSUME NEW p \in Peer, ErrorResponse(p) \/ EmptyResponse(p) \/ OutboundFailure(p)
      PROVE ProgressInv'
  <2>1. last_requested' \in {last_requested, 0} /\ UNCHANGED <<tasks, queue>>
    BY <1>9 DEF ErrorResponse, EmptyResponse, OutboundFailure
  <2>2. \A k \in Permit : Queued(k)' <=> Queued(k)
    BY <2>1, QueueKept DEF PermitInv
  <2>. QED BY <2>1, <2>2, ProgressKept
<1>10. ASSUME NEW p \in Peer, BlocksResponse(p) PROVE ProgressInv'
  BY <1>10 DEF BlocksResponse, ProgressInv
<1>. QED BY <1>3, <1>4, <1>5, <1>6, <1>7, <1>8, <1>9, <1>10 DEF Next

\* With one permit, "This should not happen" in perform_catch_up_sync holds: a
\* continuation never finds the saved progress of another sync, whatever the
\* order of responses, announcements and failures.
THEOREM ContinuationsUndisturbed ==
  ASSUME OnePermit PROVE Spec => []ContinuationUndisturbed
<1>. DEFINE Inv == TypeInv /\ PermitInv /\ ProgressInv
<1>1. Inv => ContinuationUndisturbed
  <2>. SUFFICES ASSUME TypeInv, ProgressInv, NEW i \in 1 .. Len(queue), Performs(i),
                       queue[i].permit # NoPermit
                PROVE last_requested = 0
    BY DEF ContinuationUndisturbed
  <2>1. queue[i] \in PerformMsg \cup AddMsg
    BY DEF TypeInv, TypeOK
  <2>2. queue[i].permit \in Permit
    BY <2>1, PerformTypes DEF Performs
  <2>. QED BY <2>2 DEF ProgressInv, Queued, Carries
<1>2. Init => Inv
  BY TypeInit, PermitInit, ProgressInit
<1>3. Inv /\ [Next]_vars => Inv'
  BY TypeStep, PermitStep, ProgressStep
<1>. HIDE DEF Inv
<1>. QED BY <1>1, <1>2, <1>3, PTL DEF Spec
=============================================================================
