-------------------------- MODULE MissingBlocksSync --------------------------
(***************************************************************************)
(* New blocks by gossip and the sync of the blocks they miss, for one      *)
(* share chain (server/p2p/network.rs): a node that is told of a block     *)
(* whose ancestors it lacks asks its connected peers for them, then asks   *)
(* the peer that sent one for what that one lacks, a limited number of     *)
(* times.  The main loop handles one inner request or one swarm event at a *)
(* time; requests are answered, or fail, in any order.                     *)
(*                                                                         *)
(* The share chain is seen from outside: the blocks it stores and what     *)
(* add_synced_blocks returns (module P2Chain has its inside).  The catch-  *)
(* up sync that runs beside this one is in module CatchUpSync.             *)
(***************************************************************************)
EXTENDS Naturals, FiniteSetsExt, Sequences, Bags

CONSTANTS Block, Zero, height, prev, uncles,   \* the blocks, as in P2Chain
          Bad,                 \* blocks that fail a check, once their past is known
          Peer,
          Has,                 \* per peer, the blocks it stores
          main,                \* per peer and height, its main chain block or Zero
          peer_height,         \* per peer, the height its last peer info says
          MAX_DEPTH,           \* config.max_missing_blocks_sync_depth
          NotifyBehind, NotifyAhead, NotifyMissing, NotifyBelow,
                               \* 4, 10, 5 and 5 of handle_new_gossipsub_message
          KeepDepth,           \* 10 + 2 * share_window of sync_missing_blocks
          Lag,                 \* 20 of sync_missing_blocks
          MaxNotifies          \* bound on the gossiped blocks

\* What a block is waiting for; at height 0 nothing is looked for.
Parents(b) == IF height[b] = 0 THEN {} ELSE ({prev[b]} \cup uncles[b]) \ {Zero}

ASSUME MissingAssumption ==
  /\ Zero \notin Block /\ Bad \subseteq Block /\ IsFiniteSet(Block)
  /\ height \in [Block -> Nat] /\ prev \in [Block -> Block \cup {Zero}]
  /\ uncles \in [Block -> SUBSET Block]
  /\ \A b \in Block : prev[b] = Zero => height[b] = 0
  /\ \A b \in Block : \A d \in Parents(b) : height[d] < height[b]
  /\ Has \in [Peer -> SUBSET Block] /\ peer_height \in [Peer -> Nat]
  /\ \A p \in Peer, b \in Block : main[p][height[b]] \in Block \cup {Zero}
  /\ MAX_DEPTH \in Nat /\ KeepDepth \in Nat /\ Lag \in Nat /\ MaxNotifies \in Nat
  /\ {NotifyBehind, NotifyAhead, NotifyMissing, NotifyBelow} \subseteq Nat

VARIABLES
  stored,     \* blocks of our chain
  banned,     \* blacklisted, and disconnected
  queue,      \* the inner request channel
  requests,   \* missing_blocks_sync_request_depth: bag of the requests in flight
  notified,   \* history: the gossiped blocks whose missing blocks are asked for
  notifies,   \* number of gossiped blocks
  disturbed,  \* history: something happened after which blocks need not come
  cut         \* history: the depth limit has ended a sync that missed blocks

history == <<notified, notifies, disturbed, cut>>
vars == <<stored, banned, queue, requests, history>>

\* A block with all of its ancestors and uncles.
Past[b \in Block] == {b} \cup UNION {Past[d] : d \in Parents(b)}

\* The recursion ends, because parents are lower: Past is what its definition says.
ASSUME PastAssumption ==
  \A b \in Block : Past[b] = {b} \cup UNION {Past[d] : d \in Parents(b)}

Complete(b, have) == Past[b] \subseteq have
Start == {b \in Block : prev[b] = Zero}

SyncMsg == [type : {"sync"}, peer : Peer, missing : SUBSET Block, notify : BOOLEAN,
            depth : 0 .. MAX_DEPTH]
AddMsg  == [type : {"add"}, peer : Peer, block : Block, depth : 1 .. MAX_DEPTH]
Request == [peer : Peer, missing : SUBSET Block, depth : 1 .. MAX_DEPTH]

Init ==
  /\ stored = Start /\ banned = {}
  /\ queue = <<>> /\ requests = EmptyBag
  /\ notified = {} /\ notifies = 0 /\ disturbed = FALSE
  /\ cut = FALSE

-----------------------------------------------------------------------------
(* The share chain, as add_synced_blocks shows it.                         *)

Verified(b) == Complete(b, stored) /\ Past[b] \cap Bad = {}

tip_height == Max({0} \cup {height[b] : b \in {x \in stored : Verified(x)}})

\* What a block is missing when the chain has these blocks.
Missing(b, have) ==
  (Parents(b) \cup {prev[u] : u \in Parents(b) \cap uncles[b] \cap have}) \ (have \cup {Zero})

\* Adding b is an error at once: b fails a check that can be made.
FailsCheck(b) == b \in Bad /\ Complete(b, stored \cup {b})

\* Adding any block that is not verified yet may be an error, and an honest peer
\* may have sent it: its timestamp is ahead of our clock, our LWMA is not the one
\* its target was computed from, a stored block that waited for it fails a check,
\* a block of the queue was pruned, an uncle is not off our main chain.
MayFail(b) == ~(b \in stored /\ Verified(b))

\* Adding b is an error, before it is stored or after.
AdditionFails(b) ==
  /\ MayFail(b)
  /\ stored' \in {stored, stored \cup {b}}
  /\ disturbed' = TRUE

\* The missing blocks an addition may report: what b is missing, and what stored
\* ancestors and descendants that are looked at with it are missing.
Reports(b) ==
  LET have    == stored \cup {b}
      related == {x \in have : b \in Past[x] \/ x \in Past[b]}
      others  == UNION {Missing(x, have) : x \in related}
  IN IF b \in stored /\ Verified(b) THEN {{}}
     ELSE {Missing(b, have) \cup more : more \in SUBSET others}

-----------------------------------------------------------------------------
(* Gossip.                                                                 *)

Connected == Peer \ banned

\* The windows of handle_new_gossipsub_message in which a block is looked at.
\* Outside them nothing changes here.
Interesting(b) ==
  /\ ~(height[b] < tip_height /\ height[b] + NotifyBehind <= tip_height)
  /\ height[b] <= tip_height + NotifyAhead

\* handle_new_gossipsub_message for a new block that p passed on.
NewBlock(p, b) ==
  /\ p \in Connected /\ b \in Has[p] /\ Interesting(b)
  /\ notifies < MaxNotifies /\ notifies' = notifies + 1
  /\ \/ /\ AdditionFails(b)               \* greylists the sender
        /\ UNCHANGED <<queue, notified>>
     \/ /\ ~FailsCheck(b)
        /\ stored' = stored \cup {b}
        /\ \E missing \in Reports(b) :
             LET few == Cardinality(missing) <= NotifyMissing
                 asks == missing # {} /\ few /\ tip_height <= height[b] + NotifyBelow
             IN /\ queue' = IF asks
                            THEN Append(queue, [type |-> "sync", peer |-> p, missing |-> missing,
                                                notify |-> TRUE, depth |-> 0])
                            ELSE queue
                /\ notified' = IF asks THEN notified \cup {b} ELSE notified
                /\ disturbed' = (disturbed \/ (missing # {} /\ ~asks))
  /\ UNCHANGED <<banned, requests, cut>>

-----------------------------------------------------------------------------
(* sync_missing_blocks, for the request at the head of the channel.        *)

Received(m) == queue # <<>> /\ m = Head(queue)

\* Mutant: the last round is not made.
Exhausted_early(m) == m.depth + 1 >= MAX_DEPTH

Exhausted(m) == m.depth + 1 > MAX_DEPTH

\* Blocks much older than the peer's tip are not asked for.
Kept(m) == {x \in m.missing : height[x] + KeepDepth >= peer_height[m.peer]}

Wanted(m) == Kept(m) \ stored

NothingToAsk(m) ==
  /\ Received(m) /\ m.type = "sync"
  /\ Exhausted(m) \/ Wanted(m) = {}
  /\ queue' = Tail(queue)
  /\ disturbed' = (disturbed \/ Kept(m) # m.missing)
  /\ cut' = (cut \/ Wanted(m) # {})
  /\ UNCHANGED <<stored, banned, requests, notified, notifies>>

\* Mutant: only the peer that passed the block on is asked.
Targets_source(m) == {m.peer}

\* Whom to ask: after a gossiped block all connected peers that are not too far
\* behind, otherwise the peer that sent the block.
Targets(m) ==
  IF m.notify THEN {p \in Connected : peer_height[p] + Lag >= Min({height[x] : x \in Wanted(m)})}
              ELSE {m.peer}

AskPeers(m) ==
  /\ Received(m) /\ m.type = "sync"
  /\ ~Exhausted(m) /\ Wanted(m) # {}
  /\ queue' = Tail(queue)
  /\ requests' = requests (+) SetToBag({[peer |-> p, missing |-> Wanted(m), depth |-> m.depth + 1]
                                          : p \in Targets(m)})
  /\ disturbed' = (disturbed \/ Kept(m) # m.missing)
  /\ UNCHANGED <<stored, banned, notified, notifies, cut>>

-----------------------------------------------------------------------------
(* AddSyncedBlock                                                          *)

\* Mutant: every round starts from the beginning.
NextDepth_reset(m) == 0

NextDepth(m) == m.depth + 1

DropBlock(m) ==
  /\ Received(m) /\ m.type = "add" /\ m.peer \in banned
  /\ queue' = Tail(queue)
  /\ UNCHANGED <<stored, banned, requests, history>>

AddSyncedBlock(m) ==
  /\ Received(m) /\ m.type = "add" /\ m.peer \notin banned /\ ~FailsCheck(m.block)
  /\ stored' = stored \cup {m.block}
  /\ \E missing \in Reports(m.block) :
       /\ queue' = Tail(queue) \o
            IF missing # {} /\ m.depth < MAX_DEPTH
            THEN <<[type |-> "sync", peer |-> m.peer, missing |-> missing, notify |-> FALSE,
                    depth |-> NextDepth(m)]>>
            ELSE <<>>
       /\ cut' = (cut \/ (missing # {} /\ m.depth >= MAX_DEPTH))
  /\ UNCHANGED <<banned, requests, notified, notifies, disturbed>>

\* The addition is an error: the peer that sent the block is banned for it,
\* whoever sent the block that fails.
BanSource(m) ==
  /\ Received(m) /\ m.type = "add" /\ m.peer \notin banned /\ AdditionFails(m.block)
  /\ banned' = banned \cup {m.peer}
  /\ queue' = Tail(queue)
  /\ UNCHANGED <<requests, notified, notifies, cut>>

HandleInnerRequest ==
  \E m \in {queue[i] : i \in 1 .. Min({1, Len(queue)})} :
    NothingToAsk(m) \/ AskPeers(m) \/ DropBlock(m) \/ AddSyncedBlock(m) \/ BanSource(m)

-----------------------------------------------------------------------------
(* What becomes of a request.                                              *)

\* get_blocks at the peer: for a hash it does not have, the main chain block of
\* that height.
Answer(r) ==
  {IF x \in Has[r.peer] THEN x ELSE main[r.peer][height[x]] : x \in r.missing} \ {Zero}

\* The blocks come in the order of the request, which a hash map gave.
Orderings(S) ==
  {s \in [1 .. Cardinality(S) -> S] : \A i, j \in 1 .. Cardinality(S) : s[i] = s[j] => i = j}

\* handle_sync_missing_blocks_request at the peer and the handling of its response
\* here; a peer that has nothing answers with an error, which is logged.
Response(r) ==
  /\ requests' = requests (-) SetToBag({r})
  /\ \E order \in Orderings(Answer(r)) :
       queue' = queue \o [i \in 1 .. Len(order) |-> [type |-> "add", peer |-> r.peer,
                                                     block |-> order[i], depth |-> r.depth]]
  /\ disturbed' = (disturbed \/ (r.depth > 1 /\ Answer(r) # r.missing))
  /\ UNCHANGED <<stored, banned, notified, notifies, cut>>

\* OutboundFailure, or a response in another protocol version.
Failure(r) ==
  /\ requests' = requests (-) SetToBag({r})
  /\ disturbed' = TRUE
  /\ UNCHANGED <<stored, banned, queue, notified, notifies, cut>>

\* The timer of the main loop.
ClearBlackList ==
  /\ banned # {}
  /\ banned' = {}
  /\ UNCHANGED <<stored, queue, requests, history>>

Next ==
  \/ \E p \in Peer, b \in Block : NewBlock(p, b)
  \/ HandleInnerRequest
  \/ \E r \in BagToSet(requests) : Response(r) \/ Failure(r)
  \/ ClearBlackList

\* The main loop goes on, and libp2p ends every request.
Fairness ==
  /\ WF_vars(HandleInnerRequest)
  /\ WF_vars(\E r \in BagToSet(requests) : Response(r) \/ Failure(r))

Spec == Init /\ [][Next]_vars /\ Fairness

-----------------------------------------------------------------------------
(* Properties                                                              *)

\* The shape of the messages; no request is deeper than the limit.
TypeOK ==
  /\ stored \subseteq Block /\ banned \subseteq Peer
  /\ queue \in Seq(SyncMsg \cup AddMsg)
  /\ BagToSet(requests) \subseteq Request
  /\ notified \subseteq Block /\ notifies \in 0 .. MaxNotifies
  /\ disturbed \in BOOLEAN /\ cut \in BOOLEAN

Quiet == queue = <<>> /\ requests = EmptyBag

\* Requests never go round for ever, whatever peers answer: the syncs that gossiped
\* blocks start come to an end.
SyncsEnd == ~Quiet ~> Quiet

\* When all is quiet, every gossiped block whose missing blocks were asked for has
\* all of its past, although the syncs of several blocks, to several peers, skip
\* what another one has received already.  Excused is what happened with a failed
\* request, an addition that is an error, a peer without the blocks it should have, a
\* block outside the windows, or a sync that the depth limit has ended.
GapsFilled ==
  Quiet /\ ~disturbed /\ ~cut => \A b \in notified : Complete(b, stored)

\* Rounds of requests that the depth allows, two levels of depth each.
Rounds == (MAX_DEPTH + 1) \div 2

Within(b) == Cardinality({height[x] : x \in Past[b] \ (Start \cup {b})}) <= Rounds

\* The depth limit is no excuse for a block that is gossiped alone: when no more
\* levels are missing below it than there are rounds, its past comes, whichever
\* peer answers first and in whatever order the blocks of an answer are added.
OneGapFilled ==
  Quiet /\ ~disturbed /\ notifies = 1 => \A b \in notified : Within(b) => Complete(b, stored)
=============================================================================
