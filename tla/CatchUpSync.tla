----------------------------- MODULE CatchUpSync -----------------------------
(***************************************************************************)
(* Catch-up sync of one share chain (server/p2p/network.rs): how a node    *)
(* that learns of a heavier chain asks a peer for blocks, round after      *)
(* round, under a limited number of permits.                               *)
(*                                                                         *)
(* The main loop handles one inner request or one swarm event at a time;   *)
(* the tasks it spawns for responses run beside it.  A permit is owned by  *)
(* the request in flight, by the task or by the queued continuation, and   *)
(* dropping its owner gives it back to the semaphore.                      *)
(*                                                                         *)
(* All peers are on one chain, of which peer p has the blocks 1 ..         *)
(* their_tip[p]; a block is its height, and a chain is as heavy as it is   *)
(* long.  Messages carry no lost or forged fields.  The synchronised flags *)
(* that only gRPC reads, and the sync of missing parents, are left out.    *)
(***************************************************************************)
EXTENDS Naturals, FiniteSetsExt, Sequences

CONSTANTS Peer, NoPeer,
          Faulty,                        \* peers whose blocks fail validation
          Permit, NoPermit,              \* the num_concurrent_syncs permits
          MAX_CATCH_UP_BLOCKS_TO_RETURN,
          MAX_CATCH_UP_ATTEMPTS,
          MaxTip,                        \* bound on the peers' chains
          MaxQueue                       \* bound on the requests announcements queue

ASSUME SyncAssumption ==
  /\ NoPeer \notin Peer /\ Faulty \subseteq Peer
  /\ NoPermit \notin Permit /\ IsFiniteSet(Permit)
  /\ MAX_CATCH_UP_BLOCKS_TO_RETURN \in Nat /\ MAX_CATCH_UP_ATTEMPTS \in Nat
  /\ MaxTip \in Nat /\ MaxQueue \in Nat

VARIABLES
  held,           \* blocks we have stored
  their_tip,      \* per peer, its tip
  list,           \* per peer, the peer store list it is on
  attempts,       \* per peer, catch_up_attempts of its record
  free,           \* permits in the semaphore
  in_progress,    \* in_progress_syncs: per peer, the permit of its request or NoPermit
  asked,          \* per peer, what the request in progress says
  last_requested, \* last_sync_requested_block, 0 for None
  last_failed,    \* last_failed_peer
  recent,         \* recent_synced_tips: per peer, the last block it sent, 0 for none
  queue,          \* the inner request channel
  tasks           \* spawned response tasks

peer_vars == <<list, attempts>>
sync_vars == <<in_progress, asked, last_requested, last_failed>>
vars == <<held, their_tip, peer_vars, free, sync_vars, recent, queue, tasks>>

Height == 1 .. MaxTip

\* Tip of the part of the chain we have without a gap.
OurTip == Max({h \in 0 .. MaxTip : 1 .. h \subseteq held})

PerformMsg == [type : {"perform"}, peer : Peer, last : 0 .. MaxTip, permit : Permit \cup {NoPermit}]
AddMsg     == [type : {"add"}, peer : Peer, block : Height]
Task       == [peer : Peer, lo : Height, hi : Height, tip : Height, permit : Permit,
               pc : {"send", "record", "decide"}, must_continue : BOOLEAN]
Request    == [i_have : SUBSET Height, last : 0 .. MaxTip]
NoRequest  == [i_have |-> {}, last |-> 0]

Init ==
  /\ held = {}
  /\ their_tip \in [Peer -> 0 .. MaxTip]
  /\ list = [p \in Peer |-> "white"] /\ attempts = [p \in Peer |-> 0]
  /\ free = Permit
  /\ in_progress = [p \in Peer |-> NoPermit] /\ asked = [p \in Peer |-> NoRequest]
  /\ last_requested = 0 /\ last_failed = NoPeer
  /\ recent = [p \in Peer |-> 0]
  /\ queue = <<>> /\ tasks = {}

-----------------------------------------------------------------------------
(* The peers.                                                              *)

\* A peer's chain grows.
PeerMines(p) ==
  /\ their_tip[p] < MaxTip
  /\ their_tip' = [their_tip EXCEPT ![p] = @ + 1]
  /\ UNCHANGED <<held, peer_vars, free, sync_vars, recent, queue, tasks>>

\* handle_meta_data_exchange_response: p is heavier, so we want to sync from it.
MetaData(p) ==
  /\ their_tip[p] > OurTip
  /\ Len(queue) < MaxQueue
  /\ queue' = Append(queue, [type |-> "perform", peer |-> p, last |-> 0, permit |-> NoPermit])
  /\ UNCHANGED <<held, their_tip, peer_vars, free, sync_vars, recent, tasks>>

\* A ping or the greylist timer makes a greylisted peer trusted again.
Restore(p) ==
  /\ list[p] = "grey"
  /\ list' = [list EXCEPT ![p] = "white"]
  /\ UNCHANGED <<held, their_tip, attempts, free, sync_vars, recent, queue, tasks>>

\* clear_black_list, which also gives a new record.
ClearBlackList ==
  /\ \E p \in Peer : list[p] = "black"
  /\ list' = [p \in Peer |-> IF list[p] = "black" THEN "white" ELSE list[p]]
  /\ attempts' = [p \in Peer |-> IF list[p] = "black" THEN 0 ELSE attempts[p]]
  /\ UNCHANGED <<held, their_tip, free, sync_vars, recent, queue, tasks>>

-----------------------------------------------------------------------------
(* handle_inner_request, for the request at the head of the channel.       *)

Received(m) == queue # <<>> /\ m = Head(queue) /\ queue' = Tail(queue)

\* The permit a dropped owner gives back.
Released(k) == {k} \ {NoPermit}

\* perform_catch_up_sync returns before it looks at the progress.
RefusePeer(m) ==
  /\ Received(m) /\ m.type = "perform"
  /\ \/ list[m.peer] = "black" /\ UNCHANGED last_failed
     \/ list[m.peer] # "black" /\ last_failed = m.peer /\ last_failed' = NoPeer
  /\ free' = free \cup Released(m.permit)
  /\ UNCHANGED <<held, their_tip, peer_vars, in_progress, asked, last_requested, recent, tasks>>

Accepted(m) ==
  Received(m) /\ m.type = "perform" /\ list[m.peer] # "black" /\ last_failed # m.peer

\* It returns after it took the saved progress.
AlreadyBusy(m) ==
  /\ Accepted(m)
  /\ in_progress[m.peer] # NoPermit \/ (m.permit = NoPermit /\ free = {})
  /\ last_requested' = 0
  /\ free' = free \cup Released(m.permit)
  /\ UNCHANGED <<held, their_tip, peer_vars, in_progress, asked, last_failed, recent, tasks>>

\* It sends a request.  A new sync says what we have and, after a failure,
\* where the failed one was; a continuation only where it is.  Recently synced
\* tips of all peers are always added.
SendRequest(m) ==
  /\ Accepted(m) /\ in_progress[m.peer] = NoPermit
  /\ \E k \in IF m.permit = NoPermit THEN free ELSE {m.permit} :
       /\ in_progress' = [in_progress EXCEPT ![m.peer] = k]
       /\ free' = free \ {k}
  /\ LET last  == IF m.last # 0 THEN m.last ELSE last_requested
         chain == IF m.last # 0 THEN {} ELSE 1 .. OurTip
         tips  == {recent[p] : p \in Peer} \ {0}
     IN /\ asked' = [asked EXCEPT ![m.peer] = [i_have |-> chain \cup tips, last |-> last]]
        /\ last_requested' = last
  /\ UNCHANGED <<held, their_tip, peer_vars, last_failed, recent, tasks>>

\* AddSyncedBlock: dropped if the peer is banned by now; a block that fails
\* validation bans the peer.
AddSyncedBlock(m) ==
  /\ Received(m) /\ m.type = "add"
  /\ held' = IF list[m.peer] = "black" \/ m.peer \in Faulty THEN held ELSE held \cup {m.block}
  /\ list' = [list EXCEPT ![m.peer] = IF m.peer \in Faulty THEN "black" ELSE @]
  /\ UNCHANGED <<their_tip, attempts, free, sync_vars, recent, tasks>>

HandleInnerRequest ==
  \E m \in {queue[i] : i \in 1 .. Min({1, Len(queue)})} :
    RefusePeer(m) \/ AlreadyBusy(m) \/ SendRequest(m) \/ AddSyncedBlock(m)

-----------------------------------------------------------------------------
(* What becomes of a request.                                              *)

\* release_catchup_sync_permit for the request of p.
Answered(p) ==
  /\ in_progress[p] # NoPermit
  /\ in_progress' = [in_progress EXCEPT ![p] = NoPermit]
  /\ asked' = [asked EXCEPT ![p] = NoRequest]

\* request_sync at the peer: the blocks above the highest one both sides have,
\* one more than the limit at most.
FirstReturned(p) ==
  LET common == {h \in asked[p].i_have \cup {asked[p].last} : h <= their_tip[p]}
  IN Max(common \cup {0}) + 1

LastReturned(p) == Min({their_tip[p], FirstReturned(p) + MAX_CATCH_UP_BLOCKS_TO_RETURN})

\* Mutant: the permit of a refused request stays taken.
ErrorResponse_leaking(p) ==
  /\ Answered(p)
  /\ last_failed' = NoPeer
  /\ UNCHANGED <<held, their_tip, peer_vars, free, last_requested, recent, queue, tasks>>

\* The peer answers with an error, or in another protocol version.
ErrorResponse(p) ==
  /\ Answered(p)
  /\ last_failed' = NoPeer
  /\ free' = free \cup {in_progress[p]}
  /\ UNCHANGED <<held, their_tip, peer_vars, last_requested, recent, queue, tasks>>

\* The peer has nothing for us: it is banned.
EmptyResponse(p) ==
  /\ Answered(p) /\ FirstReturned(p) > their_tip[p]
  /\ last_failed' = NoPeer /\ last_requested' = 0
  /\ free' = free \cup {in_progress[p]}
  /\ list' = [list EXCEPT ![p] = "black"]
  /\ UNCHANGED <<held, their_tip, attempts, recent, queue, tasks>>

\* Mutant: the saved progress is not cleared.
BlocksResponse_progress_kept(p) ==
  /\ Answered(p) /\ FirstReturned(p) <= their_tip[p]
  /\ last_failed' = NoPeer
  /\ tasks' = tasks \cup {[peer |-> p, lo |-> FirstReturned(p), hi |-> LastReturned(p),
                           tip |-> their_tip[p], permit |-> in_progress[p],
                           pc |-> "send", must_continue |-> FALSE]}
  /\ UNCHANGED <<held, their_tip, peer_vars, free, last_requested, recent, queue>>

\* The peer sends blocks: a task takes them, and the permit.
BlocksResponse(p) ==
  /\ Answered(p) /\ FirstReturned(p) <= their_tip[p]
  /\ last_failed' = NoPeer /\ last_requested' = 0
  /\ tasks' = tasks \cup {[peer |-> p, lo |-> FirstReturned(p), hi |-> LastReturned(p),
                           tip |-> their_tip[p], permit |-> in_progress[p],
                           pc |-> "send", must_continue |-> FALSE]}
  /\ UNCHANGED <<held, their_tip, peer_vars, free, recent, queue>>

\* OutboundFailure: a timeout, or a connection that could not be used.
OutboundFailure(p) ==
  /\ Answered(p)
  /\ last_failed' = p
  /\ free' = free \cup {in_progress[p]}
  /\ \/ list' = [list EXCEPT ![p] = IF @ = "white" THEN "grey" ELSE @]
     \/ UNCHANGED list                       \* ConnectionClosed
  /\ UNCHANGED <<held, their_tip, attempts, last_requested, recent, queue, tasks>>

-----------------------------------------------------------------------------
(* The task of a response.                                                 *)

TaskSend(t) ==
  /\ t.pc = "send"
  /\ queue' = queue \o [i \in 1 .. (t.hi - t.lo + 1) |->
                          [type |-> "add", peer |-> t.peer, block |-> t.lo + i - 1]]
  /\ tasks' = (tasks \ {t}) \cup {[t EXCEPT !.pc = "record"]}
  /\ UNCHANGED <<held, their_tip, peer_vars, free, sync_vars, recent>>

\* The last block is noted, then our difficulty is read: the blocks sent may or
\* may not have been added by now.
TaskRecord(t) ==
  /\ t.pc = "record"
  /\ recent' = [recent EXCEPT ![t.peer] = t.hi]
  /\ tasks' = (tasks \ {t}) \cup {[t EXCEPT !.pc = "decide",
                                            !.must_continue = t.hi # t.tip /\ t.tip > OurTip]}
  /\ UNCHANGED <<held, their_tip, peer_vars, free, sync_vars, queue>>

\* num_catch_ups knows whitelisted peers only.
MayContinue(p) == list[p] = "white" => attempts[p] < MAX_CATCH_UP_ATTEMPTS

\* Mutant: the continuation gets a copy and the task drops its own permit.
TaskContinue_copying(t) ==
  /\ t.pc = "decide" /\ t.must_continue /\ MayContinue(t.peer)
  /\ attempts' = [attempts EXCEPT ![t.peer] = IF list[t.peer] = "white" THEN @ + 1 ELSE @]
  /\ queue' = Append(queue, [type |-> "perform", peer |-> t.peer, last |-> t.hi,
                             permit |-> t.permit])
  /\ free' = free \cup {t.permit}
  /\ tasks' = tasks \ {t}
  /\ UNCHANGED <<held, their_tip, list, sync_vars, recent>>

TaskContinue(t) ==
  /\ t.pc = "decide" /\ t.must_continue /\ MayContinue(t.peer)
  /\ attempts' = [attempts EXCEPT ![t.peer] = IF list[t.peer] = "white" THEN @ + 1 ELSE @]
  /\ queue' = Append(queue, [type |-> "perform", peer |-> t.peer, last |-> t.hi,
                             permit |-> t.permit])
  /\ tasks' = tasks \ {t}
  /\ UNCHANGED <<held, their_tip, list, free, sync_vars, recent>>

TaskEnd(t) ==
  /\ t.pc = "decide" /\ ~(t.must_continue /\ MayContinue(t.peer))
  /\ attempts' = [attempts EXCEPT ![t.peer] = IF list[t.peer] = "white" THEN 0 ELSE @]
  /\ free' = free \cup {t.permit}
  /\ tasks' = tasks \ {t}
  /\ UNCHANGED <<held, their_tip, list, sync_vars, recent, queue>>

TaskStep == \E t \in tasks : TaskSend(t) \/ TaskRecord(t) \/ TaskContinue(t) \/ TaskEnd(t)

Next ==
  \/ \E p \in Peer :
       \/ PeerMines(p) \/ MetaData(p) \/ Restore(p)
       \/ ErrorResponse(p) \/ EmptyResponse(p) \/ BlocksResponse(p) \/ OutboundFailure(p)
  \/ ClearBlackList
  \/ HandleInnerRequest
  \/ TaskStep

\* The main loop and the tasks go on, and libp2p ends every request with a
\* response or a failure (its request timeout).
Fairness ==
  /\ WF_vars(HandleInnerRequest)
  /\ WF_vars(TaskStep)
  /\ \A p \in Peer : WF_vars(ErrorResponse(p) \/ EmptyResponse(p) \/ BlocksResponse(p)
                               \/ OutboundFailure(p))

Spec == Init /\ [][Next]_vars /\ Fairness

\* Every peer stays reachable: its metadata keeps arriving, it answers when it is
\* asked again and again, and the peer store timers fire.
Reachable ==
  /\ WF_vars(ClearBlackList)
  /\ \A p \in Peer : /\ SF_vars(MetaData(p)) /\ WF_vars(Restore(p))
                     /\ SF_vars(EmptyResponse(p)) /\ SF_vars(BlocksResponse(p))

ReachableSpec == Spec /\ Reachable

-----------------------------------------------------------------------------
(* Properties                                                              *)

\* The shape of the sync state and of the messages.
TypeOK ==
  /\ held \subseteq Height /\ their_tip \in [Peer -> 0 .. MaxTip]
  /\ list \in [Peer -> {"white", "grey", "black"}] /\ attempts \in [Peer -> Nat]
  /\ free \subseteq Permit /\ in_progress \in [Peer -> Permit \cup {NoPermit}]
  /\ asked \in [Peer -> Request]
  /\ last_requested \in 0 .. MaxTip /\ last_failed \in Peer \cup {NoPeer}
  /\ recent \in [Peer -> 0 .. MaxTip]
  /\ queue \in Seq(PerformMsg \cup AddMsg) /\ tasks \subseteq Task

Performs(i) == i \in 1 .. Len(queue) /\ queue[i].type = "perform"

\* No permit is lost or owned twice, whichever way a sync ends: a permit out of
\* the semaphore has exactly one owner among requests, tasks and continuations.
PermitOwnedOnce ==
  /\ \A p, q \in Peer : in_progress[p] # NoPermit /\ in_progress[p] = in_progress[q] => p = q
  /\ \A t, u \in tasks : t.permit = u.permit => t = u
  /\ \A i, j \in 1 .. Len(queue) :
       Performs(i) /\ Performs(j) /\ queue[i].permit # NoPermit
         /\ queue[i].permit = queue[j].permit => i = j
  /\ \A k \in Permit :
       LET requested == \E p \in Peer : in_progress[p] = k
           handled   == \E t \in tasks : t.permit = k
           queued    == \E i \in 1 .. Len(queue) : Performs(i) /\ queue[i].permit = k
       IN /\ k \in free <=> ~(requested \/ handled \/ queued)
          /\ ~(requested /\ handled) /\ ~(requested /\ queued) /\ ~(handled /\ queued)

\* "This should not happen" (perform_catch_up_sync, for a continuation that finds
\* the progress of another sync): the saved progress is gone when a sync goes on.
ContinuationUndisturbed ==
  \A i \in 1 .. Len(queue) :
    Performs(i) /\ queue[i].permit # NoPermit => last_requested = 0

\* Every sync ends: a permit that was taken is given back, whatever the peers do.
PermitsReturn == \A k \in Permit : k \notin free ~> k \in free

\* "New node sync with peers on startup" (Sync.feature): a node whose peers are
\* honest and reachable gets their chain.
NodeSyncs == <>(\A p \in Peer : OurTip >= their_tip[p])
=============================================================================
