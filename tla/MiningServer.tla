---------------------------- MODULE MiningServer ----------------------------
(***************************************************************************)
(* The gRPC server miners use (server/grpc/p2pool.rs), for one algorithm,  *)
(* with the operations of the share chain behind it (in_memory.rs): a call *)
(* of get_new_block hands out a template on top of the tip it saw, and a   *)
(* call of submit_block brings a template back with a nonce.               *)
(*                                                                         *)
(* A call is cut into steps where it awaits a lock or the base node: other *)
(* calls, blocks from the network and the timeout come in between.  A tip  *)
(* is named by a number, in the order in which the chain's tips followed   *)
(* each other; 0 is the chain without a block.  The shares of a template   *)
(* are named by the block they were calculated for.                        *)
(***************************************************************************)
EXTENDS Naturals, FiniteSetsExt, Sequences

CONSTANTS Miner, NoMiner,          \* the concurrent calls
          Solo,                    \* the shares of a template for solo mining
          MAX_STORED_TEMPLATES,
          MaxTip, MaxTemplates, MaxHeight, MaxDifficulty   \* bounds

ASSUME MiningAssumption ==
  /\ NoMiner \notin Miner
  /\ MAX_STORED_TEMPLATES \in Nat /\ MaxTip \in Nat /\ MaxTemplates \in Nat
  /\ MaxHeight \in Nat \ {0} /\ MaxDifficulty \in Nat \ {0}

VARIABLES
  tip,          \* of the share chain
  cached,       \* cached_shares of the chain, or NoShares
  synced,       \* are_we_synced_with_..._p2pool
  difficulty,   \* block_height_difficulty_cache: per base chain height, 0 for none
  list,         \* list_of_templates
  store,        \* template_store: per template, its contents or NoTemplate
  lock,         \* holder of stats_max_difficulty_since_last_success
  call,         \* per miner, the state of its call
  issued        \* templates that were returned to miners

chain_vars == <<tip, cached, synced>>
store_vars == <<difficulty, list, store, issued>>
vars == <<chain_vars, store_vars, lock, call>>

Tip      == 0 .. MaxTip
Shares   == Tip \cup {Solo}
Template == 1 .. MaxTemplates
NoShares == [at_hash |-> 0, shares |-> Solo]
NoTemplate == [prev |-> 0, shares |-> Solo, height |-> 0]
Idle == [pc |-> "idle", synced |-> FALSE, prev |-> 0, shares |-> Solo, template |-> 0,
         height |-> 0, matches |-> FALSE]

Init ==
  /\ tip = 0 /\ cached = NoShares /\ synced = FALSE
  /\ difficulty = [h \in 1 .. MaxHeight |-> 0]
  /\ list = <<>> /\ store = [t \in Template |-> NoTemplate] /\ issued = {}
  /\ lock = NoMiner /\ call = [m \in Miner |-> Idle]

At(m, pc) == call[m].pc = pc

Goes(m, pc) == call' = [call EXCEPT ![m].pc = pc]

-----------------------------------------------------------------------------
(* The network side of the node: sync and gossip change the chain and the  *)
(* synchronised flag at any time.                                          *)

\* The tip moves; a reorganisation drops the cached shares, an extension does not.
TipMoves ==
  /\ tip < MaxTip
  /\ tip' = tip + 1
  /\ cached' \in {cached, NoShares}
  /\ UNCHANGED <<synced, store_vars, lock, call>>

SyncedChanges ==
  /\ synced' = ~synced
  /\ UNCHANGED <<tip, cached, store_vars, lock, call>>

-----------------------------------------------------------------------------
(* get_new_block                                                           *)

GetNewBlock(m) ==
  /\ At(m, "idle")
  /\ call' = [call EXCEPT ![m] = [Idle EXCEPT !.pc = "tip", !.synced = synced]]
  /\ UNCHANGED <<chain_vars, store_vars, lock>>

\* generate_new_tip_block: the block builds on the tip of this moment.
generate_new_tip_block(m) ==
  /\ At(m, "tip")
  /\ call' = [call EXCEPT ![m].prev = tip,
                          ![m].pc = IF call[m].synced THEN "shares" ELSE "template"]
  /\ UNCHANGED <<chain_vars, store_vars, lock>>

\* generate_shares_and_get_target_difficulty looks at the cached shares: they are
\* used if they are for the parent, else they have to be dropped, without the
\* lock in between.
LookAtCache(m) ==
  /\ At(m, "shares")
  /\ \/ /\ cached # NoShares /\ cached.at_hash = call[m].prev
        /\ call' = [call EXCEPT ![m].shares = cached.shares, ![m].pc = "template"]
     \/ /\ cached # NoShares /\ cached.at_hash # call[m].prev
        /\ Goes(m, "clear")
     \/ /\ cached = NoShares
        /\ Goes(m, "calculate")
  /\ UNCHANGED <<chain_vars, store_vars, lock>>

ClearCache(m) ==
  /\ At(m, "clear")
  /\ cached' = NoShares
  /\ Goes(m, "calculate")
  /\ UNCHANGED <<tip, synced, store_vars, lock>>

\* Mutant: cached for the tip, whichever block they are of.
CacheFor_tip(prev) == [at_hash |-> tip, shares |-> prev]

\* What calculate_and_cache_hashmap_shares leaves in the cache.
CacheFor(prev) == IF prev = tip THEN [at_hash |-> tip, shares |-> prev] ELSE cached

\* calculate_and_cache_hashmap_shares, under the write lock.  The chain may have
\* got its first block by now, and then there is no parent to calculate from.
CalculateShares(m) ==
  LET prev == call[m].prev
  IN /\ At(m, "calculate")
     /\ \/ /\ tip = 0
           /\ call' = [call EXCEPT ![m].shares = prev, ![m].pc = "template"]
           /\ UNCHANGED cached
        \/ /\ tip # 0 /\ prev # 0
           /\ call' = [call EXCEPT ![m].shares = prev, ![m].pc = "template"]
           /\ cached' = CacheFor(prev)
        \/ /\ tip # 0 /\ prev = 0
           /\ call' = [call EXCEPT ![m] = Idle]
           /\ UNCHANGED cached
     /\ UNCHANGED <<tip, synced, store_vars, lock>>

\* Mutant: the network difficulty is not kept.
Learned_nothing(h, d) == difficulty

\* The difficulty cache after a template of base chain height h.
Learned(h, d) == [difficulty EXCEPT ![h] = d]

\* The base node gives a block with the shares as coinbases, and the network
\* difficulty; or it fails.
BaseNodeTemplate(m) ==
  /\ At(m, "template")
  /\ \/ /\ \E h \in 1 .. MaxHeight, d \in 1 .. MaxDifficulty :
             /\ difficulty' = Learned(h, d)
             /\ call' = [call EXCEPT ![m].height = h, ![m].pc = "list"]
     \/ /\ call' = [call EXCEPT ![m] = Idle]
        /\ UNCHANGED difficulty
  /\ UNCHANGED <<chain_vars, list, store, issued, lock>>

\* The list with a new template, whose oldest entry makes room for it.
Listed(t) ==
  LET longer == Append(list, t)
  IN IF Len(longer) > MAX_STORED_TEMPLATES THEN Tail(longer) ELSE longer

\* The template, a new hash, goes on the list.
ListTemplate(m) ==
  LET unused == {t \in Template : store[t] = NoTemplate /\ \A n \in Miner : call[n].template # t}
  IN /\ At(m, "list") /\ unused # {}
     /\ list' = Listed(Min(unused))
     /\ call' = [call EXCEPT ![m].template = Min(unused), ![m].pc = "store"]
     /\ UNCHANGED <<chain_vars, difficulty, store, issued, lock>>

\* It goes into the store, from which nothing is ever removed, and to the miner.
StoreTemplate(m) ==
  LET c == call[m]
  IN /\ At(m, "store")
     /\ store' = [store EXCEPT ![c.template] = [prev |-> c.prev, shares |-> c.shares,
                                                height |-> c.height]]
     /\ issued' = issued \cup {c.template}
     /\ call' = [call EXCEPT ![m] = Idle]
     /\ UNCHANGED <<chain_vars, difficulty, list, lock>>

-----------------------------------------------------------------------------
(* submit_block                                                            *)

\* Difficulty::min() is 1.
NetworkDifficulty(h) == IF difficulty[h] = 0 THEN 1 ELSE difficulty[h]

\* The template is found again, and the difficulty of the mined block compared.
SubmitBlock(m) ==
  /\ At(m, "idle")
  /\ \E t \in issued, d \in 1 .. MaxDifficulty :
       call' = [call EXCEPT ![m] = [Idle EXCEPT !.pc = "wait", !.template = t,
                                                !.matches = d >= NetworkDifficulty(store[t].height)]]
  /\ UNCHANGED <<chain_vars, store_vars, lock>>

\* The lock of the largest difficulty is held until the call returns.
TakeLock(m) ==
  /\ At(m, "wait") /\ lock = NoMiner
  /\ lock' = m
  /\ Goes(m, IF call[m].matches THEN "base" ELSE "share")
  /\ UNCHANGED <<chain_vars, store_vars>>

\* The base node takes the block, or the call ends with its error.
BaseNodeSubmit(m) ==
  /\ At(m, "base")
  /\ \/ Goes(m, "share") /\ UNCHANGED lock
     \/ call' = [call EXCEPT ![m] = Idle] /\ lock' = NoMiner
  /\ UNCHANGED <<chain_vars, store_vars>>

\* The share chain's check of the shares, which a chain start does not have.
SharesRight(t) == t.shares = t.prev \/ t.prev = 0

\* submit_share_chain_block: nothing if we are not synced.  A block with the right
\* shares becomes the tip if its parent still is the tip, and it may, by its
\* uncles, if another chain has become the main chain.
submit_share_chain_block(m) ==
  LET t     == store[call[m].template]
      valid == synced /\ SharesRight(t) /\ tip < MaxTip
      onTip == t.prev = tip
  IN /\ At(m, "share")
     /\ \/ ~(valid /\ onTip) /\ UNCHANGED <<tip, cached>>
        \/ valid /\ onTip /\ tip' = tip + 1 /\ UNCHANGED cached
        \/ valid /\ ~onTip /\ t.prev # 0 /\ tip' = tip + 1 /\ cached' = NoShares
     /\ call' = [call EXCEPT ![m] = Idle]
     /\ lock' = NoMiner
     /\ UNCHANGED <<synced, store_vars>>

-----------------------------------------------------------------------------

\* Mutant: a call that is cut off keeps the lock.
Timeout_locked(m) ==
  /\ ~At(m, "idle")
  /\ call' = [call EXCEPT ![m] = Idle]
  /\ UNCHANGED <<chain_vars, store_vars, lock>>

\* MAX_ACCEPTABLE_GRPC_TIMEOUT: a call is dropped where it waits, with its locks.
Timeout(m) ==
  /\ ~At(m, "idle")
  /\ call' = [call EXCEPT ![m] = Idle]
  /\ lock' = IF lock = m THEN NoMiner ELSE lock
  /\ UNCHANGED <<chain_vars, store_vars>>

Get(m) ==
  \/ generate_new_tip_block(m) \/ LookAtCache(m) \/ ClearCache(m) \/ CalculateShares(m)
  \/ BaseNodeTemplate(m) \/ ListTemplate(m) \/ StoreTemplate(m)

Submit(m) == TakeLock(m) \/ BaseNodeSubmit(m) \/ submit_share_chain_block(m)

Next ==
  \/ TipMoves \/ SyncedChanges
  \/ \E m \in Miner : GetNewBlock(m) \/ SubmitBlock(m) \/ Get(m) \/ Submit(m) \/ Timeout(m)

\* The timer of every call runs; nothing else has to happen.
Fairness == \A m \in Miner : WF_vars(Timeout(m))

Spec == Init /\ [][Next]_vars /\ Fairness

-----------------------------------------------------------------------------
(* Properties                                                              *)

\* The shape of the caches, the templates and the calls.
TypeOK ==
  /\ tip \in Tip /\ synced \in BOOLEAN
  /\ cached \in [at_hash : Tip, shares : Shares]
  /\ difficulty \in [1 .. MaxHeight -> 0 .. MaxDifficulty]
  /\ list \in Seq(Template) /\ Len(list) <= MAX_STORED_TEMPLATES
  /\ store \in [Template -> [prev : Tip, shares : Shares, height : 0 .. MaxHeight]]
  /\ issued \subseteq Template /\ lock \in Miner \cup {NoMiner}
  /\ \A m \in Miner : call[m].prev \in Tip /\ call[m].shares \in Shares

\* A template for the pool pays the shares of the block it builds on, although the
\* tip is read, the cached shares are read, dropped and calculated under separate
\* locks, and other calls and new tips come in between.
TemplatePaysItsParent ==
  \A t \in issued : store[t].shares \in {store[t].prev, Solo}

\* The network difficulty a submitted block is compared with is always known: no
\* block is sent to the base node only because Difficulty::min() stood in for it.
DifficultyKnown ==
  \A t \in issued : difficulty[store[t].height] # 0

\* A submission that hangs at the base node, or is cut off, never locks out the
\* others for good: the lock comes back again and again.
LockComesBack == []<>(lock = NoMiner)
=============================================================================
