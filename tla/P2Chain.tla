------------------------------- MODULE P2Chain -------------------------------
(***************************************************************************)
(* The share chain of one proof-of-work algorithm (sharechain/p2chain.rs,  *)
(* p2chain_level.rs), as it is driven by sharechain/in_memory.rs: blocks   *)
(* arrive in any order, are stored, verified as far as their ancestors are *)
(* known, and extend or reorganise the main chain.  The node may stop at   *)
(* any point and reload what its block cache holds.                        *)
(*                                                                         *)
(* A block is its hash; what a block says about itself is constant.        *)
(* verify_chain works through a queue of blocks while it holds the write   *)
(* lock of the chain: VerifyStep is one iteration of it, and nothing but a *)
(* crash can come between two iterations.                                  *)
(*                                                                         *)
(* The chain's level at a height exists iff a block of that height is      *)
(* stored.  The block cache (LMDB) always holds the blocks of the levels,  *)
(* because a level writes through to it, so stored and verified are both   *)
(* what is in memory and what is on disk.                                  *)
(***************************************************************************)
EXTENDS Naturals, FiniteSetsExt, Sequences

CONSTANTS Block,               \* hashes of the blocks that can arrive
          Zero,                \* FixedHash::zero()
          MaxHeight,           \* bound on heights
          height, prev, uncles,\* of a block, as the block says
          anc,                 \* anc[b][i] is the ancestor of b, i generations back
          target, total_pow,   \* claimed target and accumulated difficulty
          BadTarget,           \* blocks whose target is not what LWMA gives
          BadMedian,           \* blocks not later than their median timestamp
          BadShares,           \* blocks whose coinbase split is wrong
          timestamp,           \* of a block
          EarliestDates,       \* values of earliest_date that a start may meet
          ShareWindow,         \* config.share_window
          MaxLevels,           \* total_size + SAFETY_MARGIN + MAX_EXTRA_SYNC
          LwmaSize,            \* blocks in a full LWMA window
          MedianWindow,        \* MEDIAN_TIMESTAMP_WINDOW
          MAX_UNCLE_AGE, UNCLE_LIMIT, UNCLE_START_HEIGHT,
          MAX_MISSING_PARENTS,
          MaxAhead,            \* bound: how far above the tip a block may arrive
          MaxRestarts          \* bound on the stops of the node

Heights == 0 .. MaxHeight

ASSUME ChainAssumption ==
  /\ IsFiniteSet(Block) /\ Zero \notin Block
  /\ MaxHeight \in Nat
  /\ height \in [Block -> Heights]
  /\ prev \in [Block -> Block \cup {Zero}]
  /\ uncles \in [Block -> SUBSET Block]
  /\ target \in [Block -> Nat \ {0}]
  /\ total_pow \in [Block -> Nat]
  /\ timestamp \in [Block -> Nat] /\ EarliestDates \subseteq Nat
  /\ \A b \in Block : height[b] # 0 => /\ prev[b] \in Block
                                       /\ height[prev[b]] = height[b] - 1

\* anc unfolds prev: its value is fixed by prev and supplied with it.
ASSUME AncestorAssumption ==
  \A b \in Block :
    /\ DOMAIN anc[b] = 0 .. height[b]
    /\ anc[b][0] = b
    /\ \A i \in 0 .. height[b] : anc[b][i] \in Block /\ height[anc[b][i]] = height[b] - i
    /\ \A i \in 1 .. height[b] : anc[b][i] = prev[anc[b][i - 1]]

ASSUME WindowAssumption ==
  /\ ShareWindow \in Nat /\ ShareWindow >= 2
  /\ MaxLevels \in Nat \ {0}
  /\ LwmaSize \in Nat \ {0, 1}
  /\ MedianWindow \in Nat \ {0}
  /\ MAX_UNCLE_AGE \in Nat \ {0, 1} /\ UNCLE_LIMIT \in Nat /\ UNCLE_START_HEIGHT \in Nat
  /\ MAX_MISSING_PARENTS \in Nat \ {0}
  /\ MaxAhead \in Nat /\ MaxRestarts \in Nat

VARIABLES
  stored,        \* blocks held by the levels, and by the block cache
  verified,      \* their VerifiedStatus flags
  chain_block,   \* per height, the main chain block of the level or Zero
  current_tip,   \* height of the tip
  lwma,          \* the blocks whose time and target the cached LWMA holds
  peak,          \* history: the highest tip since the node started
  next_level,    \* verify_chain: blocks still to look at
  processed,     \* verify_chain: blocks looked at
  new_tip,       \* ChainAddResult of the call: the highest block made tip, or Zero
  missing_blocks,\* ChainAddResult of the call: blocks to ask for
  loading,       \* try_load: pairs <<block, flags>> still to add
  panicked,      \* a "FATAL" panic was reached
  restarts,      \* number of stops so far
  pow_kept,      \* history: tip difficulty the last stop has to bring back
  skipped,       \* history: since the start verify_chain gave up a verified block
  rerooted       \* history: a block of height 0 with a parent was made the tip

chain_vars == <<stored, verified, chain_block, current_tip, lwma, peak>>
call_vars  == <<next_level, processed, new_tip, missing_blocks>>
node_vars  == <<loading, panicked, restarts, pow_kept>>
history    == <<skipped, rerooted>>
vars       == <<chain_vars, call_vars, node_vars, history>>

Flag == {"parents", "difficulty", "target", "median", "shares"}

\* The i-th ancestor exists for i up to the height.
Generations(b, n) == 1 .. Min({n, height[b]})

IsVerified(b) == verified[b] = Flag

LevelExists(h) == \E b \in stored : height[b] = h

\* get_tip: there is one iff the level at current_tip has a chain block.
HasTip  == chain_block[current_tip] # Zero
TipHash == chain_block[current_tip]

\* total_accumulated_tip_difficulty; AccumulatedDifficulty::min() is 1.
TipPow == IF HasTip THEN total_pow[TipHash] ELSE 1

Init ==
  /\ stored = {} /\ verified = [b \in Block |-> {}]
  /\ chain_block = [h \in Heights |-> Zero]
  /\ current_tip = 0 /\ lwma = <<>> /\ peak = 0
  /\ next_level = <<>> /\ processed = {} /\ new_tip = Zero /\ missing_blocks = {}
  /\ loading = {} /\ panicked = FALSE /\ restarts = 0 /\ pow_kept = 1
  /\ skipped = FALSE /\ rerooted = FALSE

-----------------------------------------------------------------------------
(* Target difficulty.  LinearWeightedMovingAverage is external: a bounded   *)
(* window that add_back slides and add_front fills.  A miner's target is    *)
(* right iff it was computed from the window of its ancestors, so a window  *)
(* is represented by the blocks in it, oldest first.                        *)

add_back(w, b) == LET full == Len(w) >= LwmaSize
                  IN Append(IF full THEN Tail(w) ELSE w, b)

\* The window that add_front fills from b downwards, n blocks deep at most.
WindowFrom(b, n) == LET m == Min({n, LwmaSize, height[b] + 1})
                    IN [i \in 1 .. m |-> anc[b][m - i]]

\* What the target of b has to be computed from.
AncestorWindow(b) == IF prev[b] = Zero THEN <<>> ELSE WindowFrom(prev[b], LwmaSize)

NoWindow == <<Zero>>

AtStart(x) == x \in stored /\ height[x] = 0

\* get_target_difficulty_for_block: the window used, or NoWindow.  On top of the
\* tip it is the cached one, whatever the height of b.  Elsewhere the walk needs
\* its ancestors, and a walk that starts at height 0 looks for a parent of the
\* chain start, at height 0 too.
TargetWindow(b) ==
  IF prev[b] = TipHash THEN lwma
  ELSE IF height[b] >= 2 /\ \A i \in Generations(b, LwmaSize) : anc[b][i] \in stored
       THEN AncestorWindow(b)
  ELSE IF height[b] < 2 /\ AtStart(prev[b]) /\ AtStart(prev[prev[b]])
       THEN <<prev[prev[b]], prev[b]>>
  ELSE NoWindow

TargetMatches(b) == TargetWindow(b) = AncestorWindow(b) /\ b \notin BadTarget

-----------------------------------------------------------------------------
(* verify_block and its checks.                                            *)

ParentKnown(b) == height[b] = 0 \/ prev[b] \in stored

\* verify_pow_and_parents: an uncle must be known with its own difficulty checked.
ParentsReady(b) ==
  /\ ParentKnown(b)
  /\ \A u \in uncles[b] : u \in stored /\ {"target", "difficulty"} \subseteq verified[u]

UncleWork(b) == MapThenSumSet(LAMBDA u : target[u], uncles[b])

\* A fact of the sum, for the proofs: a fold is out of the prover's reach.
ASSUME UncleWorkAssumption == \A b \in Block : UncleWork(b) \in Nat

\* The accumulated difficulty b has to claim.
TotalWork(b) == target[b] + UncleWork(b)
                          + (IF height[b] = 0 THEN 0 ELSE total_pow[prev[b]])

\* calculate_median_timestamp_for_block finds its window.
MedianReady(b) == \A i \in Generations(b, MedianWindow) : anc[b][i] \in stored

\* get_calculate_and_cache_hashmap_of_shares finds every block and uncle of the
\* share window below b, and b's own uncles are known.
SharesReady(b) ==
  /\ \A i \in Generations(b, ShareWindow - 1) :
       anc[b][i] \in stored /\ uncles[anc[b][i]] \subseteq stored
  /\ uncles[b] \subseteq stored

\* The accumulated difficulty is not the one it has to claim.
PowFails(b) == "parents" \notin verified[b] /\ ParentsReady(b) /\ total_pow[b] # TotalWork(b)

\* verify_median_timestamp_for_block
MedianFails(b) == "median" \notin verified[b] /\ height[b] # 0 /\ MedianReady(b) /\ b \in BadMedian

\* Mutant: the coinbase split is never compared.
SharesFail_trusted(b) == FALSE

\* verify_shares_for_block: the coinbase split is not the one of the window.
SharesFail(b) == "shares" \notin verified[b] /\ height[b] # 0 /\ SharesReady(b) /\ b \in BadShares

\* The checks that can be made now and fail make verify_block return an error.
VerifyFails(b) == ~IsVerified(b) /\ (PowFails(b) \/ MedianFails(b) \/ SharesFail(b))

\* The flags verify_block leaves when it does not fail.
VerifiedFlags(b) ==
  verified[b] \cup {"difficulty"}
    \cup (IF ParentsReady(b)                 THEN {"parents"} ELSE {})
    \cup (IF TargetMatches(b)                THEN {"target"}  ELSE {})
    \cup (IF height[b] = 0 \/ MedianReady(b) THEN {"median"}  ELSE {})
    \cup (IF height[b] = 0 \/ SharesReady(b) THEN {"shares"}  ELSE {})

SetVerified(b) == verified' = [verified EXCEPT ![b] = VerifiedFlags(b)]

-----------------------------------------------------------------------------
(* Bookkeeping of verify_chain.                                            *)

\* Mutant: only nephews are looked at again.
ChildrenAndNephews_nephews(b) ==
  {x \in stored : /\ height[x] \in (height[b] + 1) .. (height[b] + MAX_UNCLE_AGE - 1)
                  /\ b \in uncles[x]}

\* get_all_children_and_nephews: the range of heights excludes its end.
ChildrenAndNephews(b) ==
  {x \in stored : /\ height[x] \in (height[b] + 1) .. (height[b] + MAX_UNCLE_AGE - 1)
                  /\ prev[x] = b \/ b \in uncles[x]}

\* Levels are searched upwards; within a level a hash map gives any order.
Orderings(S) ==
  {s \in [1 .. Cardinality(S) -> S] :
     \A i, j \in 1 .. Cardinality(S) : i < j => s[i] # s[j] /\ height[s[i]] <= height[s[j]]}

\* ChainAddResult::combine: which missing blocks fit under the limit depends on
\* the order of a hash map.
Combined(found) ==
  LET all == missing_blocks \cup found
  IN {m \in SUBSET all : /\ missing_blocks \subseteq m
                         /\ Cardinality(m) = Min({Cardinality(all), MAX_MISSING_PARENTS})}

\* An iteration for b ended well: it may have made b the tip, found blocks
\* missing and blocks to look at next.
Continue(b, made_tip, found, next) ==
  /\ new_tip' = IF made_tip /\ (new_tip = Zero \/ height[b] > height[new_tip])
                THEN b ELSE new_tip
  /\ missing_blocks' \in Combined(found)
  /\ LET queued == {next_level[i] : i \in 2 .. Len(next_level)}
         done   == processed \cup {b}
     IN \E order \in Orderings(next \ (done \cup queued)) :
          LET queue == IF Cardinality(missing_blocks') >= MAX_MISSING_PARENTS
                       THEN <<>> ELSE Tail(next_level) \o order
          IN /\ next_level' = queue
             /\ processed' = IF queue = <<>> THEN {} ELSE done

\* An error ends the call and drops what the iterations before it reported.
Abort ==
  next_level' = <<>> /\ processed' = {} /\ new_tip' = Zero /\ missing_blocks' = {}

-----------------------------------------------------------------------------
(* verify_chain_inner: one action per way through it, for the block at the *)
(* head of the queue.                                                      *)

\* The parent of x, unless it is known at the height below x, or at 0 below 0.
MissingParent(x) ==
  {prev[x]} \ {p \in stored : height[p] = IF height[x] = 0 THEN 0 ELSE height[x] - 1}

\* The parent, the uncles, and the parents of the uncles that are not known.  The
\* chain start is not checked for any.
MissingDeps(b) ==
  IF height[b] = 0 THEN {}
  ELSE MissingParent(b)
         \cup UNION {IF u \in stored THEN MissingParent(u) ELSE {u} : u \in uncles[b]}

Verifying(b) == ~panicked /\ next_level # <<>> /\ b = Head(next_level)

ReportMissing(b) ==
  /\ Verifying(b) /\ b \in stored /\ MissingDeps(b) # {}
  /\ Continue(b, FALSE, MissingDeps(b), ChildrenAndNephews(b))
  /\ UNCHANGED <<chain_vars, node_vars>>

\* A check fails, or the block was pruned while it was in the queue.
InvalidBlock(b) ==
  /\ Verifying(b)
  /\ b \notin stored \/ (MissingDeps(b) = {} /\ VerifyFails(b))
  /\ Abort /\ UNCHANGED <<chain_vars, node_vars>>

Checked(b) == Verifying(b) /\ b \in stored /\ MissingDeps(b) = {} /\ ~VerifyFails(b)

\* Mutant: the window is slid by the tip before this one, and nothing is pruned.
SetNewTip_old_tip(b) ==
  /\ verified' = [verified EXCEPT ![b] = VerifiedFlags(b)]
  /\ chain_block' = [chain_block EXCEPT ![height[b]] = b]
  /\ current_tip' = height[b]
  /\ lwma' = add_back(lwma, TipHash)
  /\ peak' = Max({peak, height[b]})
  /\ UNCHANGED stored

\* set_new_tip with its cleanup_chain: the lowest levels go until MaxLevels are left.
SetNewTip(b) ==
  LET levels   == {height[x] : x \in stored}
      keeps(h) == Cardinality({g \in levels : g >= h}) <= MaxLevels
      linked   == [chain_block EXCEPT ![height[b]] = b]
  IN /\ stored' = {x \in stored : keeps(height[x])}
     /\ verified' = [x \in Block |-> IF ~keeps(height[x]) THEN {}
                                     ELSE IF x = b THEN VerifiedFlags(b) ELSE verified[x]]
     /\ chain_block' = [h \in Heights |-> IF keeps(h) THEN linked[h] ELSE Zero]
     /\ current_tip' = height[b]
     /\ lwma' = add_back(lwma, b)
     /\ peak' = Max({peak, height[b]})

\* The chain start is taken as it is, with any parent and any target, and nothing
\* above it is looked at.
ChainStart(b) ==
  /\ Checked(b) /\ ~HasTip /\ height[b] = 0
  /\ SetNewTip(b)
  /\ Continue(b, TRUE, {}, {})
  /\ UNCHANGED node_vars

Candidate(b) == Checked(b) /\ ~(~HasTip /\ height[b] = 0)

NotYetVerified(b) ==
  /\ Candidate(b) /\ VerifiedFlags(b) # Flag
  /\ SetVerified(b)
  /\ Continue(b, FALSE, {}, {})
  /\ UNCHANGED <<stored, chain_block, current_tip, lwma, peak, node_vars>>

BuildsOnTip(b) == Candidate(b) /\ VerifiedFlags(b) = Flag /\ HasTip /\ prev[b] = TipHash

\* An uncle hangs off the main chain and is not part of it.
UnclesOffMainChain(b) ==
  \A u \in uncles[b] : /\ height[u] # 0 /\ chain_block[height[u] - 1] = prev[u]
                       /\ chain_block[height[u]] # u

RejectUncles(b) ==
  /\ BuildsOnTip(b) /\ ~UnclesOffMainChain(b)
  /\ SetVerified(b)
  /\ Abort /\ UNCHANGED <<stored, chain_block, current_tip, lwma, peak, node_vars>>

\* A block whose parent is the tip: neither its height nor its work is compared.
ExtendTip(b) ==
  /\ BuildsOnTip(b) /\ UnclesOffMainChain(b)
  /\ SetNewTip(b)
  /\ Continue(b, TRUE, {}, ChildrenAndNephews(b) \cap stored')
  /\ UNCHANGED node_vars

-----------------------------------------------------------------------------
(* A verified block that is not on the tip: is its chain known, verified   *)
(* and heavier?                                                            *)

OffTip(b) == Candidate(b) /\ VerifiedFlags(b) = Flag /\ ~(HasTip /\ prev[b] = TipHash)

\* The walk down from b goes past its i-th ancestor.
WalkGoesOn(b, i) ==
  /\ i < height[b]
  /\ anc[b][i + 1] \in stored /\ IsVerified(anc[b][i + 1])
  /\ i + 2 < ShareWindow
  /\ chain_block[height[b] - i] # anc[b][i]

\* The generation at which it stops.
WalkEnd(b) == Min({i \in 0 .. height[b] : ~WalkGoesOn(b, i)})

\* Mutant: once past the parent of b, the block it stops at only has to be known.
WalkComplete_known(b) ==
  LET i == WalkEnd(b)
  IN i < height[b] => anc[b][i + 1] \in stored /\ (i > 0 \/ IsVerified(anc[b][i + 1]))

\* The parent it stops at is known and verified, or the chain starts there.
WalkComplete(b) ==
  LET i == WalkEnd(b)
  IN i < height[b] => anc[b][i + 1] \in stored /\ IsVerified(anc[b][i + 1])

\* What is missing at an incomplete end: the parent, or what the parent lacks.
WalkMissing(b) ==
  LET p == anc[b][WalkEnd(b) + 1]
  IN IF p \notin stored THEN {p} ELSE MissingParent(p) \cup (uncles[p] \ stored)

ForkIncomplete(b) ==
  /\ OffTip(b) /\ ~WalkComplete(b)
  /\ SetVerified(b)
  /\ Continue(b, FALSE, WalkMissing(b), ChildrenAndNephews(b))
  /\ UNCHANGED <<stored, chain_block, current_tip, lwma, peak, node_vars>>

ForkNotHeavier(b) ==
  /\ OffTip(b) /\ WalkComplete(b) /\ total_pow[b] <= TipPow
  /\ SetVerified(b)
  /\ Continue(b, FALSE, {}, ChildrenAndNephews(b))
  /\ UNCHANGED <<stored, chain_block, current_tip, lwma, peak, node_vars>>

\* Mutant: the longer chain wins, not the heavier one.
Heavier_longer(b) == OffTip(b) /\ WalkComplete(b) /\ height[b] >= current_tip

Heavier(b) == OffTip(b) /\ WalkComplete(b) /\ total_pow[b] > TipPow

\* Mutant: relinking ends as soon as the LWMA is full.
Relinks_until_full(b, i) == LevelExists(height[b] - i) /\ i < LwmaSize

\* The relinking loop makes its i-th step down: the link differs or the LWMA
\* is not full, and neither the chain start nor the share window is reached.
Relinks(b, i) ==
  /\ LevelExists(height[b] - i)
  /\ chain_block[height[b] - i] # anc[b][i] \/ i < LwmaSize
  /\ i > 1 => i < ShareWindow

\* The steps it makes before it ends.
RelinkDepth(b) ==
  Min({i \in 0 .. height[b] : i = height[b] \/ ~Relinks(b, i + 1)})

Relinkable(b) == \A i \in 1 .. RelinkDepth(b) : anc[b][i] \in stored

\* Mutant: the links above the new tip are kept.
Reorg_links_kept(b) ==
  /\ Heavier(b) /\ height[b] # 0
  /\ panicked' = ~Relinkable(b)
  /\ LET low == height[b] - RelinkDepth(b)
     IN chain_block' = [h \in Heights |-> IF h \in low .. height[b] THEN anc[b][height[b] - h]
                                                                   ELSE chain_block[h]]
  /\ lwma' = WindowFrom(b, RelinkDepth(b) + 1)
  /\ current_tip' = height[b] /\ peak' = Max({peak, height[b]})
  /\ SetVerified(b)
  /\ Continue(b, TRUE, {}, ChildrenAndNephews(b))
  /\ UNCHANGED <<stored, loading, restarts, pow_kept>>

\* Relinkable fails where the code says "chain data is corrupted" and panics.
Reorg(b) ==
  /\ Heavier(b) /\ height[b] # 0
  /\ panicked' = ~Relinkable(b)
  /\ LET top   == height[b]
         depth == RelinkDepth(b)
         reset(h) == h > top /\ \A g \in (top + 1) .. h : LevelExists(g)
     IN /\ chain_block' = [h \in Heights |->
                             IF reset(h) THEN Zero
                             ELSE IF h <= top /\ h >= top - depth THEN anc[b][top - h]
                             ELSE chain_block[h]]
        /\ lwma' = WindowFrom(b, depth + 1)
        /\ current_tip' = top
        /\ peak' = Max({peak, top})
  /\ SetVerified(b)
  /\ Continue(b, TRUE, {}, ChildrenAndNephews(b))
  /\ UNCHANGED <<stored, loading, restarts, pow_kept>>

\* A heavier block of height 0: the parent it names is looked for at height 0 too.
\* If it is there it takes the link of its child, if not the node panics.
ReorgAtStart(b) ==
  /\ Heavier(b) /\ height[b] = 0
  /\ panicked' = ~AtStart(prev[b])
  /\ LET reset(h) == h > 0 /\ \A g \in 1 .. h : LevelExists(g)
     IN chain_block' = [h \in Heights |->
                          IF reset(h) THEN Zero
                          ELSE IF h = 0 THEN (IF AtStart(prev[b]) THEN prev[b] ELSE b)
                          ELSE chain_block[h]]
  /\ lwma' = IF AtStart(prev[b]) THEN <<prev[b], b>> ELSE <<b>>
  /\ current_tip' = 0
  /\ SetVerified(b)
  /\ Continue(b, TRUE, {}, ChildrenAndNephews(b))
  /\ UNCHANGED <<stored, peak, loading, restarts, pow_kept>>

\* The ways in which an iteration gives up a verified block that a change of the
\* chain may concern: an error or the limit of missing blocks ends the call
\* before its queue is empty, a block is turned away, or a child of the block was
\* looked at before it (as its uncle's nephew) or lies above a new chain start.
Skips(b) ==
  \/ next_level' = <<>> /\ Len(next_level) > 1
  \/ IsVerified(b) /\ MissingDeps(b) # {}
  \/ BuildsOnTip(b) /\ ~UnclesOffMainChain(b)
  \/ \E c \in stored : /\ prev[c] = b /\ height[c] # 0 /\ IsVerified(c)
                       /\ \/ Cardinality(missing_blocks') >= MAX_MISSING_PARENTS
                          \/ c \in processed
                          \/ ~HasTip /\ height[b] = 0

\* A block of height 0 becomes the tip although it names a parent or is not the
\* first one: nothing checks that the chain start has no parent.
Reroots(b) ==
  /\ height[b] = 0
  /\ \/ Checked(b) /\ ~HasTip /\ prev[b] # Zero
     \/ BuildsOnTip(b)
     \/ Heavier(b)

VerifyStep(b) ==
  /\ \/ ReportMissing(b) \/ InvalidBlock(b)
     \/ ChainStart(b) \/ NotYetVerified(b) \/ RejectUncles(b) \/ ExtendTip(b)
     \/ ForkIncomplete(b) \/ ForkNotHeavier(b) \/ Reorg(b) \/ ReorgAtStart(b)
  /\ skipped' = (skipped \/ Skips(b))
  /\ rerooted' = (rerooted \/ Reroots(b))

-----------------------------------------------------------------------------
(* Adding blocks.                                                          *)

Idle == next_level = <<>> /\ loading = {} /\ ~panicked

\* add_block_inner: the level takes the block, replacing flags it had.
AddBlock(b, flags) ==
  /\ stored' = stored \cup {b}
  /\ verified' = [verified EXCEPT ![b] = flags]
  /\ next_level' = <<b>> /\ processed' = {} /\ new_tip' = Zero /\ missing_blocks' = {}
  /\ UNCHANGED <<chain_block, current_tip, lwma, peak>>

\* The uncle rules of validate_block and add_block_to_chain.
UnclesAllowed(b) ==
  /\ Cardinality(uncles[b]) <= UNCLE_LIMIT
  /\ uncles[b] # {} => height[b] >= UNCLE_START_HEIGHT
  /\ \A u \in uncles[b] : height[u] + MAX_UNCLE_AGE >= height[b] /\ height[u] < height[b]
  /\ prev[b] \notin uncles[b]

\* submit_block_with_lock, for a block whose own proof of work is sufficient.
\* Where a guard fails the code returns before it changes anything.
submit_block(b, syncing) ==
  /\ Idle
  /\ ~IsVerified(b)
  /\ HasTip /\ ~syncing => height[b] + ShareWindow >= current_tip
  /\ height[b] <= current_tip + MaxAhead
  /\ UnclesAllowed(b)
  /\ TargetWindow(b) # NoWindow => TargetMatches(b)
  /\ AddBlock(b, {"difficulty"} \cup (IF TargetMatches(b) THEN {"target"} ELSE {}))
  /\ UNCHANGED <<node_vars, history>>

-----------------------------------------------------------------------------
(* Stop and restart (InMemoryShareChain::new, try_load): memory is lost,   *)
(* the cache directory becomes the backup, and its blocks are added to an  *)
(* empty chain by increasing height, with the flags they were stored with. *)
(* The backup of the start before is deleted first, so a stop inside a     *)
(* reload leaves only the blocks that were loaded by then.                 *)

\* try_load skips the other blocks.  A new protocol version or squad skips all of
\* them, like an earliest date later than every block.
Loadable(b, earliest_date) == "target" \in verified[b] /\ timestamp[b] >= earliest_date

\* None of the blocks the tip needs is skipped: those of its window are not too
\* old, and its uncles neither that nor stripped of their target flag (a stored
\* block that is submitted again after a reload without its ancestors loses it).
TipLoadable(earliest_date) ==
  HasTip => /\ \A i \in 0 .. Min({ShareWindow - 1, current_tip}) :
                 timestamp[anc[TipHash][i]] >= earliest_date
            /\ \A u \in uncles[TipHash] : Loadable(u, earliest_date)

Restart ==
  /\ restarts < MaxRestarts
  /\ restarts' = restarts + 1
  /\ \E earliest_date \in EarliestDates :
       /\ pow_kept' = IF TipLoadable(earliest_date) THEN TipPow ELSE 1
       /\ loading' = {<<b, verified[b]>> : b \in {x \in stored : Loadable(x, earliest_date)}}
  /\ stored' = {} /\ verified' = [b \in Block |-> {}]
  /\ chain_block' = [h \in Heights |-> Zero] /\ current_tip' = 0 /\ lwma' = <<>>
  /\ peak' = 0
  /\ Abort /\ panicked' = FALSE /\ skipped' = FALSE /\ UNCHANGED rerooted

\* Mutant: the blocks of the backup come in any order.
LoadBlock_unsorted(r) ==
  /\ r \in loading /\ next_level = <<>> /\ ~panicked
  /\ loading' = loading \ {r}
  /\ AddBlock(r[1], r[2])
  /\ UNCHANGED <<panicked, restarts, pow_kept, history>>

\* One block of try_load; an error of the call before it was only logged.
LoadBlock(r) ==
  /\ r \in loading /\ next_level = <<>> /\ ~panicked
  /\ \A q \in loading : height[r[1]] <= height[q[1]]
  /\ loading' = loading \ {r}
  /\ AddBlock(r[1], r[2])
  /\ UNCHANGED <<panicked, restarts, pow_kept, history>>

Next ==
  \/ \E b \in Block, syncing \in BOOLEAN : submit_block(b, syncing)
  \/ \E b \in Block : VerifyStep(b)
  \/ \E r \in loading : LoadBlock(r)
  \/ Restart

Spec == Init /\ [][Next]_vars
-----------------------------------------------------------------------------
(* Properties                                                              *)

\* The shape of the chain, of the running call and of the reload.
TypeOK ==
  /\ stored \subseteq Block
  /\ verified \in [Block -> SUBSET Flag]
  /\ chain_block \in [Heights -> Block \cup {Zero}]
  /\ current_tip \in Heights /\ peak \in Heights
  /\ lwma \in Seq(Block)
  /\ next_level \in Seq(Block) /\ processed \subseteq Block
  /\ new_tip \in Block \cup {Zero} /\ missing_blocks \subseteq Block \cup {Zero}
  /\ loading \subseteq Block \X SUBSET Flag
  /\ panicked \in BOOLEAN /\ restarts \in 0 .. MaxRestarts /\ pow_kept \in Nat
  /\ skipped \in BOOLEAN /\ rerooted \in BOOLEAN

\* The lowest height of the share window of the highest tip.
WindowBottom == IF peak < ShareWindow THEN 0 ELSE peak - ShareWindow + 1

\* From the tip down to the bottom of the window every level links to the parent
\* of the link above it, and every linked block is stored and fully verified.  A
\* reorganisation to a lower tip does not check the blocks it has to take
\* in at the bottom of the new tip's window (ShareWindowVerified), and a second
\* chain start is linked to nothing (rerooted).
MainChainSound ==
  HasTip /\ ~rerooted =>
    \A i \in 0 .. current_tip :
      current_tip - i >= WindowBottom =>
        LET a == anc[TipHash][i]
        IN a \in stored /\ IsVerified(a) /\ chain_block[current_tip - i] = a

\* No level above the tip keeps a main chain block of an abandoned fork, unless
\* the tip fell to a second chain start, which leaves all links above it.
NoLinkAboveTip ==
  HasTip /\ ~rerooted => \A h \in Heights : h > current_tip => chain_block[h] = Zero

\* The cached LWMA, slid by extensions and rebuilt by reorganisations and
\* reloads, is the one recomputed from the ancestors of the tip, unless the tip
\* has fallen so far that the window's bottom is less than an LWMA away, or a
\* second chain start was slid in on top of the blocks above it.
LwmaCoherent ==
  HasTip /\ ~rerooted /\ (WindowBottom = 0 \/ current_tip + 1 >= WindowBottom + LwmaSize)
    => lwma = WindowFrom(TipHash, LwmaSize)

\* Verified from b back to the chain start or through the share window.
VerifiedChain(b) ==
  \A i \in 0 .. Min({ShareWindow - 1, height[b]}) :
    anc[b][i] \in stored /\ IsVerified(anc[b][i])

\* The tip's accumulated difficulty never drops while the node runs, unless a
\* block of height 0 names the tip as its parent: it is taken without a look at
\* its work.
TipPowNeverDrops ==
  [][restarts' = restarts /\ ~rerooted' => TipPow' >= TipPow]_vars

\* Once reloaded, a node has a tip at least as heavy as the one it had when it was
\* last stopped, in a call or inside a reload ("Node will load up blocks from
\* storage on startup"), if the blocks of that tip were not skipped for their age.
\* The tip at a stop inside a reload is that of the blocks loaded by then.
ReloadKeepsTip ==
  Idle /\ ~rerooted => TipPow >= pow_kept

\* What the flags of a block say of it is true (the chain start has no median
\* timestamp and no shares to check).
FlagsTrue(b, flags) ==
  /\ "parents" \in flags => total_pow[b] = TotalWork(b)
  /\ "target" \in flags => b \notin BadTarget
  /\ "median" \in flags => height[b] = 0 \/ b \notin BadMedian
  /\ "shares" \in flags => height[b] = 0 \/ b \notin BadShares

\* Between two calls no stored and verified chain is heavier than the main
\* chain, whatever order its blocks came in and over however many calls they
\* were verified, unless verify_chain gave up a block (skipped) or a second chain
\* start became the tip (rerooted).
HeaviestChainWins ==
  Idle /\ ~skipped /\ ~rerooted => \A b \in stored : VerifiedChain(b) => total_pow[b] <= TipPow

\* Flags are never wrong, although they are set one by one, in several calls and
\* for blocks in any order, survive on disk and are reloaded without a check.
FlagsSound ==
  /\ \A b \in Block : FlagsTrue(b, verified[b])
  /\ \A r \in loading : FlagsTrue(r[1], r[2])

\* A block that fails any check is never linked in the window below the tip,
\* although flags are set one by one, over several calls, and kept.  A chain start
\* that names a parent is linked without a check of its target (rerooted).
NoBadBlockOnMainChain ==
  HasTip /\ ~rerooted => \A i \in 0 .. current_tip :
              current_tip - i >= WindowBottom => FlagsTrue(anc[TipHash][i], Flag)

\* A reorganisation to a new highest tip never meets a level without the block
\* it looks for, where the code takes the chain data to be corrupted, unless the
\* chain has two starts (rerooted).
NoPanic == panicked => current_tip < peak \/ rerooted

-----------------------------------------------------------------------------
(* What comments in the code say, and the code does not do.                *)

\* "Parent block is not verified" (assert_share_window_verified panics): the
\* known parents of the tip through the share window are verified.
ShareWindowVerified ==
  HasTip => \A i \in 0 .. Min({ShareWindow - 1, current_tip}) :
              (\A j \in 0 .. i : anc[TipHash][j] \in stored) => IsVerified(anc[TipHash][i])

\* "add_block_to_chain(blocks[25]) ... assert_eq!(chain.current_tip, 49)" (test
\* add_blocks_missing_block): when the block that was missing arrives, the chain
\* of verified blocks that waited for it is taken, if it is the heaviest.
WaitingChainTaken ==
  Idle => \A b \in stored : VerifiedChain(b) => total_pow[b] <= TipPow
=============================================================================
