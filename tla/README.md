# Verification of the p2pool share chain

TLA+ models of the parts of sha-p2pool that carry its own logic: the share chain
with its reorganisations and its reload, the block storage below it, the peer store
and the connections it steers, the two ways a node gets blocks from its peers, the
server miners talk to, and diagnostic mode. TLC checks the models on small instances;
TLAPS proves the facts listed under *Proofs* for every value of the
constants. `PROJECT.json` maps every definition to the lines it models. Paths below
are relative to `src/p2pool/src/`.

## Inventory

| part | state | operations | hard behaviour | what makes it correct |
|---|---|---|---|---|
| share chain, `sharechain/p2chain.rs`, `p2chain_level.rs` | levels of blocks, the main chain link of each level, the tip, the LWMA window, verification flags, LMDB cache | add a block, verify it and all that waited for it, extend, reorganise, prune, reload | blocks come in any order; flags are set piecemeal over many calls; relinking is bounded by the share window; stops at any point | the links of the share window are a verified chain, the heaviest verified chain wins, caches agree with the chain, a restart loses no work |
| its front, `sharechain/in_memory.rs` | the lock around the chain, cached shares, backups | `submit_block`, `add_synced_blocks`, `request_sync`, `get_blocks`, template generation | locks dropped and retaken | results match the chain they are about |
| peer store, `server/p2p/peer_store.rs` | white, grey, black and non-squad lists | announcements, pings, failures, bans, timers | long mixtures of events | lists are consistent, bans last, unreliable peers are not trusted |
| catch-up sync, `server/p2p/network.rs` | permits, requests in progress, saved progress, recent tips | metadata, request, response task, continuation, failure | tasks beside the main loop, timeouts, bans | permits neither leak nor multiply, the node syncs |
| gossip and missing block sync, `server/p2p/network.rs` | the channel of inner requests, requests with depth | new block, ask peers, add, follow up | overlapping syncs, peers that lack or replace blocks | syncs end and leave no gap |
| mining server, `server/grpc/p2pool.rs` | template store and list, difficulty cache, lock of the largest difficulty | `get_new_block`, `submit_block` | awaits between reads of the chain, timeouts | templates are right, submissions are not locked out |
| block storage, `sharechain/lmdb_block_storage.rs` | the LMDB map and its size | insert with retries, delete, read | a full map, transactions of readers, stops anywhere | every header in memory is backed by its block |
| connections and peer exchange, `server/p2p/network.rs` | connections, dials, exchanges under way | connect, identify, exchange, seek, churn, list timers | answers about a state that has moved on, seeds left in the middle of an exchange | exchanges come to rest, no known peer is given up |
| relay store, `server/p2p/relay_store.rs` | possible relays, reservations | reserve, renew, confirm | renewals race the end of a reservation | renewals are asked for in time |
| diagnostics, `server/diagnostics/diagnostics_collector.rs`, the diagnostic loop of `network.rs` | state of the loop, five maps of peers | dial, ask, report, collect | a lossy channel, types of peers that change, two tasks that stop at different times | a peer is counted once, facts are kept, the measurement ends |
| statistics, HTTP, configuration, message encoding, base node proxy | counters, files | display, forwarding, wiring | | not modelled, see the end |

Interaction: the main loop of `network.rs` owns the swarm and a channel of inner
requests and handles one event or request at a time. Response tasks run beside it and
send it requests. It calls the share chain, whose lock serialises additions, and the
peer store. The gRPC server calls the same share chain from its own tasks and sends
blocks to broadcast through the main loop.

## Modules

* **P2Chain** models one share chain. `submit_block` is `submit_block_with_lock`
  with its guards; `AddBlock` is `add_block_inner`; `VerifyStep` is one iteration of
  `verify_chain`, with one action per way through `verify_chain_inner`
  (`ReportMissing`, `InvalidBlock`, `ChainStart`, `NotYetVerified`, `RejectUncles`,
  `ExtendTip`, `ForkIncomplete`, `ForkNotHeavier`, `Reorg`, `ReorgAtStart`). `SetNewTip`
  includes `cleanup_chain`. `Restart` and `LoadBlock` are the stop and `try_load`:
  `Loadable` is its filter by target flag and by age, and an earliest date later than
  every block stands for a new protocol version or squad; the backup that a stopped
  reload was reading is lost, as in the code. What a
  block says of itself (height, parent, uncles, target, accumulated work) and whether
  its target, timestamp and coinbase split are honest are constants. A check whose
  inputs are not stored yet leaves its flag unset, as in the code. The LWMA is
  external; it is represented by the blocks it holds, so a wrong target never matches a
  stale window by chance. A block is its hash: the code takes the hash a peer sends along
  with a block and never recomputes it, and two blocks under one hash are left out. A
  block above height 0 whose parent is not one level below it is left out too: its parent
  is looked for there, never found, and the block waits. `peak` is a history variable, the
  highest tip since the node started: properties of the share window are stated down to
  `WindowBottom`, the bottom of the window of that tip, because a reorganisation to a
  lower tip does not look further down (run `chain_window`). `skipped` is another: it
  notes that a call gave up a verified block (`Skips`), after which a heavier chain may
  be left out until the node restarts. `rerooted` is the third: nothing checks that a block
  of height 0 has no parent, and such a block can become a second chain start on top of
  the tip, as a fork, or as the first block (`Reroots`); the properties of the main chain
  hold until then.
* **PeerStore** models the four lists and every operation that moves a peer.
  Records keep what the operations read: the count of greylistings and catch-up
  attempts, not timestamps or addresses.
* **CatchUpSync** models the catch-up sync of one algorithm. `HandleInnerRequest`
  takes the head of the channel; `ErrorResponse`, `EmptyResponse`, `BlocksResponse`
  and `OutboundFailure` are the ends of a request; `TaskSend`, `TaskRecord`,
  `TaskContinue` and `TaskEnd` are the awaits of the response task. The chain is one
  line of blocks, identified by height, and its peers are on it.
* **MissingBlocksSync** models gossip of a new block (`NewBlock`) and the sync of
  what it misses (`NothingToAsk`, `AskPeers`, `AddSyncedBlock`, `DropBlock`,
  `BanSource`, `Response`, `Failure`). The share chain appears as the set of stored
  blocks; `Reports` and `AdditionFails` state what `add_synced_blocks` may return. They
  are looser than P2Chain: which missing blocks of related stored blocks are reported
  along with the block's own is left open, and so is which unverified blocks fail, for
  besides a bad block (`FailsCheck`, which does fail) a good one may be turned away: its
  timestamp is ahead of our clock, our LWMA is stale, a block of the queue was pruned, or
  an uncle is not off our main chain. Who sent it is then banned, or greylisted if it was
  gossiped. MAX_MISSING_PARENTS (10) is not reached.
  The history variable `disturbed` notes after what nobody promises that a block comes (a
  failed request, a failed addition, a ban, an answer without the block), `cut` that the depth limit has
  ended a sync with blocks still missing.
* **MiningServer** models concurrent gRPC calls, cut at every await. A tip is a
  number in the order of tips; the shares of a template are named by the block they
  were calculated for, which is what the coinbase split depends on.

* **LmdbBlockStorage** models the storage of one chain and the headers the levels
  keep of it. An insert is a series of attempts (`BeginAttempt`, `Put` or `PutFails`,
  `Commit` or `CommitFails`); an attempt that met a full map makes the next one double
  it first. `Delete` and `CommitDelete` are the two ends of a delete, whose commit may
  fail. Writers hold the write lock of the chain and readers its read lock, which is
  where the exclusion of `HasWriteLock` and `BeginRead` comes from; the lock inside the
  storage is only ever taken for reading. LMDB is external: what it promises is that a
  commit is atomic, that a map has a size, and that a missing key is an error.
* **BlockCache** is the trait as its users see it, every call one step.
  `LmdbBlockStorage` implements it (`IsBlockCache`).
* **PeerLists** says only which list a peer is on and how it moves; what a peer is
  banned for is left open. `PeerStore` implements it (`ImplementsPeerLists`), with the
  domains of its maps as the lists.
* **PeerNetwork** builds on PeerLists: the connection events of the swarm, identification,
  pings, announcements, the direct peer exchange with its follow-ups, the timers that
  seek and churn connections, and the relay job. It is a node that is not a seed
  itself. An answer of the exchange names one peer at most, and is that of an honest
  peer: it names only peers that the request did not list. The clock is counted in runs
  of the relay job. `no_address` holds the records without a public address, which the
  peer store never picks to dial (`ToDial`): an announcement comes with one or without,
  replaces the record of a whitelisted or non-squad peer and leaves that of a greylisted
  or banned one as it was (`Replaces`); private addresses count as none. The id of a
  request tells a follow-up from the equal request it follows; the throttle of dials is the parameter `rested`; what autonat says
  is a parameter of every run of the relay job. What follows from a peer with more
  proof of work is CatchUpSync.
* **Diagnostics** models the diagnostic loop and the collector. The loop reports over a
  broadcast channel that drops its oldest report when it is full, and waits for the
  collector's answers, during which it handles nothing else. Time is counted in ticks
  of the loop. No reservation is asked for in diagnostic mode, so no peer counts as a
  relay to dial.

`MC*` modules give the constants values; those of the chains have a drawing of their
block tree.

## Runs

| run | instance | shows |
|---|---|---|
| `peer_store` | two peers and a seed, limit 2 | `ListsDisjoint`, `GreyListingsBounded`, `BansOnlyExpire`, `PeersNeverForgotten`, `SeedsForgiven`, and the refinement `ImplementsPeerLists` |
| `chain_forks` | two forks from height 2, an uncle, blocks that lie about uncles, work, target, time or split, one of height 0 that names block 2 as its parent, window 4, blocks up to two levels ahead | `NoLinkAboveTip`, `HeaviestChainWins`, `FlagsSound`, `NoBadBlockOnMainChain`, `TipPowNeverDrops` |
| `chain_reload` | chain of 7 levels, fork longer than the window of 4, 6 levels kept, a block of height 0 that names block 1, blocks one level ahead, an earliest date that may skip the chain start, two stops | `MainChainSound`, `LwmaCoherent`, `NoPanic`, `ReloadKeepsTip` |
| `catch_up` | two peers, one faulty, one permit, tips up to 3 | `PermitOwnedOnce`, `ContinuationUndisturbed`, `PermitsReturn` |
| `missing_blocks` | two gossiped blocks, one possibly bad, any unverified block turned away, a full peer and one with only the top of its chain, two rounds | `GapsFilled`, `OneGapFilled`, `SyncsEnd` |
| `mining` | two calls, two tips, two templates, list of one | `TemplatePaysItsParent`, `DifficultyKnown`, `LockComesBack` |
| `peer_network` | a seed and a peer that changes squads, may relay and is announced with or without an address, two exchanges at once, reservations of two ticks | `ReservationsRenewed`, `ExchangesSettle`, `KnownPeersDialed` |
| `storage` | two small blocks and one larger than a new map, two versions of each, a reader, four attempts | `HeadersBacked`, `ResizeAlone`, and the refinement `IsBlockCache` |
| `diagnostics` | a seed and a peer, a channel of two reports, four swarm events, answers that name one peer | `OneCategory`, `ResponsesConnected`, `SeedsAnswered`, `FactsKept`, `DiagnosticEnds` |
| `chain_window` | violation | after a reorganisation to a heavier but lower fork, the share window of the new tip holds a block that was never verified |
| `chain_nephew` | violation | a block that waited is looked at as the nephew of its uncle before its parent is verified, and not again when the parent becomes the tip: a stored, verified, heavier block is left out |
| `catch_up_new_node` | violation | a new node can ban its only honest peer again and again |

`peer_store`, `chain_forks`, `peer_network` and `storage` also check the type invariant
of their module; those of the other modules are proved. `peer_store`, `peer_network` and `storage` check deadlock as well: timers,
readers and restarts are always possible there. The other runs set `CHECK_DEADLOCK
FALSE`, because a chain that has all its blocks, a sync that is done or a measurement
that ended rests, and the bounds stop counters.

**Bounds.** `MaxHeight` and the block sets: the share window of the instances is 4, so a
fork of four to six blocks passes below it, and LWMA and median windows of 2
slide several times. The uncle age is that of the code, 3: a block
with an uncle two levels below it is queued ahead of its parent (`chain_nephew`).
`MaxAhead` bounds how far above the tip blocks arrive: two levels let blocks wait
for several others, one is enough in `chain_reload` for a fork whose first block comes late
or never. `MaxRestarts` bounds the stops; two let a stop fall into a reload. `MaxLevels` is
6 in `chain_reload`, with 7 levels of blocks: the chain start is pruned, and what follows
is verified and reloaded without it; in `chain_forks` nothing is pruned. The instances
reach `rerooted`: without that hypothesis TLC finds `NoLinkAboveTip`, `HeaviestChainWins`
and `TipPowNeverDrops` violated on the first and `MainChainSound`, `LwmaCoherent`,
`NoPanic` and `ReloadKeepsTip` on the second. `NoBadBlockOnMainChain` holds on the first
even without it, and the panic below the peak that `NoPanic` leaves out is reached on
neither. `MaxTip`, `MaxQueue`, `MaxNotifies` and
`MaxTemplates` bound environments that only add more of the same. The depth limit of
missing block sync is 3 instead of 8: exactly the two rounds that the deepest gap of
the instance needs, so that a follow-up, its end and the limit are all met; no block of
it is old enough for `KeepDepth` to leave it out, which the proofs cover. `MaxExchanges` of 2 lets a follow-up overlap with
a new exchange. `MAX_OUTBOUND_SQUAD_PEERS` of 3 leaves room for every peer of the
instance, which `KnownPeersDialed` needs: a node with enough squad connections dials
nobody; the instance still makes the churn trim connections. `LeaseTicks` of 2 lets a
reservation be renewed, be due and run out. That a lease spans the renewal window
(`LeaseTicks` at least `RenewTicks`) is assumed: the relays of this repository keep the
default limits of libp2p (`server/p2p/setup.rs:132`), a foreign relay may grant less, and
`confirm_reservation` takes what it grants. `Attempts` is 4 instead of 10, with a block
that needs several doublings, so that an insert uses its last attempts; the assumption
`StorageAssumption` says that the blocks a node keeps fit after the last doubling.
`Capacity` 2 with `MaxEvents` 4 lets the channel lose reports; `MaxNamed` is 1.

**Fairness.** CatchUpSync and MissingBlocksSync: weak fairness of the main loop
(tokio polls it), of response tasks, and of the end of every request (libp2p times a
request out). MiningServer: only the timeout of each call. `catch_up_new_node` adds
that peers stay reachable: metadata keeps coming, timers fire, a peer asked again and
again answers; its violation does not come from a peer that stays silent. PeerNetwork:
every exchange ends (libp2p times it out), and the timers of the lists and of seeking
connections go off again and again, at some time when no peer was dialed in the last
two minutes; nothing is assumed of the peers. `PermitsReturn` holds whatever the peers do
within the model: their tips grow up to `MaxTip` and messages carry no forged fields. Diagnostics: weak fairness of the loop's
timer and of the answers it waits for (a collector that is gone answers with an error),
strong fairness of the shutdown signal, because the `select!` is not biased and picks
among what is ready at random, and no fairness of peers or of the collector. P2Chain,
PeerStore and LmdbBlockStorage have safety properties only.

## Proofs

Eight modules hold the proofs, one per component. Every theorem holds for every value of
the constants that meets the named assumptions of its module, which TLC evaluates on the
instances. An invariant that a run checks is seldom inductive; what has to be added is
said for each.

* **PeerStoreProofs**: `TypeCorrect`, `Disjointness`, `GreyListingBound`,
  `BanExpiry`, `Remembering`, for any set of peers, seeds and limit. The inductive
  invariant `IInv` joins the type invariant, disjointness and the bound: a move
  between lists keeps a bound only for records of the right shape, and keeps
  disjointness only because it leaves the source list. `BanExpiry` and `Remembering`
  are action properties, by cases on the operations. `SeedForgiveness` holds for limits
  above one: a ping sets the count to zero, and the greylist timer forgets a seed
  together with its count. `Refinement` shows that the store implements PeerLists under the mapping
  that takes each map to its domain: every operation is one abstract operation or leaves
  the lists alone. The abstract `ClearGrey` may ban anybody; the witness for a concrete
  one is the set of peers at the limit. It needs `IInv`, because a move is an abstract
  one only if the record it carries is there.
* **P2ChainProofs**: `FlagSoundness` and `ChainTypeCorrectness` hold for every tree of
  blocks, order of arrival, window, level limit and number of restarts. For the flags the
  invariant has to include the backup, because a reload copies flags without checking; the
  heart is `VerifiedFlagsTrue`: a flag `verify_block` adds is one whose check was possible
  and did not fail.
  `WindowSoundness`, `NoStaleLinks`, `NoBadBlocks`, `NoPanicAtPeak`, `LwmaCoherence` and
  `TipPowMonotone` rest on the inductive invariant `ChainInv`: heights and links agree and
  none is above the tip (`LinkHeights`), the window is sound, the cached LWMA is a tail of
  the main chain (`LwmaIsTail`: a coherent one alone does not tell what sliding it gives), a
  chain without a tip is empty (`NoTipYet`), a block of height 0 has no uncles
  (`StartsPlain`), and what is reloaded is not stored yet (`LoadingFresh`). No assumption
  keeps a block of height 0 from naming a parent; the invariant holds until such a block
  becomes the tip (`ChainInvariance`: `rerooted \/ ChainInv`), and `NotRerooting` says
  which ways through `verify_chain_inner` are then left for height 0. The argument for a reorganisation: its walk goes down to a block that is
  linked already, from where the old window takes over, or to the bottom of the window, and
  everything it passed was stored and verified (`SoundBelow`). Two hypotheses are stated in
  these theorems because the code does not enforce them: `Room`, the levels above the tip
  and a share window fit into the levels that are kept, and `ShallowReorgs`, no
  reorganisation goes a whole share window below the highest tip. Without the first,
  pruning takes blocks of the window; without the second, nothing below the fork was
  checked. With the default window of 1000 blocks both are met unless hundreds of levels
  arrive above the tip or a fork outweighs a chain that is a whole window longer. Given to
  TLC as invariants (no run of the project repeats that), both hold in every state of
  `chain_forks`, and the second in every state of `chain_reload`; there the first fails
  only after a restart that found no chain start, pruned before or too old, so that
  everything reloaded lies above the tip.
  `HeaviestChain` needs what holds while a call runs (`HeavyPending`): a verified chain
  heavier than the tip has a block in the queue of `verify_chain`, unless a call gave one
  up. In an iteration for the block x, take a chain that is verified and heavier after
  it. With x in its window, the child of x in the chain is verified and queued
  (`ChildQueued`), or x is the chain's own head, whose walk is then complete, and is made
  tip or is not heavier (`HeadDecided`). With x elsewhere the chain was verified and
  heavier before, and what it has in the queue stays there (`QueueKept`). The history
  variable `skipped` names the exceptions one by one (`Skips`): the limit of missing
  blocks or an error ends a call early, a chain start does not lead on, a verified block
  lacks an uncle's parent or is turned away for its uncles, and the nephew of
  `chain_nephew`. Each is a way through the code; it is reset by a restart only, so the
  theorem says nothing after the first of them. `chain_forks` and `chain_reload` reach
  states with and without it.
  `ReloadedTip` speaks of the tip at the last stop, in a call or inside a reload, and of
  reloads that skip nothing this tip needs (`TipLoadable`, which sets `pow_kept`): after a
  stop inside a reload that is the tip loaded by then, and what the removed backup held
  beyond it is lost. It has a third hypothesis, `StopsSettled`: at every stop, one inside
  a reload included, the window of the tip is verified and the uncles of the tip hang
  off it. An extension checks
  this of the uncles, a reorganisation does not, and a block that was adopted that way is
  turned away by the reload. The invariant `ReloadInv` follows the old tip through the
  reload: until its turn its window and uncles are in the backup or already there
  (`Pending`), and nothing above it is loaded, so pruning takes none of them
  (`StepKeeps`); when its turn comes everything below it is there, no rule turns it away
  (`TipTurn`), and `HeadDecided` ends the argument. Until a second
  chain start is the tip, TLC finds the hypothesis and the invariant true on the instance
  of `chain_reload`, and `HeavyPending` and `ChainInv` on both (given to it as invariants;
  no run of the project repeats that).
  `UncleWorkAssumption` says that the sum of the uncles' targets is a number (a fold is
  beyond the provers), `AncestorAssumption` that `anc` unfolds `prev`.

* **MiningServerProofs**: `TemplatesPay` and `DifficultyIsKnown`, for any number of
  concurrent calls, tips, templates and heights. Neither property is inductive: both
  speak of templates in the store, and what gets there was read by a call several
  steps before. `IInv` therefore says of every call, by its place in `get_new_block`,
  what it already knows (`CallRight`): past the calculation, the shares of its parent
  or none; past the base node, a height whose difficulty is cached. And it says that
  the cached shares are those of the block they are cached for (`CacheRight`), which
  survives because the cache is only filled under the write lock and only when the
  parent still is the tip. The lemma `CallMoves` covers the steps that only move a
  call; `LeastIsMember` gives a new template its name.

* **CatchUpSyncProofs**: `SyncTypeCorrectness`, `PermitsOwned` and, for one concurrent sync
  (`OnePermit`, the default of `num_concurrent_syncs`), `ContinuationsUndisturbed`. That a
  permit has one owner is inductive only together with the uniqueness of every holder by
  itself (`PermitInv`: requests, tasks and queued messages each hold a permit once, and no
  two kinds hold the same one). For the saved progress the invariant adds who may have
  saved it while the permit is out (`ProgressInv`). `SyncTypeCorrectness` includes that a
  task has at least one block to send and only blocks of its peer's chain (`TasksOnChain`):
  what a peer answers starts above the highest block both sides have (`ReturnedTypes`), and
  chains only grow; the greatest element of a finite set comes from a least counterexample in `WellFoundedInduction`.
* **LmdbBlockStorageProofs**: `StorageTypeCorrectness`, `EveryHeaderBacked`, `ResizesAlone`
  and the refinement `ImplementsBlockCache`. The invariant `StorageInv` says which
  transactions belong to which call (`TxnsOwned`), how much the map has grown by the
  current attempt of an insert (`MapGrown`), and what is on disk while a header waits for
  it (`Backed`). The key lemma is `NeverExhausted`: an insert whose every attempt met a
  full map has doubled it so often that it cannot be full. It rests on `StorageAssumption`,
  the blocks of a node fit in a map doubled nine times; `Space`, the room a set of blocks
  takes, need only be monotone. `DoublingAssumption` restates what powers of two are.
  Every concrete step is one step of BlockCache or none: an insert takes effect at its
  commit.
* **MissingBlocksSyncProofs**: `DepthsBounded`, no request and no follow-up is deeper than
  the limit, and `GapsAreFilled`. Who is banned is not a property: any addition may be an
  error and any sender may meet it. `GapsAreFilled` has one hypothesis, `FullPeer`: some peer stores all
  that any block misses and is not too far behind to be asked (other peers may store and
  answer anything). Its invariant `GapInv` is an account of what is owed: each parent that
  a stored block misses is named by a message in the channel, or by a request that has to
  be answered with it, one to the full peer or one of a later round, whose peer sent the
  block that names the parent. That several syncs leave out what is stored keeps the
  account balanced because a block is reported with its own missing parents whenever it is
  stored. With the channel and the requests empty nothing is owed, so the stored blocks
  are closed under parents, and a least counterexample shows that each has its whole past.
  `PastAssumption` restates the recursive definition of `Past`, which this prover cannot
  derive.
* **PeerNetworkProofs**: `NetTypeCorrectness` (exchanges and circuits are with connected
  peers, no seed is a relay) and `RenewalsInTime`. The second needs of a reservation that is
  about to end that the job has asked for its renewal before (`RenewalsAsked`), which holds
  because the window of renewal is at least two periods of the job (60 and 30 seconds).
* **DiagnosticsProofs**: `OneCategoryHolds`, `FactsAreKept`, `AnswersConnected` and
  `SeedsAnswerFirst`, for any peers, time limits and channel capacity. `ReportHandled` says
  what a report does to the maps: it moves the only entry of its peer to the reported type.
  `ChannelSteps` reduces every step to four things that can happen to the channel.
  For `AnswersConnected` the invariant `HonestInv` speaks of the reports on their way: a
  request follows the connection of its peer, in the channel or already noted, as long as
  nothing was lost. For `SeedsAnswerFirst` the invariant `SeedInv` orders the channel:
  once a report calls a seed a seed, all later reports do, so a seed never leaves its map.
  `LoopInv` adds that the loop only waits for seeds it knows.

Only model-checked: `OneGapFilled` (that a single sync, asked of several peers, is never
deeper than the levels of the gap needs the lengths of all paths through the blocks), and
all liveness: `PermitsReturn`, `SyncsEnd`,
`LockComesBack`, `ExchangesSettle`, `KnownPeersDialed`, `DiagnosticEnds`. Liveness under
fairness, `ENABLED`, and the unfolding of folds and recursive functions for every input are
out of this prover's reach; facts about finite sets and sequences are proved by least
counterexamples where they are needed.

## Seen while modelling, without a run

* `PeerStore::set_last_ping` and `clear_black_list` whitelist seed peers, although
  "Don't put seed peers in the whitelist" (`peer_store.rs:401`).
* When the chain start arrives after its children, `verify_chain_inner` returns no
  blocks to look at again (`p2chain.rs:437`), so they wait until something else arrives.
* A block that fails verification stays stored (`p2chain.rs:389` says "we should
  delete it"), and can never be replaced.
* A reorganisation to a fork that is heavier but lower than the tip makes blocks part of
  the share window that were never verified, and may keep a link of another fork at the
  bottom of the window; a later reorganisation there can run into the "chain data is
  corrupted" panic, and the LWMA is rebuilt from fewer blocks (`p2chain.rs:524`; the first
  is run `chain_window`, the rest is why `NoPanic` and `LwmaCoherent` speak of `peak`).
* A block that fails a check ends `verify_chain` with the rest of its queue, so a
  heavier chain that waited there is adopted only when something else arrives
  (`HeaviestChainWins` excludes it with `skipped`).
* A block that is not on the tip has no uncle checked (`p2chain.rs:476`), so a
  reorganisation can adopt a block whose uncle is one of its own ancestors, although
  "Uncles should never exist in the main chain" (`in_memory.rs:447`).
* `cleanup_chain` counts levels above the tip; enough of them push out the share window.
* With `num_concurrent_syncs` above one a continuation can consume the saved progress
  of another sync (`network.rs:2346`, "This should not happen").
* The depth of missing block sync grows by two per round: the limit 8 gives four rounds.
* Two syncs that overlap at the depth limit can leave a gap that each alone would fill: the
  deeper one stores the block the other waits for and is cut off, and the other, which finds
  it stored, asks for nothing more (`network.rs:1382`). It takes three rounds; TLC found it
  with a longer chain than that of `missing_blocks`. `GapsFilled` excludes it with `cut`.
* `send_miner_block_rejected` and `send_pool_block_rejected` broadcast the *accepted*
  events (`server/http/stats_collector.rs:410`).
* The target of a block of height 1 beside the main chain is never calculated
  (the walk at `p2chain.rs:1049` goes on to the parent of the chain start and gives up),
  so it is never verified.
* A block that waited for an uncle of the greatest allowed age is not looked at again
  when the uncle comes: the range of heights ends one too early (`p2chain.rs:655`).
* `add_synced_blocks` verifies what waited for the blocks it adds, so the peer that sent
  a good block is banned for a bad one that somebody else sent before (`network.rs:2651`).
  So is an honest peer whose block is ahead of our clock, meets a stale LWMA, was pruned
  while it was queued, or has an uncle whose parent is not on our main chain.
* A block of height 0 that names the tip as its parent passes every check and extends the
  tip (`p2chain.rs:443`): the tip drops to height 0 and to that block's work, all links
  above it stay, and the LWMA is slid by it. When it is the first block it is taken with
  any parent and any target ("special edge case for start, there is no parent",
  `p2chain.rs:769`). As a heavier fork it makes relinking look for its parent at height 0
  and panic without it (`ReorgAtStart`). On a chain that has pruned its start,
  `set_new_tip(0)` prunes level 0 itself, and the tip is gone.
* A stop inside a reload loses what was not reloaded yet: the next start removes the backup
  it was reading and takes the half-filled cache for it (`in_memory.rs:99`).
* A block that is submitted again after a reload, when its ancestors are not stored, loses
  its target flag and is skipped by the next reload (`p2chain.rs:239`); an uncle of the tip
  that lost it keeps the tip from coming back (`TipLoadable`).
* A squad peer without a public address is listed and never dialed; one that was
  greylisted or banned before it announced an address is not until it is whitelisted again
  and announces itself once more, since its record was not replaced (`peer_store.rs:245`, `peer_store.rs:348`).
* A failed ping restores a greylisted peer just as a good one does: the event is handled
  before its result is looked at (`network.rs:1937`).
* `dialed_seed_peers` keeps a seed whose connection closed before it answered. When
  that seed connects to us later, it is disconnected after its first answer.
* The follow-up of an exchange with a dialed seed is sent and at once cut off by the
  disconnect, so a seed answers once per dial.
* Seeds are dialed at the start only. A node that reached no seed then, and is told of no
  peers, stays alone.
* Seeking connections dials one more squad peer than it has room for, and the churn
  disconnects squad peers whether they are our relays or not.
* Expired reservations are renewed for ever and never removed; and only the first three
  addresses of possible relays, in the order of a hash map, are ever tried.
* The tenth failed attempt to insert a block returns as if it had succeeded; a header
  without its block would follow. `StorageAssumption` keeps this out of the model.
* In diagnostic mode the states for relays have nobody to dial. `Done` may run again
  after it triggered the shutdown and then overwrites the report, with empty maps if
  the collector has stopped; and a peer may be listed twice, since the three maps are
  read one after the other.
* The template store is never pruned: only the list of hashes is (`p2pool.rs:454`).

## Not modelled

Cryptographic verification of proof of work (a block's own difficulty is taken as
checked) and encoding of messages. The base node proxy forwards calls and keeps no
state. Statistics, their HTTP handlers, configuration, the command line and the set-up
of the swarm display, parse or wire; nothing of the above depends on them. Of the
modelled parts: the choice of uncles in `generate_new_tip_block`, the cache of
`get_tip_info`, the ordering heuristics of the peer store, which only read (PeerNetwork
lets them choose anybody), the configuration of a node as a seed, and the migration of
an older block store, which runs once before `Init`. libp2p, LMDB and the LWMA are
external and appear as what the code relies on.

## Plan

To prove: `OneGapFilled`, and the hypothesis `StopsSettled` for chains without
reorganisations. To model: the choice of
uncles against the rules `verify_chain_inner` enforces, and P2Chain composed with
CatchUpSync, a tree in place of its line of blocks.
