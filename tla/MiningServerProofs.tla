------------------------- MODULE MiningServerProofs -------------------------
(***************************************************************************)
(* Proofs about MiningServer, for any number of concurrent calls, tips and *)
(* templates: every template a miner gets pays the shares of its parent,   *)
(* and the network difficulty it will be compared with is known.           *)
(***************************************************************************)
EXTENDS MiningServer, WellFoundedInduction, TLAPS

Call == [pc : {"idle", "tip", "shares", "clear", "calculate", "template", "list", "store",
               "wait", "base", "share"},
         synced : BOOLEAN, prev : Tip, shares : Shares, template : Template \cup {0},
         height : 0 .. MaxHeight, matches : BOOLEAN]

Shape ==
  /\ tip \in Tip /\ synced \in BOOLEAN
  /\ cached \in [at_hash : Tip, shares : Shares]
  /\ difficulty \in [1 .. MaxHeight -> 0 .. MaxDifficulty]
  /\ store \in [Template -> [prev : Tip, shares : Shares, height : 0 .. MaxHeight]]
  /\ issued \subseteq Template
  /\ call \in [Miner -> Call]

\* The cached shares are those of the block they are cached for.
CacheRight == cached = NoShares \/ cached.shares = cached.at_hash

\* What is right about a call: past the calculation it has the shares of its parent,
\* or none for solo mining; with a template from the base node it knows the
\* difficulty of its height; and what it stores has a name.
CallRight(c) ==
  /\ c.pc \in {"tip", "shares", "clear", "calculate"} => c.shares = Solo
  /\ c.pc \in {"template", "list", "store"} => c.shares \in {c.prev, Solo}
  /\ c.pc \in {"list", "store"} => c.height \in 1 .. MaxHeight /\ difficulty[c.height] # 0
  /\ c.pc = "store" => c.template \in Template

\* A template a miner has knows the difficulty it will be compared with.
TemplateRight(t) ==
  /\ store[t].shares \in {store[t].prev, Solo}
  /\ store[t].height \in 1 .. MaxHeight /\ difficulty[store[t].height] # 0

IInv ==
  /\ Shape /\ CacheRight
  /\ \A m \in Miner : CallRight(call[m])
  /\ \A t \in issued : TemplateRight(t)

\* A call that has returned has nothing to be right about.
LEMMA IdleCall == Idle \in Call /\ Idle.pc = "idle"
  BY MiningAssumption DEF Idle, Call, Tip, Shares

\* The names of new templates are drawn from sets of naturals, which have a least element.
LEMMA LeastIsMember ==
  ASSUME NEW S \in SUBSET Nat, S # {}
  PROVE  Min(S) \in S
<1>. DEFINE less == {ss \in Nat \X Nat : ss[1] < ss[2]}
<1>1. IsWellFoundedOn(less, Nat)
  BY NatLessThanWellFounded DEF OpToRel
<1>2. PICK x \in S : \A y \in S : ~(<<y, x>> \in less)
  <2>. HIDE DEF less
  <2>. QED  BY <1>1, WFMin
<1>3. ASSUME NEW y \in S PROVE x <= y
  <2>1. ~(<<y, x>> \in Nat \X Nat /\ <<y, x>>[1] < <<y, x>>[2])
    BY <1>2, Zenon
  <2>2. x \in Nat /\ y \in Nat
    OBVIOUS
  <2>3. ~(y < x)
    BY <2>1, <2>2
  <2>. QED
    BY <2>2, <2>3
<1>. QED
  BY <1>3 DEF Min

\* A server without calls and templates has nothing wrong.
LEMMA InitIInv == Init => IInv
<1>. SUFFICES ASSUME Init PROVE IInv
  OBVIOUS
<1>0. synced \in BOOLEAN
  BY DEF Init
<1>1. Shape
  <2>1. 0 \in Tip /\ Solo \in Shares
    BY MiningAssumption DEF Tip, Shares
  <2>2. cached \in [at_hash : Tip, shares : Shares]
    BY <2>1 DEF Init, NoShares
  <2>3. difficulty \in [1 .. MaxHeight -> 0 .. MaxDifficulty]
    BY MiningAssumption DEF Init
  <2>4. store \in [Template -> [prev : Tip, shares : Shares, height : 0 .. MaxHeight]]
    BY <2>1, MiningAssumption DEF Init, NoTemplate
  <2>. QED
    BY <1>0, <2>1, <2>2, <2>3, <2>4, IdleCall DEF Init, Shape
<1>. QED
  BY <1>1, IdleCall DEF Init, IInv, CacheRight, CallRight

\* A step that only moves a call to a right one keeps the invariant.
LEMMA CallMoves ==
  ASSUME IInv, NEW m \in Miner, NEW c \in Call, CallRight(c),
         call' = [call EXCEPT ![m] = c],
         UNCHANGED <<tip, synced, difficulty, store, issued>>,
         cached' \in {cached, NoShares}
  PROVE  IInv'
<1>1. Shape'
  BY MiningAssumption DEF IInv, Shape, NoShares, Tip, Shares
<1>2. CacheRight'
  BY DEF IInv, CacheRight
<1>3. \A n \in Miner : CallRight(call[n])'
  BY DEF IInv, CallRight, Shape
<1>4. \A t \in issued' : TemplateRight(t)'
  BY DEF IInv, TemplateRight
<1>. QED
  BY <1>1, <1>2, <1>3, <1>4 DEF IInv

\* Every step of a call, of the chain and of the timer keeps the invariant.
LEMMA NextIInv == IInv /\ [Next]_vars => IInv'
<1>. SUFFICES ASSUME IInv, [Next]_vars PROVE IInv'
  OBVIOUS
<1>. USE IdleCall
<1>0. CallRight(Idle)
  BY DEF CallRight
<1>1. ASSUME NEW m \in Miner
      PROVE  call[m] \in Call /\ CallRight(call[m])
  BY <1>1 DEF IInv, Shape
<1>2. CASE TipMoves
  BY <1>2, MiningAssumption DEF TipMoves, store_vars, IInv, Shape, CacheRight, CallRight,
                                TemplateRight, NoShares, Tip, Shares
<1>3. CASE SyncedChanges
  BY <1>3 DEF SyncedChanges, store_vars, IInv, Shape, CacheRight, CallRight, TemplateRight
<1>4. ASSUME NEW m \in Miner, call' = [call EXCEPT ![m] = Idle],
             UNCHANGED <<tip, synced, cached, difficulty, store, issued>>
      PROVE  IInv'
  BY <1>0, <1>4, CallMoves
<1>5. ASSUME NEW m \in Miner, GetNewBlock(m) PROVE IInv'
  <2>. DEFINE c == [Idle EXCEPT !.pc = "tip", !.synced = synced]
  <2>1. c \in Call /\ CallRight(c)
    BY DEF Call, CallRight, Idle, IInv, Shape
  <2>. QED
    BY <1>5, <2>1, CallMoves DEF GetNewBlock, chain_vars, store_vars
<1>6. ASSUME NEW m \in Miner, generate_new_tip_block(m) PROVE IInv'
  <2>. DEFINE c == [call[m] EXCEPT !.prev = tip,
                                   !.pc = IF call[m].synced THEN "shares" ELSE "template"]
  <2>1. c \in Call /\ CallRight(c)
    BY <1>1, <1>6 DEF generate_new_tip_block, At, Call, CallRight, IInv, Shape
  <2>2. call' = [call EXCEPT ![m] = c]
    BY <1>1, <1>6 DEF generate_new_tip_block, IInv, Shape, Call
  <2>. QED
    BY <1>6, <2>1, <2>2, CallMoves DEF generate_new_tip_block, chain_vars, store_vars
<1>7. ASSUME NEW m \in Miner, LookAtCache(m) PROVE IInv'
  <2>1. CASE cached # NoShares /\ cached.at_hash = call[m].prev
    <3>. DEFINE c == [call[m] EXCEPT !.shares = cached.shares, !.pc = "template"]
    <3>1. c \in Call /\ CallRight(c)
      BY <1>1, <1>7, <2>1 DEF LookAtCache, At, Call, CallRight, CacheRight, IInv, Shape
    <3>2. call' = [call EXCEPT ![m] = c]
      BY <1>1, <1>7, <2>1 DEF LookAtCache, IInv, Shape, Call
    <3>. QED
      BY <1>7, <3>1, <3>2, CallMoves DEF LookAtCache, chain_vars, store_vars
  <2>2. CASE ~(cached # NoShares /\ cached.at_hash = call[m].prev)
    <3>1. PICK pc \in {"clear", "calculate"} : call' = [call EXCEPT ![m] = [call[m] EXCEPT !.pc = pc]]
      BY <1>1, <1>7, <2>2 DEF LookAtCache, Goes, IInv, Shape, Call
    <3>. DEFINE c == [call[m] EXCEPT !.pc = pc]
    <3>2. c \in Call /\ CallRight(c)
      BY <1>1, <1>7 DEF LookAtCache, At, Call, CallRight
    <3>. QED
      BY <1>7, <3>1, <3>2, CallMoves DEF LookAtCache, chain_vars, store_vars
  <2>. QED
    BY <2>1, <2>2
<1>8. ASSUME NEW m \in Miner, ClearCache(m) PROVE IInv'
  <2>. DEFINE c == [call[m] EXCEPT !.pc = "calculate"]
  <2>1. c \in Call /\ CallRight(c)
    BY <1>1, <1>8 DEF ClearCache, At, Call, CallRight
  <2>2. call' = [call EXCEPT ![m] = c]
    BY <1>1, <1>8 DEF ClearCache, Goes, IInv, Shape, Call
  <2>. QED
    BY <1>8, <2>1, <2>2, CallMoves DEF ClearCache, store_vars
<1>9. ASSUME NEW m \in Miner, CalculateShares(m) PROVE IInv'
  <2>. DEFINE c == [call[m] EXCEPT !.shares = call[m].prev, !.pc = "template"]
  <2>0. c \in Call /\ CallRight(c)
    BY <1>1, <1>9 DEF CalculateShares, At, Call, CallRight, Shares
  <2>1. CASE call' = [call EXCEPT ![m] = Idle] /\ UNCHANGED cached
    BY <1>4, <1>9, <2>1 DEF CalculateShares, store_vars
  <2>2. CASE call' = [call EXCEPT ![m] = c] /\ UNCHANGED cached
    BY <1>9, <2>0, <2>2, CallMoves DEF CalculateShares, store_vars
  <2>3. CASE call' = [call EXCEPT ![m] = c] /\ call[m].prev = tip
               /\ cached' = [at_hash |-> tip, shares |-> tip]
    <3>1. Shape'
      BY <1>9, <2>0, <2>3 DEF CalculateShares, store_vars, IInv, Shape, Shares
    <3>2. CacheRight'
      BY <2>3 DEF CacheRight
    <3>3. ASSUME NEW n \in Miner PROVE CallRight(call[n])'
      BY <1>1, <1>9, <2>0, <2>3 DEF CalculateShares, store_vars, CallRight, IInv, Shape
    <3>4. ASSUME NEW t \in issued' PROVE TemplateRight(t)'
      BY <1>9 DEF CalculateShares, store_vars, TemplateRight, IInv
    <3>. QED
      BY <3>1, <3>2, <3>3, <3>4 DEF IInv
  <2>4. \/ call' = [call EXCEPT ![m] = Idle] /\ UNCHANGED cached
        \/ call' = [call EXCEPT ![m] = c] /\ UNCHANGED cached
        \/ call' = [call EXCEPT ![m] = c] /\ call[m].prev = tip
             /\ cached' = [at_hash |-> tip, shares |-> tip]
    BY <1>1, <1>9 DEF CalculateShares, CacheFor, IInv, Shape, Call
  <2>. QED
    BY <2>1, <2>2, <2>3, <2>4
<1>10. ASSUME NEW m \in Miner, BaseNodeTemplate(m) PROVE IInv'
  <2>1. CASE call' = [call EXCEPT ![m] = Idle] /\ UNCHANGED difficulty
    BY <1>4, <1>10, <2>1 DEF BaseNodeTemplate, chain_vars
  <2>2. ASSUME NEW h \in 1 .. MaxHeight, NEW d \in 1 .. MaxDifficulty,
               difficulty' = Learned(h, d),
               call' = [call EXCEPT ![m].height = h, ![m].pc = "list"]
        PROVE  IInv'
    <3>. DEFINE c == [call[m] EXCEPT !.height = h, !.pc = "list"]
    <3>0. call' = [call EXCEPT ![m] = c] /\ c \in Call
      <4>1. h \in 0 .. MaxHeight
        BY MiningAssumption
      <4>2. c \in Call
        BY <1>1, <4>1 DEF Call
      <4>3. call' = [call EXCEPT ![m] = c]
        BY <1>1, <2>2 DEF IInv, Shape, Call
      <4>. QED
        BY <4>2, <4>3
    <3>1. difficulty' = [difficulty EXCEPT ![h] = d]
      BY <2>2 DEF Learned
    <3>2. /\ difficulty' \in [1 .. MaxHeight -> 0 .. MaxDifficulty]
          /\ \A k \in 1 .. MaxHeight : difficulty[k] # 0 \/ k = h => difficulty'[k] # 0
      BY <3>1, MiningAssumption DEF IInv, Shape
    <3>3. Shape'
      BY <1>10, <3>0, <3>2 DEF BaseNodeTemplate, chain_vars, IInv, Shape
    <3>4. CacheRight'
      BY <1>10 DEF BaseNodeTemplate, chain_vars, IInv, CacheRight
    <3>5. ASSUME NEW n \in Miner PROVE CallRight(call[n])'
      <4>1. CASE n = m
        BY <1>1, <1>10, <3>0, <3>2, <4>1 DEF BaseNodeTemplate, At, CallRight, IInv, Shape, Call
      <4>2. CASE n # m
        BY <1>1, <3>0, <3>2, <4>2 DEF CallRight, IInv, Shape
      <4>. QED
        BY <4>1, <4>2
    <3>6. ASSUME NEW t \in issued' PROVE TemplateRight(t)'
      BY <1>10, <3>2 DEF BaseNodeTemplate, TemplateRight, IInv
    <3>. QED
      BY <3>3, <3>4, <3>5, <3>6 DEF IInv
  <2>. QED
    BY <1>10, <2>1, <2>2 DEF BaseNodeTemplate
<1>11. ASSUME NEW m \in Miner, ListTemplate(m) PROVE IInv'
  <2>. DEFINE unused == {t \in Template : store[t] = NoTemplate
                                            /\ \A n \in Miner : call[n].template # t}
  <2>1. Min(unused) \in Template
    <3>1. unused \in SUBSET Nat /\ unused # {}
      BY <1>11 DEF ListTemplate, Template
    <3>2. Min(unused) \in unused
      BY <3>1, LeastIsMember
    <3>. QED
      BY <3>2
  <2>. DEFINE c == [call[m] EXCEPT !.template = Min(unused), !.pc = "store"]
  <2>2. call' = [call EXCEPT ![m] = c]
    <3>1. call' = [call EXCEPT ![m].template = Min(unused), ![m].pc = "store"]
      BY <1>11 DEF ListTemplate
    <3>. HIDE DEF unused
    <3>. QED
      BY <1>1, <3>1 DEF IInv, Shape, Call
  <2>3. At(m, "list")
    BY <1>11 DEF ListTemplate
  <2>4. c \in Call /\ CallRight(c)
    <3>. HIDE DEF unused
    <3>. QED
      BY <1>1, <2>1, <2>3 DEF At, Call, CallRight
  <2>5. UNCHANGED <<tip, synced, cached, difficulty, store, issued>>
    BY <1>11 DEF ListTemplate, chain_vars
  <2>. HIDE DEF c
  <2>. QED
    BY <2>2, <2>4, <2>5, CallMoves
<1>12. ASSUME NEW m \in Miner, StoreTemplate(m) PROVE IInv'
  <2>. DEFINE c == call[m]
              r == [prev |-> c.prev, shares |-> c.shares, height |-> c.height]
  <2>0. c \in Call /\ CallRight(c) /\ c.pc = "store"
    BY <1>1, <1>12 DEF StoreTemplate, At
  <2>1. /\ store' = [store EXCEPT ![c.template] = r]
        /\ issued' = issued \cup {c.template}
        /\ call' = [call EXCEPT ![m] = Idle]
        /\ UNCHANGED <<tip, synced, cached, difficulty>>
    BY <1>12 DEF StoreTemplate, chain_vars
  <2>2. Shape'
    BY <2>0, <2>1 DEF IInv, Shape, Call, CallRight
  <2>3. CacheRight'
    BY <2>1 DEF IInv, CacheRight
  <2>4. ASSUME NEW n \in Miner PROVE CallRight(call[n])'
    BY <1>0, <1>1, <2>1 DEF CallRight, IInv, Shape
  <2>5. ASSUME NEW t \in issued' PROVE TemplateRight(t)'
    BY <2>0, <2>1 DEF CallRight, TemplateRight, IInv, Shape, Call
  <2>. QED
    BY <2>2, <2>3, <2>4, <2>5 DEF IInv
<1>13. ASSUME NEW m \in Miner, SubmitBlock(m) PROVE IInv'
  <2>1. PICK t \in issued, d \in 1 .. MaxDifficulty :
          call' = [call EXCEPT ![m] = [Idle EXCEPT !.pc = "wait", !.template = t,
                                       !.matches = d >= NetworkDifficulty(store[t].height)]]
    BY <1>13 DEF SubmitBlock
  <2>. DEFINE b == d >= NetworkDifficulty(store[t].height)
              c == [Idle EXCEPT !.pc = "wait", !.template = t, !.matches = b]
  <2>2. b \in BOOLEAN
    OBVIOUS
  <2>3. c \in Call /\ CallRight(c)
    <3>. HIDE DEF b
    <3>. QED
      BY <2>2 DEF Call, CallRight, Idle, IInv, Shape
  <2>. HIDE DEF c
  <2>4. call' = [call EXCEPT ![m] = c]
    BY <2>1 DEF c
  <2>. QED
    BY <1>13, <2>3, <2>4, CallMoves DEF SubmitBlock, chain_vars, store_vars
<1>14. ASSUME NEW m \in Miner, NEW pc \in {"base", "share"}, Goes(m, pc),
              UNCHANGED <<tip, synced, cached, difficulty, store, issued>>
       PROVE  IInv'
  <2>. DEFINE c == [call[m] EXCEPT !.pc = pc]
  <2>1. c \in Call /\ CallRight(c)
    BY <1>1 DEF Call, CallRight
  <2>2. call' = [call EXCEPT ![m] = c]
    BY <1>1, <1>14 DEF Goes, IInv, Shape, Call
  <2>. QED
    BY <1>14, <2>1, <2>2, CallMoves
<1>15. ASSUME NEW m \in Miner, TakeLock(m) \/ BaseNodeSubmit(m) PROVE IInv'
  <2>1. \/ call' = [call EXCEPT ![m] = Idle]
        \/ Goes(m, "base")
        \/ Goes(m, "share")
    BY <1>15 DEF TakeLock, BaseNodeSubmit
  <2>2. UNCHANGED <<tip, synced, cached, difficulty, store, issued>>
    BY <1>15 DEF TakeLock, BaseNodeSubmit, chain_vars, store_vars
  <2>. QED
    BY <1>4, <1>14, <2>1, <2>2
<1>16. ASSUME NEW m \in Miner, submit_share_chain_block(m) PROVE IInv'
  <2>1. /\ call' = [call EXCEPT ![m] = Idle]
        /\ UNCHANGED <<synced, difficulty, store, issued>>
        /\ cached' \in {cached, NoShares}
        /\ tip' = tip \/ (tip' = tip + 1 /\ tip < MaxTip)
    BY <1>16 DEF submit_share_chain_block, store_vars
  <2>2. Shape'
    BY <2>1, MiningAssumption DEF IInv, Shape, NoShares, Tip, Shares
  <2>3. CacheRight'
    BY <2>1 DEF IInv, CacheRight
  <2>4. ASSUME NEW n \in Miner PROVE CallRight(call[n])'
    BY <1>0, <1>1, <2>1 DEF CallRight, IInv, Shape
  <2>5. ASSUME NEW t \in issued' PROVE TemplateRight(t)'
    BY <2>1 DEF TemplateRight, IInv
  <2>. QED
    BY <2>2, <2>3, <2>4, <2>5 DEF IInv
<1>17. ASSUME NEW m \in Miner, Timeout(m) PROVE IInv'
  BY <1>4, <1>17 DEF Timeout, chain_vars, store_vars
<1>18. CASE UNCHANGED vars
  BY <1>18 DEF vars, chain_vars, store_vars, IInv, Shape, CacheRight, CallRight, TemplateRight
<1>. QED
  BY <1>2, <1>3, <1>5, <1>6, <1>7, <1>8, <1>9, <1>10, <1>11, <1>12, <1>13, <1>15, <1>16, <1>17,
     <1>18 DEF Next, Get, Submit

\* IInv holds in every reachable state.
LEMMA Invariance == Spec => []IInv
<1>. QED
  BY InitIInv, NextIInv, PTL DEF Spec

\* Every template a miner gets pays the shares of the block it builds on, or none
\* when it was made for solo mining: get_new_block reads the tip, reads the cached
\* shares, drops and recalculates them under separate locks, and for any number of
\* concurrent calls and new tips no shares of another block get into a template.
THEOREM TemplatesPay == Spec => []TemplatePaysItsParent
<1>1. IInv => TemplatePaysItsParent
  BY DEF IInv, TemplateRight, TemplatePaysItsParent
<1>. QED
  BY <1>1, Invariance, PTL

\* submit_block finds the network difficulty of every template that was handed out:
\* get_new_block has stored it before the miner can know the template.
THEOREM DifficultyIsKnown == Spec => []DifficultyKnown
<1>1. IInv => DifficultyKnown
  BY DEF IInv, TemplateRight, DifficultyKnown
<1>. QED
  BY <1>1, Invariance, PTL
=============================================================================
