---------------------------- MODULE P2ChainProofs ----------------------------
(***************************************************************************)
(* Proofs about P2Chain: the verification flags of a block are sound for   *)
(* every tree of blocks, every order of arrival, every window size and any *)
(* number of restarts.                                                     *)
(***************************************************************************)
EXTENDS P2Chain, FiniteSetTheorems, WellFoundedInduction, TLAPS

\* FlagsSound is about functions and pairs of the right shape only.
FlagShape ==
  /\ stored \subseteq Block
  /\ verified \in [Block -> SUBSET Flag]
  /\ loading \subseteq Block \X SUBSET Flag

IInv == FlagShape /\ FlagsSound

\* verify_block keeps the flags of the block true: a flag it adds stands for a
\* check that could be made and did not fail.
LEMMA VerifiedFlagsTrue ==
  ASSUME IInv, NEW b \in Block, ~VerifyFails(b)
  PROVE  VerifiedFlags(b) \in SUBSET Flag /\ FlagsTrue(b, VerifiedFlags(b))
<1>1. verified[b] \in SUBSET Flag /\ FlagsTrue(b, verified[b])
  BY DEF IInv, FlagShape, FlagsSound
<1>2. VerifiedFlags(b) \in SUBSET Flag
  BY <1>1 DEF VerifiedFlags, Flag
<1>3. ASSUME "parents" \in VerifiedFlags(b) PROVE total_pow[b] = TotalWork(b)
  <2>1. CASE "parents" \in verified[b]
    BY <2>1, <1>1 DEF FlagsTrue
  <2>2. CASE "parents" \notin verified[b]
    <3>1. ParentsReady(b)
      BY <2>2, <1>3 DEF VerifiedFlags
    <3>2. ~IsVerified(b)
      BY <2>2 DEF IsVerified, Flag
    <3>. QED BY <2>2, <3>1, <3>2 DEF VerifyFails, PowFails
  <2>. QED BY <2>1, <2>2
<1>4. ASSUME "target" \in VerifiedFlags(b) PROVE b \notin BadTarget
  BY <1>1, <1>4 DEF VerifiedFlags, TargetMatches, FlagsTrue
<1>5. ASSUME "median" \in VerifiedFlags(b) PROVE height[b] = 0 \/ b \notin BadMedian
  <2>1. CASE "median" \in verified[b]
    BY <2>1, <1>1 DEF FlagsTrue
  <2>2. CASE "median" \notin verified[b]
    <3>1. height[b] = 0 \/ MedianReady(b)
      BY <2>2, <1>5 DEF VerifiedFlags
    <3>2. ~IsVerified(b)
      BY <2>2 DEF IsVerified, Flag
    <3>. QED BY <2>2, <3>1, <3>2 DEF VerifyFails, MedianFails
  <2>. QED BY <2>1, <2>2
<1>6. ASSUME "shares" \in VerifiedFlags(b) PROVE height[b] = 0 \/ b \notin BadShares
  <2>1. CASE "shares" \in verified[b]
    BY <2>1, <1>1 DEF FlagsTrue
  <2>2. CASE "shares" \notin verified[b]
    <3>1. height[b] = 0 \/ SharesReady(b)
      BY <2>2, <1>6 DEF VerifiedFlags
    <3>2. ~IsVerified(b)
      BY <2>2 DEF IsVerified, Flag
    <3>. QED BY <2>2, <3>1, <3>2 DEF VerifyFails, SharesFail
  <2>. QED BY <2>1, <2>2
<1>. QED BY <1>2, <1>3, <1>4, <1>5, <1>6 DEF FlagsTrue

\* A step that changes the flags of one block to true ones, and leaves or drops
\* the others, keeps the invariant.
LEMMA FlagsUpdate ==
  ASSUME IInv, NEW b \in Block, NEW flags \in SUBSET Flag, FlagsTrue(b, flags),
         verified' = [verified EXCEPT ![b] = flags], loading' \subseteq loading,
         stored' \subseteq stored \cup {b}
  PROVE  IInv'
<1>1. FlagShape'
  BY DEF IInv, FlagShape
<1>2. ASSUME NEW x \in Block PROVE FlagsTrue(x, verified'[x])
  <2>1. CASE x = b
    BY <2>1 DEF IInv, FlagShape
  <2>2. CASE x # b
    BY <2>2 DEF IInv, FlagShape, FlagsSound
  <2>. QED BY <2>1, <2>2
<1>3. \A r \in loading' : FlagsTrue(r[1], r[2])
  BY DEF IInv, FlagsSound
<1>4. FlagsSound'
  BY <1>2, <1>3 DEF FlagsSound
<1>. QED BY <1>1, <1>4 DEF IInv

\* No flag set is true of every block.
LEMMA NoFlagsTrue ==
  ASSUME NEW b PROVE FlagsTrue(b, {})
BY DEF FlagsTrue

\* A step of verify_chain that keeps or checks flags.
LEMMA SetVerifiedIInv ==
  ASSUME IInv, NEW b \in Block, ~VerifyFails(b), SetVerified(b), UNCHANGED <<stored, loading>>
  PROVE  IInv'
BY VerifiedFlagsTrue, FlagsUpdate DEF SetVerified

\* set_new_tip with its pruning.
LEMMA SetNewTipIInv ==
  ASSUME IInv, NEW b \in Block, ~VerifyFails(b), SetNewTip(b), UNCHANGED loading
  PROVE  IInv'
<1>1. PICK kept \in [Block -> BOOLEAN] :
        verified' = [x \in Block |-> IF ~kept[x] THEN {}
                                     ELSE IF x = b THEN VerifiedFlags(b) ELSE verified[x]]
  <2>. DEFINE keeps(h) == Cardinality({g \in {height[x] : x \in stored} : g >= h}) <= MaxLevels
  <2>1. verified' = [x \in Block |-> IF ~keeps(height[x]) THEN {}
                                     ELSE IF x = b THEN VerifiedFlags(b) ELSE verified[x]]
    BY DEF SetNewTip
  <2>. DEFINE k == [x \in Block |-> IF keeps(height[x]) THEN TRUE ELSE FALSE]
  <2>2. k \in [Block -> BOOLEAN]
    OBVIOUS
  <2>3. \A x \in Block : k[x] <=> keeps(height[x])
    OBVIOUS
  <2>. HIDE DEF keeps, k
  <2>4. verified' = [x \in Block |-> IF ~k[x] THEN {}
                                     ELSE IF x = b THEN VerifiedFlags(b) ELSE verified[x]]
    BY <2>1, <2>3
  <2>. QED BY <2>2, <2>4
<1>2. VerifiedFlags(b) \in SUBSET Flag /\ FlagsTrue(b, VerifiedFlags(b))
  BY VerifiedFlagsTrue
<1>3. FlagShape'
  <2>1. stored' \subseteq stored
    BY DEF SetNewTip
  <2>. QED BY <1>1, <1>2, <2>1 DEF IInv, FlagShape
<1>4. ASSUME NEW x \in Block PROVE FlagsTrue(x, verified'[x])
  <2>1. CASE ~kept[x]
    BY <1>1, <2>1, NoFlagsTrue
  <2>2. CASE kept[x] /\ x = b
    BY <1>1, <1>2, <2>2
  <2>3. CASE kept[x] /\ x # b
    BY <1>1, <2>3 DEF IInv, FlagsSound
  <2>. QED BY <2>1, <2>2, <2>3
<1>5. \A r \in loading' : FlagsTrue(r[1], r[2])
  BY DEF IInv, FlagsSound
<1>6. FlagsSound'
  BY <1>4, <1>5 DEF FlagsSound
<1>. QED BY <1>3, <1>6 DEF IInv

LEMMA VerifyStepIInv ==
  ASSUME IInv, NEW b \in Block, VerifyStep(b)
  PROVE  IInv'
<1>1. CASE ReportMissing(b)
  BY <1>1 DEF ReportMissing, chain_vars, node_vars, IInv, FlagShape, FlagsSound
<1>2. CASE InvalidBlock(b)
  BY <1>2 DEF InvalidBlock, chain_vars, node_vars, IInv, FlagShape, FlagsSound
<1>3. CASE ChainStart(b)
  BY <1>3, SetNewTipIInv DEF ChainStart, Checked, node_vars
<1>4. CASE NotYetVerified(b)
  BY <1>4, SetVerifiedIInv DEF NotYetVerified, Candidate, Checked, node_vars
<1>5. CASE RejectUncles(b)
  BY <1>5, SetVerifiedIInv DEF RejectUncles, BuildsOnTip, Candidate, Checked, node_vars
<1>6. CASE ExtendTip(b)
  BY <1>6, SetNewTipIInv DEF ExtendTip, BuildsOnTip, Candidate, Checked, node_vars
<1>7. CASE ForkIncomplete(b)
  BY <1>7, SetVerifiedIInv DEF ForkIncomplete, OffTip, Candidate, Checked, node_vars
<1>8. CASE ForkNotHeavier(b)
  BY <1>8, SetVerifiedIInv DEF ForkNotHeavier, OffTip, Candidate, Checked, node_vars
<1>9. CASE Reorg(b)
  BY <1>9, SetVerifiedIInv DEF Reorg, Heavier, OffTip, Candidate, Checked
<1>10. CASE ReorgAtStart(b)
  BY <1>10, SetVerifiedIInv DEF ReorgAtStart, Heavier, OffTip, Candidate, Checked
<1>. QED
  BY <1>1, <1>2, <1>3, <1>4, <1>5, <1>6, <1>7, <1>8, <1>9, <1>10 DEF VerifyStep

LEMMA InitIInv == Init => IInv
BY NoFlagsTrue DEF Init, IInv, FlagShape, FlagsSound, Flag

LEMMA NextIInv == IInv /\ [Next]_vars => IInv'
<1>. SUFFICES ASSUME IInv, [Next]_vars PROVE IInv'
  OBVIOUS
<1>1. ASSUME NEW b \in Block, NEW syncing \in BOOLEAN, submit_block(b, syncing)
      PROVE  IInv'
  <2>. DEFINE flags == {"difficulty"} \cup (IF TargetMatches(b) THEN {"target"} ELSE {})
  <2>1. flags \in SUBSET Flag /\ FlagsTrue(b, flags)
    BY DEF Flag, FlagsTrue, TargetMatches
  <2>2. verified' = [verified EXCEPT ![b] = flags] /\ loading' \subseteq loading
    BY <1>1 DEF submit_block, AddBlock, node_vars
  <2>3. stored' \subseteq stored \cup {b}
    BY <1>1 DEF submit_block, AddBlock
  <2>. HIDE DEF flags
  <2>. QED BY <2>1, <2>2, <2>3, FlagsUpdate
<1>2. ASSUME NEW r \in loading, LoadBlock(r) PROVE IInv'
  <2>1. r[1] \in Block /\ r[2] \in SUBSET Flag /\ FlagsTrue(r[1], r[2])
    BY DEF IInv, FlagShape, FlagsSound
  <2>2. verified' = [verified EXCEPT ![r[1]] = r[2]] /\ loading' \subseteq loading
    BY <1>2 DEF LoadBlock, AddBlock
  <2>3. stored' \subseteq stored \cup {r[1]}
    BY <1>2 DEF LoadBlock, AddBlock
  <2>. QED BY <2>1, <2>2, <2>3, FlagsUpdate
<1>3. CASE Restart
  <2>1. verified' = [b \in Block |-> {}] /\ stored' = {}
    BY <1>3 DEF Restart
  <2>2. \A r \in loading' : \E x \in Block : r = <<x, verified[x]>>
    <3>1. PICK earliest_date \in EarliestDates :
            loading' = {<<b, verified[b]>> : b \in {x \in stored : Loadable(x, earliest_date)}}
      BY <1>3 DEF Restart
    <3>. QED BY <3>1 DEF IInv, FlagShape
  <2>3. FlagShape'
    BY <2>1, <2>2 DEF IInv, FlagShape, Flag
  <2>4. \A b \in Block : FlagsTrue(b, verified'[b])
    BY <2>1, NoFlagsTrue
  <2>5. \A r \in loading' : FlagsTrue(r[1], r[2])
    BY <2>2 DEF IInv, FlagsSound
  <2>. QED BY <2>3, <2>4, <2>5 DEF IInv, FlagsSound
<1>4. CASE UNCHANGED vars
  BY <1>4 DEF vars, chain_vars, node_vars, IInv, FlagShape, FlagsSound
<1>. QED
  BY <1>1, <1>2, <1>3, <1>4, VerifyStepIInv DEF Next

\* The flags of every block, in memory, on disk and while they are reloaded, say
\* the truth: no block is marked as having a check passed that it fails.
THEOREM FlagSoundness == Spec => []FlagsSound
<1>1. Init => IInv
  BY InitIInv
<1>2. IInv /\ [Next]_vars => IInv'
  BY NextIInv
<1>3. IInv => FlagsSound
  BY DEF IInv
<1>. QED BY <1>1, <1>2, <1>3, PTL DEF Spec

-----------------------------------------------------------------------------
(* Lemmas about the operators.                                             *)

\* A non-empty set of naturals has a least element, and Min gives it.
LEMMA LeastElement ==
  ASSUME NEW S \in SUBSET Nat, S # {}
  PROVE  Min(S) \in S /\ \A y \in S : Min(S) <= y
<1>. DEFINE R == {ss \in Nat \X Nat : ss[1] < ss[2]}
<1>1. IsWellFoundedOn(R, Nat)
  BY NatLessThanWellFounded DEF OpToRel
<1>. HIDE DEF R
<1>2. PICK x \in S : \A y \in S : ~(<<y, x>> \in R)
  BY <1>1, WFMin
<1>3. ASSUME NEW y \in S PROVE x <= y
  <2>1. ~(y < x)
    BY <1>2 DEF R
  <2>. QED BY <2>1
<1>. QED BY <1>3 DEF Min

LEMMA MaxOfTwo ==
  ASSUME NEW m \in Nat, NEW n \in Nat
  PROVE  Max({m, n}) = IF m >= n THEN m ELSE n
<1>. DEFINE g == IF m >= n THEN m ELSE n
<1>1. g \in {m, n} /\ \A y \in {m, n} : g >= y
  OBVIOUS
<1>2. \A x \in {m, n} : (\A y \in {m, n} : x >= y) => x = g
  OBVIOUS
<1>. QED BY <1>1, <1>2 DEF Max

\* What ChainAssumption and AncestorAssumption say of one block.
LEMMA BlockFacts ==
  ASSUME NEW b \in Block
  PROVE  /\ height[b] \in Nat /\ height[b] \in Heights /\ height[b] <= MaxHeight
         /\ prev[b] \in Block \cup {Zero} /\ uncles[b] \subseteq Block
         /\ b # Zero /\ total_pow[b] \in Nat /\ target[b] \in Nat /\ target[b] > 0
         /\ height[b] # 0 => prev[b] \in Block /\ height[prev[b]] = height[b] - 1
         /\ anc[b][0] = b
BY ChainAssumption, AncestorAssumption DEF Heights

LEMMA AncestorFacts ==
  ASSUME NEW b \in Block, NEW i \in 0 .. height[b]
  PROVE  /\ anc[b][i] \in Block /\ height[anc[b][i]] = height[b] - i
         /\ i # 0 => anc[b][i] = prev[anc[b][i - 1]]
<1>1. height[b] \in Nat
  BY BlockFacts
<1>2. \A j \in 0 .. height[b] : anc[b][j] \in Block /\ height[anc[b][j]] = height[b] - j
  BY AncestorAssumption, Zenon
<1>3. \A j \in 1 .. height[b] : anc[b][j] = prev[anc[b][j - 1]]
  BY AncestorAssumption, Zenon
<1>4. i # 0 => i \in 1 .. height[b]
  BY <1>1
<1>. QED BY <1>2, <1>3, <1>4, Zenon

\* The ancestors of an ancestor are ancestors: by induction on k, as a least
\* counterexample.
LEMMA AncestorsCompose ==
  ASSUME NEW b \in Block, NEW i \in 0 .. height[b]
  PROVE  \A k \in 0 .. (height[b] - i) : anc[anc[b][i]][k] = anc[b][i + k]
<1>. DEFINE x == anc[b][i]
<1>. DEFINE S == {k \in 0 .. (height[b] - i) : anc[x][k] # anc[b][i + k]}
<1>1. height[b] \in Nat /\ x \in Block /\ height[x] = height[b] - i
  BY BlockFacts, AncestorFacts
<1>. SUFFICES ASSUME S # {} PROVE FALSE
  OBVIOUS
<1>2. S \in SUBSET Nat
  BY <1>1
<1>. DEFINE k == Min(S)
<1>. HIDE DEF x
<1>3. k \in S /\ \A j \in S : k <= j
  BY <1>2, LeastElement
<1>. HIDE DEF k
<1>4. k # 0
  BY <1>1, <1>3, BlockFacts DEF x
<1>5. k - 1 \in 0 .. (height[b] - i) /\ k - 1 < k
  BY <1>1, <1>3, <1>4
<1>6. anc[x][k - 1] = anc[b][i + (k - 1)]
  BY <1>1, <1>3, <1>5
<1>7. anc[x][k] = prev[anc[x][k - 1]]
  BY <1>1, <1>3, <1>4, AncestorFacts
<1>8. anc[b][i + k] = prev[anc[b][i + k - 1]]
  BY <1>1, <1>3, <1>4, AncestorFacts
<1>9. i + (k - 1) = i + k - 1
  BY <1>1, <1>3
<1>. QED BY <1>3, <1>6, <1>7, <1>8, <1>9

\* Where the walk of a reorganisation ends.
LEMMA WalkEndFacts ==
  ASSUME NEW b \in Block
  PROVE  /\ WalkEnd(b) \in 0 .. height[b] /\ ~WalkGoesOn(b, WalkEnd(b))
         /\ \A j \in 0 .. height[b] : j < WalkEnd(b) => WalkGoesOn(b, j)
<1>. DEFINE S == {i \in 0 .. height[b] : ~WalkGoesOn(b, i)}
<1>1. height[b] \in Nat
  BY BlockFacts
<1>2. height[b] \in S
  BY <1>1 DEF WalkGoesOn
<1>3. S \in SUBSET Nat /\ S # {}
  BY <1>1, <1>2
<1>4. WalkEnd(b) = Min(S)
  BY DEF WalkEnd
<1>5. WalkEnd(b) \in S /\ \A y \in S : WalkEnd(b) <= y
  BY <1>3, <1>4, LeastElement
<1>6. ASSUME NEW j \in 0 .. height[b], j < WalkEnd(b) PROVE WalkGoesOn(b, j)
  <2>1. ~(WalkEnd(b) <= j)
    BY <1>1, <1>5, <1>6
  <2>. QED BY <1>5, <2>1
<1>. QED BY <1>5, <1>6

\* How far the relinking of a reorganisation goes.
LEMMA RelinkDepthFacts ==
  ASSUME NEW b \in Block
  PROVE  /\ RelinkDepth(b) \in 0 .. height[b]
         /\ RelinkDepth(b) = height[b] \/ ~Relinks(b, RelinkDepth(b) + 1)
         /\ \A j \in 1 .. RelinkDepth(b) : Relinks(b, j)
<1>. DEFINE S == {i \in 0 .. height[b] : i = height[b] \/ ~Relinks(b, i + 1)}
<1>1. height[b] \in Nat
  BY BlockFacts
<1>2. height[b] \in S
  BY <1>1
<1>3. S \in SUBSET Nat /\ S # {}
  BY <1>1, <1>2
<1>4. RelinkDepth(b) = Min(S)
  BY DEF RelinkDepth
<1>5. RelinkDepth(b) \in S /\ \A y \in S : RelinkDepth(b) <= y
  BY <1>3, <1>4, LeastElement
<1>6. ASSUME NEW j \in 1 .. RelinkDepth(b) PROVE Relinks(b, j)
  <2>1. j - 1 \in 0 .. height[b] /\ ~(RelinkDepth(b) <= j - 1) /\ (j - 1) + 1 = j
    BY <1>1, <1>5
  <2>2. j - 1 \notin S
    BY <1>5, <2>1
  <2>. QED BY <2>1, <2>2
<1>. QED BY <1>5, <1>6

\* A window of the LWMA ends with its block and goes back through its ancestors.
LEMMA WindowFromFacts ==
  ASSUME NEW b \in Block, NEW n \in Nat, n > 0
  PROVE  \E m \in Nat :
           /\ 1 <= m /\ m <= n /\ m <= LwmaSize /\ m <= height[b] + 1
           /\ m = n \/ m = LwmaSize \/ m = height[b] + 1
           /\ WindowFrom(b, n) = [i \in 1 .. m |-> anc[b][m - i]]
           /\ WindowFrom(b, n) \in Seq(Block)
<1>. DEFINE S == {n, LwmaSize, height[b] + 1}
<1>. DEFINE m == Min(S)
<1>1. height[b] \in Nat /\ LwmaSize \in Nat /\ LwmaSize >= 2
  BY BlockFacts, WindowAssumption
<1>2. S \in SUBSET Nat /\ S # {}
  BY <1>1
<1>3. m \in S /\ \A y \in S : m <= y
  BY <1>2, LeastElement
<1>4. WindowFrom(b, n) = [i \in 1 .. m |-> anc[b][m - i]]
  BY DEF WindowFrom
<1>. HIDE DEF m
<1>5. m \in Nat /\ 1 <= m /\ m <= n /\ m <= LwmaSize /\ m <= height[b] + 1
  BY <1>1, <1>3
<1>6. m = n \/ m = LwmaSize \/ m = height[b] + 1
  BY <1>3
<1>7. \A i \in 1 .. m : anc[b][m - i] \in Block
  <2>1. ASSUME NEW i \in 1 .. m PROVE m - i \in 0 .. height[b]
    BY <1>1, <1>5
  <2>. QED BY <2>1, AncestorFacts
<1>8. WindowFrom(b, n) \in Seq(Block)
  BY <1>4, <1>5, <1>7
<1>. QED BY <1>4, <1>5, <1>6, <1>8

-----------------------------------------------------------------------------
(* Type correctness.                                                       *)

\* The queue of verify_chain and its results keep their types.
LEMMA ContinueTypes ==
  ASSUME TypeOK, NEW b \in Block, next_level # <<>>,
         NEW made_tip, NEW found, NEW next, found \subseteq Block \cup {Zero},
         next \subseteq Block, Continue(b, made_tip, found, next)
  PROVE  /\ next_level' \in Seq(Block) /\ processed' \subseteq Block
         /\ new_tip' \in Block \cup {Zero} /\ missing_blocks' \subseteq Block \cup {Zero}
<1>. USE DEF TypeOK
<1>1. new_tip' \in Block \cup {Zero}
  BY DEF Continue
<1>2. missing_blocks' \subseteq Block \cup {Zero}
  BY DEF Continue, Combined
<1>. DEFINE queued == {next_level[i] : i \in 2 .. Len(next_level)}
<1>. DEFINE done == processed \cup {b}
<1>. DEFINE new == next \ (done \cup queued)
<1>3. PICK order \in Orderings(new) :
        /\ next_level' = IF Cardinality(missing_blocks') >= MAX_MISSING_PARENTS
                         THEN <<>> ELSE Tail(next_level) \o order
        /\ processed' = IF next_level' = <<>> THEN {} ELSE done
  BY DEF Continue
<1>4. new \subseteq Block
  OBVIOUS
<1>. HIDE DEF new
<1>5. Cardinality(new) \in Nat
  BY <1>4, ChainAssumption, FS_Subset, FS_CardinalityType
<1>6. order \in [1 .. Cardinality(new) -> new]
  BY DEF Orderings
<1>7. order \in Seq(Block)
  <2>1. PICK n \in Nat : n = Cardinality(new)
    BY <1>5
  <2>2. order \in [1 .. n -> Block]
    BY <1>4, <1>6, <2>1
  <2>. QED BY <2>2
<1>8. Tail(next_level) \in Seq(Block)
  OBVIOUS
<1>9. next_level' \in Seq(Block)
  BY <1>3, <1>7, <1>8
<1>10. processed' \subseteq Block
  BY <1>3
<1>. QED BY <1>1, <1>2, <1>9, <1>10

LEMMA VerifiedFlagsType ==
  ASSUME TypeOK, NEW b \in Block
  PROVE  VerifiedFlags(b) \in SUBSET Flag
BY DEF TypeOK, VerifiedFlags, Flag

\* The window slides: it keeps at most LwmaSize blocks, the newest last.
LEMMA AddBackType ==
  ASSUME NEW w \in Seq(Block), NEW b \in Block
  PROVE  add_back(w, b) \in Seq(Block)
<1>1. Len(w) >= LwmaSize => w # <<>>
  BY WindowAssumption
<1>. QED BY <1>1 DEF add_back

LEMMA PeakType ==
  ASSUME TypeOK, NEW b \in Block
  PROVE  /\ Max({peak, height[b]}) \in Heights
         /\ Max({peak, height[b]}) = IF peak >= height[b] THEN peak ELSE height[b]
<1>1. peak \in Heights /\ height[b] \in Heights
  BY BlockFacts DEF TypeOK
<1>2. peak \in Nat /\ height[b] \in Nat
  BY <1>1 DEF Heights
<1>. QED BY <1>1, <1>2, MaxOfTwo

LEMMA SetNewTipTypes ==
  ASSUME TypeOK, NEW b \in Block, SetNewTip(b)
  PROVE  /\ stored' \subseteq Block /\ verified' \in [Block -> SUBSET Flag]
         /\ chain_block' \in [Heights -> Block \cup {Zero}]
         /\ current_tip' \in Heights /\ peak' \in Heights /\ lwma' \in Seq(Block)
<1>. DEFINE keeps(h) == Cardinality({g \in {height[x] : x \in stored} : g >= h}) <= MaxLevels
<1>. DEFINE linked == [chain_block EXCEPT ![height[b]] = b]
<1>1. /\ stored' = {x \in stored : keeps(height[x])}
      /\ verified' = [x \in Block |-> IF ~keeps(height[x]) THEN {}
                                      ELSE IF x = b THEN VerifiedFlags(b) ELSE verified[x]]
      /\ chain_block' = [h \in Heights |-> IF keeps(h) THEN linked[h] ELSE Zero]
      /\ current_tip' = height[b] /\ lwma' = add_back(lwma, b)
      /\ peak' = Max({peak, height[b]})
  BY DEF SetNewTip
<1>2. linked \in [Heights -> Block \cup {Zero}]
  BY DEF TypeOK
<1>. HIDE DEF keeps, linked
<1>3. stored' \subseteq Block
  BY <1>1 DEF TypeOK
<1>4. verified' \in [Block -> SUBSET Flag]
  BY <1>1, VerifiedFlagsType DEF TypeOK
<1>5. chain_block' \in [Heights -> Block \cup {Zero}]
  BY <1>1, <1>2
<1>6. current_tip' \in Heights /\ peak' \in Heights
  BY <1>1, BlockFacts, PeakType
<1>7. lwma' \in Seq(Block)
  BY <1>1, AddBackType DEF TypeOK
<1>. QED BY <1>3, <1>4, <1>5, <1>6, <1>7

LEMMA ReorgTypes ==
  ASSUME TypeOK, NEW b \in Block, Reorg(b)
  PROVE  /\ chain_block' \in [Heights -> Block \cup {Zero}]
         /\ current_tip' \in Heights /\ peak' \in Heights /\ lwma' \in Seq(Block)
         /\ panicked' \in BOOLEAN
<1>. DEFINE top == height[b]
<1>. DEFINE depth == RelinkDepth(b)
<1>. DEFINE reset(h) == h > top /\ \A g \in (top + 1) .. h : LevelExists(g)
<1>1. /\ chain_block' = [h \in Heights |->
                           IF reset(h) THEN Zero
                           ELSE IF h <= top /\ h >= top - depth THEN anc[b][top - h]
                           ELSE chain_block[h]]
      /\ lwma' = WindowFrom(b, depth + 1) /\ current_tip' = top /\ peak' = Max({peak, top})
  BY DEF Reorg
<1>2. top \in Nat /\ depth \in Nat
  BY BlockFacts, RelinkDepthFacts
<1>3. \A h \in Heights : h <= top => anc[b][top - h] \in Block
  <2>1. ASSUME NEW h \in Heights, h <= top PROVE top - h \in 0 .. height[b]
    BY <1>2, <2>1 DEF Heights
  <2>. QED BY <2>1, AncestorFacts
<1>. HIDE DEF reset, depth
<1>4. chain_block' \in [Heights -> Block \cup {Zero}]
  BY <1>1, <1>3 DEF TypeOK
<1>5. lwma' \in Seq(Block)
  <2>1. depth + 1 \in Nat /\ depth + 1 > 0
    BY <1>2
  <2>. QED BY <1>1, <2>1, WindowFromFacts
<1>6. panicked' \in BOOLEAN
  BY DEF Reorg
<1>. QED BY <1>1, <1>4, <1>5, <1>6, BlockFacts, PeakType

\* A reorganisation to a block of height 0.
LEMMA ReorgAtStartTypes ==
  ASSUME TypeOK, NEW b \in Block, ReorgAtStart(b)
  PROVE  /\ chain_block' \in [Heights -> Block \cup {Zero}]
         /\ current_tip' \in Heights /\ peak' \in Heights /\ lwma' \in Seq(Block)
         /\ panicked' \in BOOLEAN
<1>. DEFINE reset(h) == h > 0 /\ \A g \in 1 .. h : LevelExists(g)
<1>1. /\ chain_block' = [h \in Heights |->
                           IF reset(h) THEN Zero
                           ELSE IF h = 0 THEN (IF AtStart(prev[b]) THEN prev[b] ELSE b)
                           ELSE chain_block[h]]
      /\ lwma' = IF AtStart(prev[b]) THEN <<prev[b], b>> ELSE <<b>>
      /\ current_tip' = 0 /\ peak' = peak /\ panicked' = ~AtStart(prev[b])
  BY DEF ReorgAtStart
<1>2. AtStart(prev[b]) => prev[b] \in Block
  BY DEF AtStart, TypeOK
<1>. HIDE DEF reset
<1>3. chain_block' \in [Heights -> Block \cup {Zero}]
  BY <1>1, <1>2 DEF TypeOK
<1>4. lwma' \in Seq(Block)
  BY <1>1, <1>2
<1>5. current_tip' \in Heights /\ peak' \in Heights /\ panicked' \in BOOLEAN
  BY <1>1, ChainAssumption DEF TypeOK, Heights
<1>. QED BY <1>3, <1>4, <1>5

LEMMA MissingTypes ==
  ASSUME TypeOK, NEW b \in Block
  PROVE  /\ MissingDeps(b) \subseteq Block \cup {Zero}
         /\ ~WalkComplete(b) => WalkMissing(b) \subseteq Block \cup {Zero}
         /\ ChildrenAndNephews(b) \subseteq Block
<1>1. MissingDeps(b) \subseteq Block \cup {Zero}
  BY ChainAssumption DEF MissingDeps, MissingParent, TypeOK
<1>2. ASSUME ~WalkComplete(b) PROVE WalkMissing(b) \subseteq Block \cup {Zero}
  <2>1. WalkEnd(b) + 1 \in 0 .. height[b]
    BY <1>2, WalkEndFacts, BlockFacts DEF WalkComplete
  <2>2. anc[b][WalkEnd(b) + 1] \in Block
    BY <2>1, AncestorFacts
  <2>. QED BY <2>2, ChainAssumption DEF WalkMissing, MissingParent
<1>3. ChildrenAndNephews(b) \subseteq Block
  BY DEF ChildrenAndNephews, TypeOK
<1>. QED BY <1>1, <1>2, <1>3

LEMMA TipPowType == TypeOK => TipPow \in Nat
BY ChainAssumption DEF TypeOK, TipPow, HasTip, TipHash

LEMMA VerifyStepTypeOK ==
  ASSUME TypeOK, NEW b \in Block, VerifyStep(b)
  PROVE  TypeOK'
<1>. DEFINE CallTypes == /\ next_level' \in Seq(Block) /\ processed' \subseteq Block
                         /\ new_tip' \in Block \cup {Zero}
                         /\ missing_blocks' \subseteq Block \cup {Zero}
<1>. DEFINE NodeSame == UNCHANGED <<loading, restarts, pow_kept>>
<1>0. skipped' \in BOOLEAN /\ rerooted' \in BOOLEAN
  BY DEF VerifyStep
<1>1. Abort => CallTypes
  BY DEF Abort
<1>2. ASSUME Verifying(b), NEW made_tip, NEW found, NEW next, found \subseteq Block \cup {Zero},
             next \subseteq Block, Continue(b, made_tip, found, next)
      PROVE  CallTypes
  BY <1>2, ContinueTypes DEF Verifying
<1>3. SetVerified(b) => verified' \in [Block -> SUBSET Flag]
  BY VerifiedFlagsType DEF SetVerified, TypeOK
<1>. HIDE DEF CallTypes
<1>4. ASSUME CallTypes, UNCHANGED <<chain_vars, node_vars>> PROVE TypeOK'
  BY <1>0, <1>4 DEF TypeOK, CallTypes, chain_vars, node_vars
<1>5. ASSUME CallTypes, SetVerified(b),
             UNCHANGED <<stored, chain_block, current_tip, lwma, peak, node_vars>>
      PROVE  TypeOK'
  BY <1>0, <1>3, <1>5 DEF TypeOK, CallTypes, node_vars
<1>6. ASSUME CallTypes, SetNewTip(b), UNCHANGED node_vars PROVE TypeOK'
  BY <1>0, <1>6, SetNewTipTypes DEF TypeOK, CallTypes, node_vars
<1>7. CASE ReportMissing(b)
  BY <1>2, <1>4, <1>7, MissingTypes DEF ReportMissing
<1>8. CASE InvalidBlock(b)
  BY <1>1, <1>4, <1>8 DEF InvalidBlock
<1>9. CASE ChainStart(b)
  BY <1>2, <1>6, <1>9 DEF ChainStart, Checked
<1>10. CASE NotYetVerified(b)
  BY <1>2, <1>5, <1>10 DEF NotYetVerified, Candidate, Checked
<1>11. CASE RejectUncles(b)
  BY <1>1, <1>5, <1>11 DEF RejectUncles
<1>12. CASE ExtendTip(b)
  <2>1. ChildrenAndNephews(b) \cap stored' \subseteq Block
    BY MissingTypes
  <2>. QED BY <1>2, <1>6, <1>12, <2>1 DEF ExtendTip, BuildsOnTip, Candidate, Checked
<1>13. CASE ForkIncomplete(b)
  BY <1>2, <1>5, <1>13, MissingTypes DEF ForkIncomplete, OffTip, Candidate, Checked
<1>14. CASE ForkNotHeavier(b)
  BY <1>2, <1>5, <1>14, MissingTypes DEF ForkNotHeavier, OffTip, Candidate, Checked
<1>15. CASE Reorg(b)
  <2>1. CallTypes
    BY <1>2, <1>15, MissingTypes DEF Reorg, Heavier, OffTip, Candidate, Checked
  <2>2. SetVerified(b) /\ UNCHANGED <<stored, loading, restarts, pow_kept>>
    BY <1>15 DEF Reorg
  <2>. QED BY <1>0, <1>3, <1>15, <2>1, <2>2, ReorgTypes DEF TypeOK, CallTypes
<1>16. CASE ReorgAtStart(b)
  <2>1. CallTypes
    BY <1>2, <1>16, MissingTypes DEF ReorgAtStart, Heavier, OffTip, Candidate, Checked
  <2>2. SetVerified(b) /\ UNCHANGED <<stored, loading, restarts, pow_kept>>
    BY <1>16 DEF ReorgAtStart
  <2>. QED BY <1>0, <1>3, <1>16, <2>1, <2>2, ReorgAtStartTypes DEF TypeOK, CallTypes
<1>. QED
  BY <1>7, <1>8, <1>9, <1>10, <1>11, <1>12, <1>13, <1>14, <1>15, <1>16 DEF VerifyStep

LEMMA AddBlockTypes ==
  ASSUME TypeOK, NEW b \in Block, NEW flags \in SUBSET Flag, AddBlock(b, flags),
         loading' \subseteq loading, UNCHANGED <<panicked, restarts, pow_kept, history>>
  PROVE  TypeOK'
BY DEF AddBlock, TypeOK, history

LEMMA NextTypeOK == TypeOK /\ [Next]_vars => TypeOK'
<1>. SUFFICES ASSUME TypeOK, [Next]_vars PROVE TypeOK'
  OBVIOUS
<1>1. ASSUME NEW b \in Block, NEW syncing \in BOOLEAN, submit_block(b, syncing) PROVE TypeOK'
  <2>. DEFINE flags == {"difficulty"} \cup (IF TargetMatches(b) THEN {"target"} ELSE {})
  <2>1. flags \in SUBSET Flag
    BY DEF Flag
  <2>2. AddBlock(b, flags) /\ UNCHANGED <<node_vars, history>>
    BY <1>1 DEF submit_block
  <2>. HIDE DEF flags
  <2>. QED BY <2>1, <2>2, AddBlockTypes DEF node_vars
<1>2. ASSUME NEW r \in loading, LoadBlock(r) PROVE TypeOK'
  <2>1. r[1] \in Block /\ r[2] \in SUBSET Flag
    BY DEF TypeOK
  <2>2. /\ AddBlock(r[1], r[2]) /\ loading' \subseteq loading
        /\ UNCHANGED <<panicked, restarts, pow_kept, history>>
    BY <1>2 DEF LoadBlock
  <2>. QED BY <2>1, <2>2, AddBlockTypes
<1>3. CASE Restart
  <2>0. PICK earliest_date \in EarliestDates :
          /\ pow_kept' = IF TipLoadable(earliest_date) THEN TipPow ELSE 1
          /\ loading' = {<<b, verified[b]>> : b \in {x \in stored : Loadable(x, earliest_date)}}
    BY <1>3 DEF Restart
  <2>1. loading' \subseteq Block \X SUBSET Flag
    BY <2>0 DEF TypeOK
  <2>2. pow_kept' \in Nat
    BY <2>0, TipPowType
  <2>3. restarts' \in 0 .. MaxRestarts
    BY <1>3, WindowAssumption DEF Restart, TypeOK
  <2>4. current_tip' \in Heights /\ peak' \in Heights
    BY <1>3, ChainAssumption DEF Restart, Heights
  <2>5. /\ stored' = {} /\ verified' = [b \in Block |-> {}]
        /\ chain_block' = [h \in Heights |-> Zero] /\ lwma' = <<>> /\ panicked' = FALSE
        /\ skipped' = FALSE /\ UNCHANGED rerooted
    BY <1>3 DEF Restart
  <2>6. verified' \in [Block -> SUBSET Flag] /\ chain_block' \in [Heights -> Block \cup {Zero}]
    BY <2>5
  <2>7. /\ next_level' \in Seq(Block) /\ processed' = {} /\ new_tip' = Zero
        /\ missing_blocks' = {} /\ lwma' \in Seq(Block)
    BY <1>3, <2>5 DEF Restart, Abort
  <2>. QED BY <2>1, <2>2, <2>3, <2>4, <2>5, <2>6, <2>7 DEF TypeOK
<1>4. CASE UNCHANGED vars
  BY <1>4 DEF vars, chain_vars, call_vars, node_vars, history, TypeOK
<1>. QED
  BY <1>1, <1>2, <1>3, <1>4, VerifyStepTypeOK DEF Next

LEMMA InitTypeOK == Init => TypeOK
<1>. SUFFICES ASSUME Init PROVE TypeOK
  OBVIOUS
<1>1. verified \in [Block -> SUBSET Flag] /\ chain_block \in [Heights -> Block \cup {Zero}]
  BY DEF Init
<1>2. current_tip \in Heights /\ peak \in Heights /\ restarts \in 0 .. MaxRestarts
  BY ChainAssumption, WindowAssumption DEF Init, Heights
<1>3. lwma \in Seq(Block) /\ next_level \in Seq(Block) /\ pow_kept \in Nat
  BY DEF Init
<1>. QED BY <1>1, <1>2, <1>3 DEF Init, TypeOK

\* Every variable keeps its type: in particular the tip stays within the levels,
\* and the LWMA cache and the queue of verify_chain hold blocks only.
THEOREM ChainTypeCorrectness == Spec => []TypeOK
BY InitTypeOK, NextTypeOK, PTL DEF Spec

-----------------------------------------------------------------------------
(* The share window of the main chain.  The theorems below hold on two      *)
(* conditions, which the code does not enforce.                            *)

\* Pruning, which counts the levels above the tip too, leaves the share window.
Room ==
  Cardinality({height[x] : x \in {y \in stored : height[y] > current_tip}}) + ShareWindow
    <= MaxLevels

\* No reorganisation goes back a whole share window below the highest tip.
ShallowReorgs == current_tip + ShareWindow > peak

\* Without a tip nothing is linked, and a chain start without a parent can be
\* taken as it is.
NoTipYet ==
  ~HasTip => /\ current_tip = 0 /\ peak = 0 /\ lwma = <<>>
             /\ \A h \in Heights : chain_block[h] = Zero
             /\ \A b \in stored : height[b] = 0 /\ prev[b] = Zero => b \notin BadTarget

StartsPlain == \A b \in stored : height[b] = 0 => uncles[b] = {}

\* A block that is reloaded is not there yet, and comes once.
LoadingFresh ==
  \A r \in loading : /\ r[1] \notin stored /\ "target" \in r[2]
                     /\ height[r[1]] = 0 => uncles[r[1]] = {}
                     /\ \A q \in loading : q[1] = r[1] => q = r

LinkHeights ==
  \A h \in Heights : chain_block[h] # Zero => height[chain_block[h]] = h /\ h <= current_tip

\* The LWMA cache is a tail of the main chain: full, or down to the window's bottom.
LwmaIsTail ==
  HasTip => \E m \in 1 .. LwmaSize :
              /\ m <= current_tip + 1
              /\ m = LwmaSize \/ m + WindowBottom >= current_tip + 1
              /\ lwma = [i \in 1 .. m |-> anc[TipHash][m - i]]

ChainInv ==
  /\ TypeOK /\ IInv /\ NoTipYet /\ StartsPlain /\ LoadingFresh /\ LinkHeights
  /\ current_tip <= peak /\ LwmaIsTail /\ MainChainSound /\ NoPanic /\ ~rerooted

\* What a step does that does not make a second chain start the tip.
LEMMA NotRerooting ==
  ASSUME NEW b \in Block, VerifyStep(b), ~rerooted'
  PROVE  /\ ChainStart(b) => prev[b] = Zero
         /\ ExtendTip(b) => height[b] # 0
         /\ ~ReorgAtStart(b)
<1>1. ~Reroots(b)
  BY DEF VerifyStep
<1>. QED BY <1>1 DEF Reroots, ChainStart, ExtendTip, ReorgAtStart

\* Once a second chain start was the tip, that is never forgotten.
LEMMA RerootedStays == rerooted /\ [Next]_vars => rerooted'
BY DEF Next, submit_block, VerifyStep, LoadBlock, Restart, vars, history

LEMMA TipFacts ==
  ASSUME TypeOK, LinkHeights, HasTip
  PROVE  TipHash \in Block /\ height[TipHash] = current_tip /\ current_tip \in Nat
BY ChainAssumption DEF TypeOK, LinkHeights, HasTip, TipHash, Heights

LEMMA BottomFacts ==
  ASSUME TypeOK
  PROVE  /\ WindowBottom \in Nat /\ WindowBottom + ShareWindow >= peak + 1
         /\ WindowBottom <= peak /\ peak \in Nat /\ current_tip \in Nat
         /\ WindowBottom = 0 \/ WindowBottom + ShareWindow = peak + 1
BY WindowAssumption DEF TypeOK, Heights, WindowBottom

\* Below a block that is linked, everything down to the window's bottom is
\* linked, stored and verified.
LEMMA SoundBelow ==
  ASSUME ChainInv, NEW b \in Block, NEW i \in 0 .. height[b], NEW k \in i .. height[b],
         chain_block[height[b] - i] = anc[b][i], height[b] - k >= WindowBottom
  PROVE  /\ anc[b][k] \in stored /\ IsVerified(anc[b][k])
         /\ chain_block[height[b] - k] = anc[b][k]
<1>. DEFINE h == height[b] - i
<1>. DEFINE j == current_tip - h
<1>. DEFINE t == TipHash
<1>1. height[b] \in Nat /\ height[b] <= MaxHeight /\ MaxHeight \in Nat
  BY BlockFacts, ChainAssumption
<1>2. h \in Heights /\ anc[b][i] \in Block /\ anc[b][i] # Zero
  BY <1>1, AncestorFacts, BlockFacts DEF Heights
<1>3. h <= current_tip
  BY <1>2 DEF ChainInv, LinkHeights
<1>4. HasTip
  BY <1>2 DEF ChainInv, NoTipYet
<1>5. t \in Block /\ height[t] = current_tip /\ current_tip \in Nat
  BY <1>4, TipFacts DEF ChainInv
<1>. HIDE DEF t
<1>6. WindowBottom \in Nat
  BY BottomFacts DEF ChainInv
<1>7. /\ j \in 0 .. current_tip /\ j + (k - i) \in 0 .. current_tip
      /\ k - i \in 0 .. (height[b] - i) /\ k - i \in 0 .. (current_tip - j)
      /\ current_tip - j >= WindowBottom /\ current_tip - (j + (k - i)) >= WindowBottom
      /\ current_tip - j = h /\ current_tip - (j + (k - i)) = height[b] - k
      /\ i + (k - i) = k
  BY <1>1, <1>2, <1>3, <1>5, <1>6
<1>8. \A g \in 0 .. current_tip :
        current_tip - g >= WindowBottom =>
          /\ anc[t][g] \in stored /\ IsVerified(anc[t][g])
          /\ chain_block[current_tip - g] = anc[t][g]
  BY <1>4 DEF ChainInv, MainChainSound, t
<1>. HIDE DEF h, j
<1>9. anc[b][i] = anc[t][j]
  BY <1>7, <1>8 DEF h
<1>10. anc[b][k] = anc[anc[b][i]][k - i]
  BY <1>7, AncestorsCompose
<1>11. anc[t][j + (k - i)] = anc[anc[t][j]][k - i]
  BY <1>5, <1>7, AncestorsCompose
<1>12. anc[b][k] = anc[t][j + (k - i)]
  BY <1>9, <1>10, <1>11
<1>. QED BY <1>7, <1>8, <1>12

LEMMA UnionBound ==
  ASSUME NEW S, IsFiniteSet(S), NEW T, IsFiniteSet(T), NEW V, V \subseteq S \cup T
  PROVE  Cardinality(V) \in Nat /\ Cardinality(V) <= Cardinality(S) + Cardinality(T)
<1>. DEFINE U == S \cup T
<1>. DEFINE I == S \cap T
<1>1. IsFiniteSet(U) /\ Cardinality(U) = Cardinality(S) + Cardinality(T) - Cardinality(I)
  BY FS_Union
<1>2. IsFiniteSet(I)
  BY FS_Intersection
<1>3. V \in SUBSET U
  OBVIOUS
<1>. HIDE DEF U, I
<1>4. /\ Cardinality(S) \in Nat /\ Cardinality(T) \in Nat
      /\ Cardinality(U) \in Nat /\ Cardinality(I) \in Nat
  BY <1>1, <1>2, FS_CardinalityType
<1>5. IsFiniteSet(V) /\ Cardinality(V) <= Cardinality(U)
  BY <1>1, <1>3, FS_Subset
<1>6. Cardinality(V) \in Nat
  BY <1>5, FS_CardinalityType
<1>. QED BY <1>1, <1>4, <1>5, <1>6

\* The levels of the share window survive the pruning of set_new_tip.
LEMMA WindowKept ==
  ASSUME TypeOK, Room, NEW h \in Heights, h + ShareWindow >= current_tip + 1
  PROVE  Cardinality({g \in {height[x] : x \in stored} : g >= h}) <= MaxLevels
<1>. DEFINE above == {height[x] : x \in {y \in stored : height[y] > current_tip}}
<1>. DEFINE levels == {g \in {height[x] : x \in stored} : g >= h}
<1>1. current_tip \in Nat /\ h \in Nat /\ ShareWindow \in Nat /\ MaxLevels \in Nat /\ MaxHeight \in Nat
  BY WindowAssumption, ChainAssumption DEF TypeOK, Heights
<1>2. \A x \in stored : height[x] \in Nat /\ height[x] \in Heights
  BY BlockFacts DEF TypeOK
<1>3. levels \subseteq above \cup (h .. current_tip)
  BY <1>1, <1>2
<1>. DEFINE window == h .. current_tip
<1>4. IsFiniteSet(above) /\ Cardinality(above) \in Nat
  <2>1. above \in SUBSET Nat /\ \A g \in above : g <= MaxHeight
    BY <1>2 DEF Heights
  <2>. HIDE DEF above
  <2>. QED BY <1>1, <2>1, FS_BoundedSetOfNaturals, FS_CardinalityType
<1>5. /\ IsFiniteSet(window) /\ Cardinality(window) \in Nat
      /\ Cardinality(window) <= ShareWindow
  <2>1. IsFiniteSet(window) /\ Cardinality(window) = IF h > current_tip THEN 0 ELSE current_tip - h + 1
    BY <1>1, FS_Interval
  <2>. HIDE DEF window
  <2>. QED BY <1>1, <2>1
<1>6. Cardinality(above) + ShareWindow <= MaxLevels
  BY DEF Room
<1>. HIDE DEF above, levels, window
<1>7. /\ Cardinality(levels) \in Nat
      /\ Cardinality(levels) <= Cardinality(above) + Cardinality(window)
  BY <1>3, <1>4, <1>5, UnionBound DEF window
<1>8. Cardinality(levels) <= MaxLevels
  BY <1>1, <1>4, <1>5, <1>6, <1>7
<1>. QED BY <1>8 DEF levels

\* A step that leaves the links alone and keeps what is verified.
LEMMA QuietStep ==
  ASSUME ChainInv, UNCHANGED <<chain_block, current_tip, lwma, peak>>, stored \subseteq stored',
         \A x \in stored : verified[x] = Flag => verified'[x] = Flag
  PROVE  LinkHeights' /\ current_tip' <= peak' /\ LwmaIsTail' /\ MainChainSound'
<1>1. LinkHeights' /\ current_tip' <= peak'
  BY DEF ChainInv, LinkHeights
<1>2. LwmaIsTail'
  BY DEF ChainInv, LwmaIsTail, HasTip, TipHash, WindowBottom
<1>3. MainChainSound'
  BY DEF ChainInv, MainChainSound, HasTip, TipHash, WindowBottom, IsVerified
<1>. QED BY <1>1, <1>2, <1>3

\* A step of verify_chain that sets the flags of its block and nothing else.
LEMMA SetVerifiedChainInv ==
  ASSUME ChainInv, NEW b \in Block, ~VerifyFails(b), ~panicked, SetVerified(b), TypeOK', ~rerooted',
         UNCHANGED <<stored, chain_block, current_tip, lwma, peak, loading, panicked>>
  PROVE  ChainInv'
<1>1. VerifiedFlags(b) \in SUBSET Flag /\ verified[b] \subseteq VerifiedFlags(b)
  BY VerifiedFlagsType DEF ChainInv, VerifiedFlags
<1>2. ASSUME NEW x \in stored, verified[x] = Flag PROVE verified'[x] = Flag
  <2>1. verified'[x] = IF x = b THEN VerifiedFlags(b) ELSE verified[x]
    BY DEF SetVerified, ChainInv, TypeOK
  <2>2. x = b => VerifiedFlags(b) = Flag
    BY <1>1, <1>2
  <2>. QED BY <1>2, <2>1, <2>2
<1>3. LinkHeights' /\ current_tip' <= peak' /\ LwmaIsTail' /\ MainChainSound'
  BY <1>2, QuietStep
<1>4. IInv'
  BY SetVerifiedIInv DEF ChainInv
<1>5. NoTipYet' /\ StartsPlain' /\ LoadingFresh' /\ NoPanic'
  BY DEF ChainInv, NoTipYet, StartsPlain, LoadingFresh, NoPanic, HasTip
<1>. QED BY <1>3, <1>4, <1>5 DEF ChainInv

\* What set_new_tip keeps and links on top of the tip, or as the chain start.
LEMMA SetNewTipKeeps ==
  ASSUME TypeOK, Room, NEW b \in Block, SetNewTip(b)
  PROVE  /\ stored' \subseteq stored
         /\ \A h \in Heights :
              chain_block'[h] = Zero \/ chain_block'[h] = (IF h = height[b] THEN b ELSE chain_block[h])
         /\ \A h \in Heights : h + ShareWindow >= current_tip + 1 =>
              chain_block'[h] = (IF h = height[b] THEN b ELSE chain_block[h])
         /\ \A x \in stored : height[x] + ShareWindow >= current_tip + 1 =>
              x \in stored' /\ verified'[x] = (IF x = b THEN VerifiedFlags(b) ELSE verified[x])
<1>. DEFINE keeps(h) == Cardinality({g \in {height[x] : x \in stored} : g >= h}) <= MaxLevels
<1>. DEFINE linked == [chain_block EXCEPT ![height[b]] = b]
<1>1. /\ stored' = {x \in stored : keeps(height[x])}
      /\ verified' = [x \in Block |-> IF ~keeps(height[x]) THEN {}
                                      ELSE IF x = b THEN VerifiedFlags(b) ELSE verified[x]]
      /\ chain_block' = [h \in Heights |-> IF keeps(h) THEN linked[h] ELSE Zero]
  BY DEF SetNewTip
<1>2. \A h \in Heights : linked[h] = (IF h = height[b] THEN b ELSE chain_block[h])
  BY DEF TypeOK
<1>3. \A h \in Heights : h + ShareWindow >= current_tip + 1 => keeps(h)
  BY WindowKept
<1>4. \A x \in stored : x \in Block /\ height[x] \in Heights
  BY BlockFacts DEF TypeOK
<1>. HIDE DEF keeps, linked
<1>. QED BY <1>1, <1>2, <1>3, <1>4

\* The chain start passes every check, so it is verified when it becomes the tip.
LEMMA ChainStartVerified ==
  ASSUME ChainInv, NEW b \in stored, ~HasTip, height[b] = 0, prev[b] = Zero
  PROVE  VerifiedFlags(b) = Flag
<1>1. b \in Block /\ uncles[b] = {} /\ b \notin BadTarget
  BY DEF ChainInv, TypeOK, StartsPlain, NoTipYet
<1>2. TargetMatches(b)
  <2>1. prev[b] = TipHash
    BY <1>1, BlockFacts DEF HasTip, TipHash
  <2>. QED BY <1>1, <2>1 DEF TargetMatches, TargetWindow, AncestorWindow, ChainInv, NoTipYet
<1>3. ParentsReady(b)
  BY <1>1 DEF ParentsReady, ParentKnown
<1>4. VerifiedFlags(b) \subseteq Flag
  BY <1>1, VerifiedFlagsType DEF ChainInv
<1>. QED BY <1>2, <1>3, <1>4 DEF VerifiedFlags, Flag

\* The tail of the chain that the LWMA holds, slid by a block on top of it.
LEMMA AddBackTail ==
  ASSUME NEW b \in Block, NEW t \in Block, height[b] = height[t] + 1, prev[b] = t,
         NEW m \in 1 .. LwmaSize, m <= height[t] + 1, lwma = [i \in 1 .. m |-> anc[t][m - i]]
  PROVE  \E n \in 1 .. LwmaSize :
           n = (IF m = LwmaSize THEN m ELSE m + 1)
             /\ add_back(lwma, b) = [i \in 1 .. n |-> anc[b][n - i]]
<1>. DEFINE n == IF m = LwmaSize THEN m ELSE m + 1
<1>. DEFINE r == add_back(lwma, b)
<1>1. LwmaSize \in Nat /\ LwmaSize >= 2 /\ m \in Nat /\ height[t] \in Nat
  BY WindowAssumption, BlockFacts
<1>2. lwma \in Seq(Block) /\ Len(lwma) = m
  <2>1. ASSUME NEW i \in 1 .. m PROVE anc[t][m - i] \in Block
    <3>1. m - i \in 0 .. height[t]
      BY <1>1
    <3>. QED BY <3>1, AncestorFacts
  <2>. QED BY <1>1, <2>1
<1>3. ASSUME NEW j \in 0 .. height[t] PROVE anc[b][j + 1] = anc[t][j]
  <2>1. anc[b][1] = t
    <3>1. 1 \in 0 .. height[b] /\ 1 - 1 = 0
      BY <1>1
    <3>2. anc[b][1] = prev[anc[b][1 - 1]]
      BY <3>1, AncestorFacts
    <3>. QED BY <3>1, <3>2, BlockFacts
  <2>2. 1 \in 0 .. height[b] /\ j \in 0 .. (height[b] - 1) /\ 1 + j = j + 1
    BY <1>1
  <2>. QED BY <2>1, <2>2, AncestorsCompose
<1>4. r \in Seq(Block) /\ Len(r) = n /\ r[n] = b
      /\ \A i \in 1 .. (n - 1) : r[i] = IF m = LwmaSize THEN lwma[i + 1] ELSE lwma[i]
  <2>1. CASE m = LwmaSize
    <3>. DEFINE u == Tail(lwma)
    <3>0. Len(lwma) >= LwmaSize
      BY <1>1, <1>2, <2>1
    <3>1. r = Append(u, b)
      BY <3>0, Zenon DEF add_back
    <3>2. u \in Seq(Block) /\ Len(u) = m - 1 /\ \A i \in 1 .. (m - 1) : u[i] = lwma[i + 1]
      <4>1. Len(lwma) = m /\ m > 0 /\ lwma # <<>>
        BY <1>1, <1>2
      <4>. QED BY <1>2, <4>1, SMTT(30)
    <3>. HIDE DEF r, u
    <3>3. /\ Append(u, b) \in Seq(Block) /\ Len(Append(u, b)) = m
          /\ Append(u, b)[m] = b /\ \A i \in 1 .. (m - 1) : Append(u, b)[i] = u[i]
      BY <1>1, <3>2
    <3>. QED BY <2>1, <3>1, <3>2, <3>3
  <2>2. CASE m # LwmaSize
    <3>1. r = Append(lwma, b)
      BY <1>1, <1>2, <2>2 DEF add_back
    <3>. HIDE DEF r
    <3>. QED BY <1>1, <1>2, <2>2, <3>1
  <2>. QED BY <2>1, <2>2
<1>. HIDE DEF r
<1>5. ASSUME NEW i \in 1 .. n PROVE r[i] = anc[b][n - i]
  <2>1. CASE i = n
    <3>1. n - i = 0
      BY <1>1, <2>1
    <3>. QED BY <1>4, <2>1, <3>1, BlockFacts
  <2>2. CASE i # n /\ m = LwmaSize
    <3>1. /\ i \in 1 .. (n - 1) /\ i + 1 \in 1 .. m /\ m - (i + 1) \in 0 .. height[t]
          /\ (m - (i + 1)) + 1 = n - i
      BY <1>1, <2>2
    <3>2. r[i] = anc[t][m - (i + 1)]
      BY <1>4, <2>2, <3>1
    <3>. QED BY <1>3, <3>1, <3>2
  <2>3. CASE i # n /\ m # LwmaSize
    <3>1. i \in 1 .. (n - 1) /\ i \in 1 .. m /\ m - i \in 0 .. height[t] /\ (m - i) + 1 = n - i
      BY <1>1, <2>3
    <3>2. r[i] = anc[t][m - i]
      BY <1>4, <2>3, <3>1
    <3>. QED BY <1>3, <3>1, <3>2
  <2>. QED BY <2>1, <2>2, <2>3
<1>6. n \in 1 .. LwmaSize /\ n \in Nat /\ n = IF m = LwmaSize THEN m ELSE m + 1
  BY <1>1
<1>. HIDE DEF n
<1>7. r = [i \in 1 .. n |-> anc[b][n - i]]
  BY <1>4, <1>5, <1>6
<1>. QED BY <1>6, <1>7 DEF r

\* A block on top of the tip, or the chain start, becomes the tip.
LEMMA SetNewTipChainInv ==
  ASSUME ChainInv, Room, NEW b \in stored, ~VerifyFails(b), ~panicked, SetNewTip(b), TypeOK',
         VerifiedFlags(b) = Flag, UNCHANGED <<loading, panicked>>, ~rerooted',
         (HasTip /\ prev[b] = TipHash /\ height[b] # 0) \/ (~HasTip /\ height[b] = 0)
  PROVE  ChainInv'
<1>1. b \in Block /\ TypeOK /\ ShareWindow \in Nat /\ ShareWindow >= 2 /\ height[b] \in Nat
  BY WindowAssumption, BlockFacts DEF ChainInv, TypeOK
<1>2. /\ HasTip => height[b] = current_tip + 1
      /\ ~HasTip => height[b] = 0 /\ current_tip = 0
      /\ current_tip \in Nat /\ current_tip <= height[b]
  <2>1. CASE HasTip
    <3>1. TipHash \in Block /\ height[TipHash] = current_tip /\ current_tip \in Nat
      BY <2>1, TipFacts DEF ChainInv
    <3>2. height[b] # 0
      BY <2>1
    <3>. QED BY <1>1, <2>1, <3>1, <3>2, BlockFacts
  <2>2. CASE ~HasTip
    BY <1>1, <2>2 DEF ChainInv, NoTipYet
  <2>. QED BY <2>1, <2>2
<1>3. current_tip' = height[b] /\ lwma' = add_back(lwma, b)
      /\ peak' = IF peak >= height[b] THEN peak ELSE height[b]
  BY <1>1, PeakType DEF SetNewTip
<1>4. /\ WindowBottom' \in Nat /\ WindowBottom' >= WindowBottom /\ WindowBottom \in Nat
      /\ WindowBottom' + ShareWindow >= height[b] + 1
      /\ current_tip' <= peak'
  <2>1. peak \in Nat
    BY <1>1 DEF TypeOK, Heights
  <2>2. /\ WindowBottom = IF peak < ShareWindow THEN 0 ELSE peak - ShareWindow + 1
        /\ WindowBottom' = IF peak' < ShareWindow THEN 0 ELSE peak' - ShareWindow + 1
    BY DEF WindowBottom
  <2>. QED BY <1>1, <1>3, <2>1, <2>2
<1>5. /\ stored' \subseteq stored
      /\ \A h \in Heights :
           chain_block'[h] = Zero \/ chain_block'[h] = (IF h = height[b] THEN b ELSE chain_block[h])
      /\ \A h \in Heights : h + ShareWindow >= current_tip + 1 =>
           chain_block'[h] = (IF h = height[b] THEN b ELSE chain_block[h])
      /\ \A x \in stored : height[x] + ShareWindow >= current_tip + 1 =>
           x \in stored' /\ verified'[x] = (IF x = b THEN Flag ELSE verified[x])
  BY <1>1, SetNewTipKeeps
<1>6. height[b] \in Heights /\ height[b] + ShareWindow >= current_tip + 1
  BY <1>1, <1>2, BlockFacts
<1>7. HasTip' /\ TipHash' = b
  BY <1>1, <1>3, <1>5, <1>6, BlockFacts DEF HasTip, TipHash
<1>8. IInv'
  BY <1>1, SetNewTipIInv DEF ChainInv
<1>9. LinkHeights'
  <2>1. ASSUME NEW h \in Heights, chain_block'[h] # Zero
        PROVE  height[chain_block'[h]] = h /\ h <= current_tip'
    <3>1. CASE h = height[b]
      BY <1>1, <1>3, <1>5, <2>1, <3>1
    <3>2. CASE h # height[b]
      <4>1. chain_block'[h] = chain_block[h] /\ chain_block[h] # Zero
        BY <1>5, <2>1, <3>2
      <4>2. height[chain_block[h]] = h /\ h <= current_tip
        BY <4>1 DEF ChainInv, LinkHeights
      <4>. QED BY <1>1, <1>2, <1>3, <4>1, <4>2 DEF Heights
    <3>. QED BY <3>1, <3>2
  <2>. QED BY <2>1 DEF LinkHeights
<1>10. HasTip => anc[b][1] = TipHash /\ \A j \in 0 .. current_tip : anc[b][j + 1] = anc[TipHash][j]
  <2>. SUFFICES ASSUME HasTip
                PROVE  anc[b][1] = TipHash
                       /\ \A j \in 0 .. current_tip : anc[b][j + 1] = anc[TipHash][j]
    OBVIOUS
  <2>1. 1 \in 0 .. height[b] /\ 1 - 1 = 0
    BY <1>1, <1>2
  <2>2. anc[b][1] = prev[anc[b][1 - 1]]
    BY <1>1, <2>1, AncestorFacts
  <2>3. anc[b][1] = TipHash
    BY <1>1, <2>1, <2>2, BlockFacts
  <2>4. ASSUME NEW j \in 0 .. current_tip PROVE anc[b][j + 1] = anc[TipHash][j]
    <3>1. j \in 0 .. (height[b] - 1) /\ 1 + j = j + 1
      BY <1>1, <1>2
    <3>. QED BY <1>1, <2>1, <2>3, <3>1, AncestorsCompose
  <2>. QED BY <2>3, <2>4
<1>11. MainChainSound'
  <2>1. ASSUME NEW i \in 0 .. height[b], height[b] - i >= WindowBottom'
        PROVE  /\ anc[b][i] \in stored' /\ verified'[anc[b][i]] = Flag
               /\ chain_block'[height[b] - i] = anc[b][i]
    <3>1. CASE i = 0
      <4>1. anc[b][i] = b /\ height[b] - i = height[b]
        BY <1>1, <3>1, BlockFacts
      <4>. QED BY <1>5, <1>6, <4>1
    <3>2. CASE i # 0
      <4>1. HasTip
        BY <1>1, <1>2, <3>2
      <4>. DEFINE j == i - 1
      <4>. DEFINE x == anc[TipHash][j]
      <4>2. /\ j \in 0 .. current_tip /\ j + 1 = i /\ current_tip - j = height[b] - i
            /\ current_tip - j >= WindowBottom
        BY <1>1, <1>2, <1>4, <2>1, <3>2, <4>1
      <4>3. anc[b][i] = x
        BY <1>10, <4>1, <4>2
      <4>4. x \in stored /\ verified[x] = Flag /\ chain_block[height[b] - i] = x
        BY <4>1, <4>2 DEF ChainInv, MainChainSound, IsVerified
      <4>5. height[x] = height[b] - i
        BY <1>1, <4>3, AncestorFacts
      <4>. HIDE DEF x, j
      <4>6. /\ height[b] - i \in Heights /\ height[x] # height[b]
            /\ height[x] + ShareWindow >= current_tip + 1
            /\ (height[b] - i) + ShareWindow >= current_tip + 1 /\ height[b] - i # height[b]
        BY <1>1, <1>2, <1>4, <2>1, <3>2, <4>5, BlockFacts, ChainAssumption DEF Heights
      <4>. QED BY <1>5, <4>3, <4>4, <4>6
    <3>. QED BY <3>1, <3>2
  <2>. QED BY <1>3, <1>7, <2>1 DEF MainChainSound, IsVerified
<1>12. LwmaIsTail'
  <2>1. CASE HasTip
    <3>1. PICK m \in 1 .. LwmaSize :
            /\ m <= current_tip + 1
            /\ m = LwmaSize \/ m + WindowBottom >= current_tip + 1
            /\ lwma = [i \in 1 .. m |-> anc[TipHash][m - i]]
      BY <2>1 DEF ChainInv, LwmaIsTail
    <3>2. TipHash \in Block /\ height[TipHash] = current_tip
      BY <2>1, TipFacts DEF ChainInv
    <3>3. height[b] = height[TipHash] + 1 /\ prev[b] = TipHash /\ m <= height[TipHash] + 1
      BY <1>2, <2>1, <3>1, <3>2
    <3>4. PICK n \in 1 .. LwmaSize :
            n = (IF m = LwmaSize THEN m ELSE m + 1)
              /\ add_back(lwma, b) = [i \in 1 .. n |-> anc[b][n - i]]
      BY <1>1, <3>1, <3>2, <3>3, AddBackTail
    <3>5. /\ n <= height[b] + 1
          /\ n = LwmaSize \/ n + WindowBottom' >= height[b] + 1
      BY <1>1, <1>2, <1>4, <2>1, <3>1, <3>4, WindowAssumption
    <3>6. lwma' = [i \in 1 .. n |-> anc[TipHash'][n - i]]
      BY <1>3, <1>7, <3>4
    <3>. QED BY <1>3, <3>5, <3>6 DEF LwmaIsTail
  <2>2. CASE ~HasTip
    <3>1. lwma' = Append(<<>>, b)
      BY <1>3, <2>2, WindowAssumption DEF add_back, ChainInv, NoTipYet
    <3>2. lwma' = [i \in 1 .. 1 |-> anc[b][1 - i]]
      <4>1. lwma' = <<b>>
        BY <3>1
      <4>2. anc[b][1 - 1] = b
        BY <1>1, BlockFacts
      <4>. QED BY <4>1, <4>2
    <3>3. 1 \in 1 .. LwmaSize /\ 1 <= height[b] + 1 /\ 1 + WindowBottom' >= height[b] + 1
      BY <1>1, <1>2, <1>4, <2>2, WindowAssumption
    <3>. QED BY <1>3, <1>7, <3>2, <3>3 DEF LwmaIsTail
  <2>. QED BY <2>1, <2>2
<1>13. NoTipYet' /\ StartsPlain' /\ LoadingFresh' /\ NoPanic'
  BY <1>5, <1>7 DEF ChainInv, NoTipYet, StartsPlain, LoadingFresh, NoPanic
<1>. QED BY <1>4, <1>8, <1>9, <1>11, <1>12, <1>13 DEF ChainInv

\* What a reorganisation to b does to the links and to the window's bottom.
LEMMA ReorgFacts ==
  ASSUME ChainInv, NEW b \in Block, Reorg(b)
  PROVE  /\ Heavier(b) /\ b \in stored /\ VerifiedFlags(b) = Flag /\ ~VerifyFails(b) /\ ~panicked
         /\ WalkComplete(b) /\ SetVerified(b) /\ UNCHANGED <<stored, loading>>
         /\ current_tip' = height[b] /\ lwma' = WindowFrom(b, RelinkDepth(b) + 1)
         /\ peak' = IF peak >= height[b] THEN peak ELSE height[b]
         /\ WindowBottom' \in Nat /\ WindowBottom' >= WindowBottom /\ WindowBottom \in Nat
         /\ WindowBottom' + ShareWindow >= height[b] + 1 /\ current_tip' <= peak'
         /\ \A i \in 0 .. height[b] :
              chain_block'[height[b] - i] = IF i <= RelinkDepth(b) THEN anc[b][i]
                                            ELSE chain_block[height[b] - i]
<1>1. b \in Block /\ TypeOK /\ ShareWindow \in Nat /\ height[b] \in Nat /\ RelinkDepth(b) \in Nat
  BY WindowAssumption, BlockFacts, RelinkDepthFacts DEF ChainInv
<1>2. /\ Heavier(b) /\ b \in stored /\ VerifiedFlags(b) = Flag /\ ~VerifyFails(b) /\ ~panicked
      /\ WalkComplete(b) /\ SetVerified(b) /\ UNCHANGED <<stored, loading>>
  BY DEF Reorg, Heavier, OffTip, Candidate, Checked, Verifying
<1>3. /\ current_tip' = height[b] /\ lwma' = WindowFrom(b, RelinkDepth(b) + 1)
      /\ peak' = IF peak >= height[b] THEN peak ELSE height[b]
  BY <1>1, PeakType DEF Reorg
<1>4. /\ WindowBottom' \in Nat /\ WindowBottom' >= WindowBottom /\ WindowBottom \in Nat
      /\ WindowBottom' + ShareWindow >= height[b] + 1 /\ current_tip' <= peak'
  <2>1. peak \in Nat
    BY <1>1 DEF TypeOK, Heights
  <2>2. /\ WindowBottom = IF peak < ShareWindow THEN 0 ELSE peak - ShareWindow + 1
        /\ WindowBottom' = IF peak' < ShareWindow THEN 0 ELSE peak' - ShareWindow + 1
    BY DEF WindowBottom
  <2>. QED BY <1>1, <1>3, <2>1, <2>2
<1>5. ASSUME NEW i \in 0 .. height[b]
      PROVE  chain_block'[height[b] - i] = IF i <= RelinkDepth(b) THEN anc[b][i]
                                           ELSE chain_block[height[b] - i]
  <2>. DEFINE top == height[b]
  <2>. DEFINE depth == RelinkDepth(b)
  <2>. DEFINE reset(h) == h > top /\ \A g \in (top + 1) .. h : LevelExists(g)
  <2>. DEFINE h == top - i
  <2>1. chain_block' = [g \in Heights |->
                          IF reset(g) THEN Zero
                          ELSE IF g <= top /\ g >= top - depth THEN anc[b][top - g]
                          ELSE chain_block[g]]
    BY DEF Reorg
  <2>2. /\ h \in Heights /\ h <= top /\ top - h = i /\ ~(h > top)
        /\ (h >= top - depth) <=> (i <= depth)
    <3>1. top \in Nat /\ depth \in Nat /\ MaxHeight \in Nat /\ top <= MaxHeight /\ i \in 0 .. top
      BY <1>1, BlockFacts, ChainAssumption
    <3>. HIDE DEF top, depth
    <3>. QED BY <3>1 DEF Heights
  <2>. HIDE DEF h, depth, top
  <2>3. ~reset(h)
    BY <2>2
  <2>. HIDE DEF reset
  <2>4. chain_block'[h] = IF i <= depth THEN anc[b][i] ELSE chain_block[h]
    BY <2>1, <2>2, <2>3
  <2>. QED BY <2>4 DEF h, depth, top
<1>. QED BY <1>2, <1>3, <1>4, <1>5

\* The blocks a reorganisation has to find below b, down to the window's bottom,
\* are stored and verified: it walked past them, or they were linked.
LEMMA ReorgVerified ==
  ASSUME ChainInv, NEW b \in Block, Reorg(b), NEW i \in 1 .. height[b],
         height[b] - i >= WindowBottom'
  PROVE  anc[b][i] \in stored /\ IsVerified(anc[b][i])
<1>. DEFINE e == WalkEnd(b)
<1>1. /\ height[b] \in Nat /\ ShareWindow \in Nat /\ WindowBottom' \in Nat /\ WindowBottom \in Nat
      /\ WindowBottom' >= WindowBottom /\ WindowBottom' + ShareWindow >= height[b] + 1
      /\ WalkComplete(b)
  BY BlockFacts, WindowAssumption, ReorgFacts
<1>2. /\ e \in 0 .. height[b] /\ ~WalkGoesOn(b, e)
      /\ \A j \in 0 .. height[b] : j < e => WalkGoesOn(b, j)
  BY WalkEndFacts
<1>3. e < height[b] => anc[b][e + 1] \in stored /\ IsVerified(anc[b][e + 1])
  BY <1>1 DEF WalkComplete
<1>. HIDE DEF e
<1>4. CASE i <= e
  <2>1. i - 1 \in 0 .. height[b] /\ i - 1 < e /\ (i - 1) + 1 = i
    BY <1>1, <1>2, <1>4
  <2>2. WalkGoesOn(b, i - 1)
    BY <1>2, <2>1
  <2>. QED BY <2>1, <2>2 DEF WalkGoesOn
<1>5. CASE i = e + 1
  BY <1>1, <1>2, <1>3, <1>5
<1>6. CASE i > e + 1
  <2>1. e < height[b] /\ e + 2 < ShareWindow /\ i \in e .. height[b]
    BY <1>1, <1>2, <1>6
  <2>2. chain_block[height[b] - e] = anc[b][e]
    BY <1>2, <1>3, <2>1 DEF WalkGoesOn
  <2>3. height[b] - i >= WindowBottom
    BY <1>1
  <2>. QED BY <1>2, <2>1, <2>2, <2>3, SoundBelow
<1>. QED BY <1>1, <1>2, <1>4, <1>5, <1>6

\* Relinking goes as far as the links differ, so the window is linked throughout.
LEMMA ReorgLinked ==
  ASSUME ChainInv, NEW b \in Block, Reorg(b), NEW i \in 0 .. height[b],
         height[b] - i >= WindowBottom'
  PROVE  chain_block'[height[b] - i] = anc[b][i]
<1>. DEFINE d == RelinkDepth(b)
<1>1. /\ height[b] \in Nat /\ ShareWindow \in Nat /\ WindowBottom' \in Nat /\ WindowBottom \in Nat
      /\ WindowBottom' >= WindowBottom /\ WindowBottom' + ShareWindow >= height[b] + 1
      /\ ShareWindow >= 2
  BY BlockFacts, WindowAssumption, ReorgFacts
<1>2. d \in 0 .. height[b] /\ (d = height[b] \/ ~Relinks(b, d + 1))
  BY RelinkDepthFacts
<1>3. chain_block'[height[b] - i] = IF i <= d THEN anc[b][i] ELSE chain_block[height[b] - i]
  BY ReorgFacts
<1>. HIDE DEF d
<1>4. CASE i <= d
  BY <1>3, <1>4
<1>5. CASE i > d
  <2>. DEFINE j == d + 1
  <2>1. j \in 1 .. height[b] /\ ~Relinks(b, j) /\ height[b] - j >= WindowBottom' /\ j < ShareWindow
        /\ i \in j .. height[b] /\ j \in 0 .. height[b] /\ height[b] - i >= WindowBottom
    BY <1>1, <1>2, <1>5
  <2>. HIDE DEF j
  <2>2. anc[b][j] \in stored /\ height[anc[b][j]] = height[b] - j
    BY <2>1, ReorgVerified, AncestorFacts
  <2>3. LevelExists(height[b] - j)
    BY <2>2 DEF LevelExists
  <2>4. chain_block[height[b] - j] = anc[b][j]
    BY <2>1, <2>3 DEF Relinks
  <2>5. chain_block[height[b] - i] = anc[b][i]
    BY <2>1, <2>4, SoundBelow
  <2>. QED BY <1>1, <1>2, <1>3, <1>5, <2>5
<1>. QED BY <1>1, <1>2, <1>4, <1>5

\* The LWMA of a reorganisation is full, or goes down to the window's bottom.
LEMMA ReorgLwma ==
  ASSUME ChainInv, NEW b \in Block, Reorg(b)
  PROVE  \E m \in 1 .. LwmaSize :
           /\ m <= height[b] + 1
           /\ m = LwmaSize \/ m + WindowBottom' >= height[b] + 1
           /\ lwma' = [i \in 1 .. m |-> anc[b][m - i]]
<1>. DEFINE d == RelinkDepth(b)
<1>1. /\ height[b] \in Nat /\ ShareWindow \in Nat /\ WindowBottom' \in Nat /\ ShareWindow >= 2
      /\ WindowBottom' + ShareWindow >= height[b] + 1
      /\ LwmaSize \in Nat /\ lwma' = WindowFrom(b, d + 1)
  BY BlockFacts, WindowAssumption, ReorgFacts
<1>2. d \in 0 .. height[b] /\ (d = height[b] \/ ~Relinks(b, d + 1))
  BY RelinkDepthFacts
<1>. HIDE DEF d
<1>3. PICK m \in Nat :
        /\ 1 <= m /\ m <= d + 1 /\ m <= LwmaSize /\ m <= height[b] + 1
        /\ m = d + 1 \/ m = LwmaSize \/ m = height[b] + 1
        /\ WindowFrom(b, d + 1) = [i \in 1 .. m |-> anc[b][m - i]]
  <2>1. d + 1 \in Nat /\ d + 1 > 0
    BY <1>1, <1>2
  <2>. QED BY <2>1, WindowFromFacts
<1>4. m = LwmaSize \/ m + WindowBottom' >= height[b] + 1
  <2>. SUFFICES ASSUME m < LwmaSize, m + WindowBottom' < height[b] + 1 PROVE FALSE
    BY <1>1, <1>3
  <2>1. m = d + 1 /\ d # height[b] /\ d + 1 \in 1 .. height[b] /\ d + 1 < LwmaSize
        /\ height[b] - (d + 1) >= WindowBottom' /\ d + 1 < ShareWindow
    BY <1>1, <1>2, <1>3
  <2>2. anc[b][d + 1] \in stored /\ height[anc[b][d + 1]] = height[b] - (d + 1)
    <3>1. d + 1 \in 0 .. height[b]
      BY <1>1, <2>1
    <3>. QED BY <2>1, <3>1, ReorgVerified, AncestorFacts
  <2>3. Relinks(b, d + 1)
    BY <2>1, <2>2 DEF Relinks, LevelExists
  <2>. QED BY <1>2, <2>1, <2>3
<1>5. m \in 1 .. LwmaSize /\ lwma' = [i \in 1 .. m |-> anc[b][m - i]]
  BY <1>1, <1>3
<1>. QED BY <1>3, <1>4, <1>5

\* A reorganisation that stays within a share window of the highest tip.
LEMMA ReorgChainInv ==
  ASSUME ChainInv, NEW b \in Block, Reorg(b), ShallowReorgs', TypeOK', ~rerooted'
  PROVE  ChainInv'
<1>1. /\ height[b] \in Nat /\ ShareWindow \in Nat /\ ShareWindow >= 2
      /\ WindowBottom' \in Nat /\ WindowBottom \in Nat /\ WindowBottom' >= WindowBottom
      /\ WindowBottom' + ShareWindow >= height[b] + 1 /\ WindowBottom' <= height[b]
  <2>1. current_tip' + ShareWindow > peak' /\ current_tip' = height[b]
    BY ReorgFacts DEF ShallowReorgs
  <2>2. WindowBottom' = IF peak' < ShareWindow THEN 0 ELSE peak' - ShareWindow + 1
    BY DEF WindowBottom
  <2>3. peak' \in Nat
    BY DEF TypeOK, Heights
  <2>4. /\ height[b] \in Nat /\ ShareWindow \in Nat /\ ShareWindow >= 2
        /\ WindowBottom' \in Nat /\ WindowBottom \in Nat /\ WindowBottom' >= WindowBottom
        /\ WindowBottom' + ShareWindow >= height[b] + 1
    BY BlockFacts, WindowAssumption, ReorgFacts
  <2>5. WindowBottom' <= height[b]
    BY <2>1, <2>2, <2>3, <2>4
  <2>. QED BY <2>4, <2>5
<1>2. /\ b \in stored /\ VerifiedFlags(b) = Flag /\ ~VerifyFails(b) /\ SetVerified(b)
      /\ UNCHANGED <<stored, loading>> /\ current_tip' = height[b] /\ current_tip' <= peak'
  BY ReorgFacts
<1>3. ASSUME NEW i \in 0 .. height[b], height[b] - i >= WindowBottom'
      PROVE  /\ anc[b][i] \in stored' /\ verified'[anc[b][i]] = Flag
             /\ chain_block'[height[b] - i] = anc[b][i]
  <2>1. chain_block'[height[b] - i] = anc[b][i]
    BY <1>3, ReorgLinked
  <2>2. verified' = [verified EXCEPT ![b] = Flag] /\ verified \in [Block -> SUBSET Flag]
    BY <1>2 DEF SetVerified, ChainInv, TypeOK
  <2>3. CASE i = 0
    BY <1>2, <2>1, <2>2, <2>3, BlockFacts
  <2>4. CASE i # 0
    <3>1. i \in 1 .. height[b]
      BY <1>1, <2>4
    <3>2. anc[b][i] \in stored /\ verified[anc[b][i]] = Flag /\ anc[b][i] \in Block
      BY <1>3, <3>1, ReorgVerified, AncestorFacts DEF IsVerified
    <3>. QED BY <1>2, <2>1, <2>2, <3>2
  <2>. QED BY <2>3, <2>4
<1>4. HasTip' /\ TipHash' = b
  <2>1. 0 \in 0 .. height[b] /\ height[b] - 0 = height[b] /\ height[b] - 0 >= WindowBottom'
    BY <1>1
  <2>2. chain_block'[height[b]] = b
    BY <1>3, <2>1, BlockFacts
  <2>. QED BY <1>2, <2>2, BlockFacts DEF HasTip, TipHash
<1>5. MainChainSound'
  BY <1>2, <1>3, <1>4 DEF MainChainSound, IsVerified
<1>6. LwmaIsTail'
  <2>1. PICK m \in 1 .. LwmaSize :
          /\ m <= height[b] + 1
          /\ m = LwmaSize \/ m + WindowBottom' >= height[b] + 1
          /\ lwma' = [i \in 1 .. m |-> anc[b][m - i]]
    BY ReorgLwma
  <2>2. lwma' = [i \in 1 .. m |-> anc[TipHash'][m - i]]
    BY <1>4, <2>1
  <2>. QED BY <1>2, <2>1, <2>2 DEF LwmaIsTail
<1>7. LinkHeights'
  <2>1. ASSUME NEW h \in Heights, chain_block'[h] # Zero
        PROVE  height[chain_block'[h]] = h /\ h <= current_tip'
    <3>1. h \in Nat /\ current_tip \in Nat /\ current_tip \in Heights
      BY ChainAssumption DEF Heights, ChainInv, TypeOK
    <3>2. CASE h <= height[b]
      <4>. DEFINE i == height[b] - h
      <4>1. i \in 0 .. height[b] /\ height[b] - i = h
        BY <1>1, <3>1, <3>2
      <4>. HIDE DEF i
      <4>2. chain_block'[h] = anc[b][i] \/ chain_block'[h] = chain_block[h]
        BY <4>1, ReorgFacts
      <4>3. height[anc[b][i]] = h
        BY <4>1, AncestorFacts
      <4>4. chain_block'[h] = chain_block[h] => height[chain_block[h]] = h
        BY <2>1 DEF ChainInv, LinkHeights
      <4>. QED BY <1>2, <3>2, <4>2, <4>3, <4>4
    <3>3. CASE h > height[b]
      <4>1. ASSUME chain_block[h] # Zero PROVE \A g \in (height[b] + 1) .. h : LevelExists(g)
        <5>1. h <= current_tip /\ HasTip
          BY <4>1, <3>1 DEF ChainInv, LinkHeights, NoTipYet
        <5>2. ASSUME NEW g \in (height[b] + 1) .. h PROVE LevelExists(g)
          <6>. DEFINE i == current_tip - g
          <6>1. i \in 0 .. current_tip /\ current_tip - i = g /\ g >= WindowBottom
            BY <1>1, <3>1, <5>1
          <6>2. TipHash \in Block /\ height[TipHash] = current_tip
            BY <5>1, TipFacts DEF ChainInv
          <6>. HIDE DEF i
          <6>3. anc[TipHash][i] \in stored
            BY <5>1, <6>1 DEF ChainInv, MainChainSound
          <6>4. height[anc[TipHash][i]] = g
            BY <6>1, <6>2, AncestorFacts
          <6>. QED BY <6>3, <6>4 DEF LevelExists
        <5>. QED BY <5>2
      <4>2. chain_block'[h] = IF \A g \in (height[b] + 1) .. h : LevelExists(g)
                              THEN Zero ELSE chain_block[h]
        <5>1. ~(h <= height[b])
          BY <1>1, <3>1, <3>3
        <5>. QED BY <3>3, <5>1 DEF Reorg
      <4>. QED BY <2>1, <4>1, <4>2
    <3>. QED BY <1>1, <3>1, <3>2, <3>3
  <2>. QED BY <2>1 DEF LinkHeights
<1>8. NoPanic'
  <2>. SUFFICES ASSUME panicked', ~(current_tip' < peak') PROVE FALSE
    BY DEF NoPanic
  <2>1. peak' = height[b] /\ peak' \in Nat
    BY <1>2, <1>1, ReorgFacts DEF TypeOK, Heights
  <2>2. WindowBottom' = 0 \/ WindowBottom' + ShareWindow = height[b] + 1
    BY <1>1, <2>1 DEF WindowBottom
  <2>3. ASSUME NEW i \in 1 .. RelinkDepth(b) PROVE anc[b][i] \in stored
    <3>1. RelinkDepth(b) \in 0 .. height[b] /\ Relinks(b, i)
      BY RelinkDepthFacts
    <3>2. i < ShareWindow
      BY <1>1, <3>1 DEF Relinks
    <3>3. i \in 1 .. height[b] /\ height[b] - i >= WindowBottom'
      BY <1>1, <2>2, <3>1, <3>2
    <3>. QED BY <3>3, ReorgVerified
  <2>4. Relinkable(b)
    BY <2>3 DEF Relinkable
  <2>. QED BY <2>4 DEF Reorg
<1>9. IInv'
  BY <1>2, SetVerifiedIInv DEF ChainInv
<1>10. NoTipYet' /\ StartsPlain' /\ LoadingFresh'
  BY <1>2, <1>4 DEF ChainInv, NoTipYet, StartsPlain, LoadingFresh
<1>. QED BY <1>2, <1>5, <1>6, <1>7, <1>8, <1>9, <1>10 DEF ChainInv

LEMMA VerifyStepChainInv ==
  ASSUME ChainInv, Room, ShallowReorgs', TypeOK', NEW b \in Block, VerifyStep(b), ~rerooted'
  PROVE  ChainInv'
<1>1. ASSUME UNCHANGED <<chain_vars, node_vars>> PROVE ChainInv'
  <2>1. LinkHeights' /\ current_tip' <= peak' /\ LwmaIsTail' /\ MainChainSound'
    BY <1>1, QuietStep DEF chain_vars
  <2>2. NoTipYet' /\ StartsPlain' /\ LoadingFresh' /\ NoPanic' /\ IInv'
    BY <1>1 DEF ChainInv, chain_vars, node_vars, NoTipYet, StartsPlain, LoadingFresh, NoPanic,
                HasTip, IInv, FlagShape, FlagsSound
  <2>. QED BY <2>1, <2>2 DEF ChainInv
<1>2. CASE ReportMissing(b)
  BY <1>1, <1>2 DEF ReportMissing
<1>3. CASE InvalidBlock(b)
  BY <1>1, <1>3 DEF InvalidBlock
<1>4. CASE ChainStart(b)
  <2>1. /\ b \in stored /\ ~HasTip /\ height[b] = 0 /\ ~VerifyFails(b) /\ ~panicked /\ SetNewTip(b)
        /\ UNCHANGED <<loading, panicked>> /\ prev[b] = Zero
    BY <1>4, NotRerooting DEF ChainStart, Checked, Verifying, node_vars
  <2>. QED BY <2>1, ChainStartVerified, SetNewTipChainInv
<1>5. CASE NotYetVerified(b)
  BY <1>5, SetVerifiedChainInv DEF NotYetVerified, Candidate, Checked, Verifying, node_vars
<1>6. CASE RejectUncles(b)
  BY <1>6, SetVerifiedChainInv
     DEF RejectUncles, BuildsOnTip, Candidate, Checked, Verifying, node_vars
<1>7. CASE ExtendTip(b)
  <2>1. height[b] # 0
    BY <1>7, NotRerooting
  <2>. QED BY <1>7, <2>1, SetNewTipChainInv
           DEF ExtendTip, BuildsOnTip, Candidate, Checked, Verifying, node_vars
<1>8. CASE ForkIncomplete(b)
  BY <1>8, SetVerifiedChainInv DEF ForkIncomplete, OffTip, Candidate, Checked, Verifying, node_vars
<1>9. CASE ForkNotHeavier(b)
  BY <1>9, SetVerifiedChainInv DEF ForkNotHeavier, OffTip, Candidate, Checked, Verifying, node_vars
<1>10. CASE Reorg(b)
  BY <1>10, ReorgChainInv
<1>. QED
  BY <1>2, <1>3, <1>4, <1>5, <1>6, <1>7, <1>8, <1>9, <1>10, NotRerooting DEF VerifyStep

\* A block that is added was not verified in memory: a submitted one may replace
\* an unverified one, a reloaded one is new.
LEMMA AddBlockWindow ==
  ASSUME ChainInv, NEW b \in Block, NEW flags, AddBlock(b, flags), ~(b \in stored /\ IsVerified(b))
  PROVE  LinkHeights' /\ current_tip' <= peak' /\ LwmaIsTail' /\ MainChainSound'
<1>1. stored \subseteq stored' /\ UNCHANGED <<chain_block, current_tip, lwma, peak>>
  BY DEF AddBlock
<1>2. \A x \in stored : verified[x] = Flag => verified'[x] = Flag
  BY DEF AddBlock, IsVerified, ChainInv, TypeOK
<1>. QED BY <1>1, <1>2, QuietStep

LEMMA SubmitChainInv ==
  ASSUME ChainInv, IInv', TypeOK', NEW b \in Block, NEW syncing, submit_block(b, syncing)
  PROVE  ChainInv'
<1>1. /\ ~IsVerified(b) /\ loading = {} /\ ~panicked /\ UnclesAllowed(b)
      /\ TargetWindow(b) # NoWindow => TargetMatches(b)
      /\ UNCHANGED <<loading, panicked, chain_block, current_tip, lwma, peak, rerooted>>
      /\ stored' = stored \cup {b}
  BY DEF submit_block, Idle, AddBlock, node_vars, history
<1>2. LinkHeights' /\ current_tip' <= peak' /\ LwmaIsTail' /\ MainChainSound'
  BY <1>1, AddBlockWindow DEF submit_block
<1>3. StartsPlain'
  <2>1. height[b] = 0 => uncles[b] = {}
    <3>1. \A u \in uncles[b] : height[u] < height[b] /\ height[u] \in Nat
      BY <1>1, BlockFacts DEF UnclesAllowed
    <3>. QED BY <3>1
  <2>. QED BY <1>1, <2>1 DEF ChainInv, StartsPlain
<1>4. NoTipYet'
  <2>1. ASSUME ~HasTip, prev[b] = Zero PROVE b \notin BadTarget
    <3>1. TargetWindow(b) = <<>>
      BY <2>1 DEF TargetWindow, HasTip, TipHash, ChainInv, NoTipYet
    <3>2. <<>> # <<Zero>>
      OBVIOUS
    <3>. QED BY <1>1, <3>1, <3>2 DEF NoWindow, TargetMatches
  <2>. QED BY <1>1, <2>1 DEF ChainInv, NoTipYet, HasTip
<1>5. LoadingFresh' /\ NoPanic' /\ ~rerooted'
  BY <1>1 DEF LoadingFresh, NoPanic, ChainInv
<1>. QED BY <1>2, <1>3, <1>4, <1>5 DEF ChainInv

LEMMA LoadChainInv ==
  ASSUME ChainInv, IInv', TypeOK', NEW r \in loading, LoadBlock(r)
  PROVE  ChainInv'
<1>1. /\ r[1] \in Block /\ r[1] \notin stored /\ "target" \in r[2]
      /\ height[r[1]] = 0 => uncles[r[1]] = {}
      /\ \A q \in loading : q[1] = r[1] => q = r
      /\ r[1] \notin BadTarget
  BY DEF ChainInv, LoadingFresh, TypeOK, IInv, FlagsSound, FlagsTrue
<1>2. /\ ~panicked /\ AddBlock(r[1], r[2]) /\ loading' = loading \ {r}
      /\ UNCHANGED <<panicked, chain_block, current_tip, lwma, peak, rerooted>>
      /\ stored' = stored \cup {r[1]}
  BY DEF LoadBlock, AddBlock, history
<1>3. LinkHeights' /\ current_tip' <= peak' /\ LwmaIsTail' /\ MainChainSound'
  BY <1>1, <1>2, AddBlockWindow
<1>4. StartsPlain' /\ NoTipYet' /\ NoPanic' /\ ~rerooted'
  BY <1>1, <1>2 DEF ChainInv, StartsPlain, NoTipYet, HasTip, NoPanic
<1>5. LoadingFresh'
  BY <1>1, <1>2 DEF ChainInv, LoadingFresh
<1>. QED BY <1>3, <1>4, <1>5 DEF ChainInv

LEMMA RestartChainInv ==
  ASSUME ChainInv, IInv', TypeOK', Restart
  PROVE  ChainInv'
<1>1. /\ stored' = {} /\ chain_block' = [h \in Heights |-> Zero] /\ current_tip' = 0
      /\ lwma' = <<>> /\ peak' = 0 /\ panicked' = FALSE /\ ~rerooted'
  BY DEF Restart, ChainInv
<1>2. ~HasTip'
  BY <1>1 DEF HasTip, TypeOK
<1>3. LinkHeights' /\ current_tip' <= peak' /\ LwmaIsTail' /\ MainChainSound' /\ NoPanic'
  BY <1>1, <1>2 DEF LinkHeights, LwmaIsTail, MainChainSound, NoPanic
<1>4. NoTipYet' /\ StartsPlain'
  BY <1>1 DEF NoTipYet, StartsPlain
<1>5. LoadingFresh'
  <2>1. PICK earliest_date \in EarliestDates :
          loading' = {<<b, verified[b]>> : b \in {x \in stored : Loadable(x, earliest_date)}}
    BY DEF Restart
  <2>2. ASSUME NEW r \in loading'
        PROVE  \E b \in stored : r = <<b, verified[b]>> /\ "target" \in verified[b]
    BY <2>1 DEF Loadable
  <2>. QED BY <1>1, <2>2 DEF LoadingFresh, ChainInv, StartsPlain
<1>. QED BY <1>1, <1>3, <1>4, <1>5 DEF ChainInv

LEMMA NextChainInv ==
  ASSUME ChainInv, Room, ShallowReorgs', [Next]_vars, ~rerooted'
  PROVE  ChainInv'
<1>1. TypeOK' /\ IInv'
  BY NextTypeOK, NextIInv DEF ChainInv
<1>2. CASE UNCHANGED vars
  <2>1. LinkHeights' /\ current_tip' <= peak' /\ LwmaIsTail' /\ MainChainSound'
    BY <1>2, QuietStep DEF vars, chain_vars
  <2>2. NoTipYet' /\ StartsPlain' /\ LoadingFresh' /\ NoPanic'
    BY <1>2 DEF ChainInv, vars, chain_vars, node_vars, NoTipYet, StartsPlain, LoadingFresh,
                NoPanic, HasTip
  <2>. QED BY <1>1, <2>1, <2>2 DEF ChainInv
<1>. QED
  BY <1>1, <1>2, VerifyStepChainInv, SubmitChainInv, LoadChainInv, RestartChainInv DEF Next

LEMMA InitChainInv == Init => ChainInv
<1>. SUFFICES ASSUME Init PROVE ChainInv
  OBVIOUS
<1>1. TypeOK /\ IInv
  BY InitTypeOK, InitIInv
<1>2. ~HasTip
  BY ChainAssumption DEF Init, HasTip, Heights
<1>. QED BY <1>1, <1>2 DEF Init, ChainInv, NoTipYet, StartsPlain, LoadingFresh, LinkHeights,
            LwmaIsTail, MainChainSound, NoPanic

\* The inductive invariant, on the two conditions, until a second chain start
\* becomes the tip.
LEMMA ChainInvariance == Spec /\ []Room /\ []ShallowReorgs => [](rerooted \/ ChainInv)
<1>1. ChainInv /\ Room /\ ShallowReorgs' /\ [Next]_vars => rerooted' \/ ChainInv'
  BY NextChainInv
<1>. QED BY <1>1, RerootedStays, InitChainInv, PTL DEF Spec

\* From the tip down to the bottom of the share window every level links to the
\* parent of the link above it, and every linked block is stored and verified,
\* through extensions, reorganisations, pruning and restarts, until a second chain
\* start becomes the tip.
THEOREM WindowSoundness == Spec /\ []Room /\ []ShallowReorgs => []MainChainSound
<1>1. rerooted \/ ChainInv => MainChainSound
  BY DEF ChainInv, MainChainSound
<1>. QED BY <1>1, ChainInvariance, PTL

\* No level above the tip keeps a link of an abandoned fork: everything above a
\* lower new tip was linked without a gap, so the reset reaches all of it, as long
\* as no block of height 0 is taken on top of the tip.
THEOREM NoStaleLinks == Spec /\ []Room /\ []ShallowReorgs => []NoLinkAboveTip
<1>1. rerooted \/ ChainInv => NoLinkAboveTip
  BY DEF ChainInv, LinkHeights, NoLinkAboveTip, TypeOK, Heights
<1>. QED BY <1>1, ChainInvariance, PTL

\* A block that fails a check never has a place in the window, as long as no block
\* of height 0 that names a parent is taken as the tip.
THEOREM NoBadBlocks == Spec /\ []Room /\ []ShallowReorgs => []NoBadBlockOnMainChain
<1>1. rerooted \/ ChainInv => NoBadBlockOnMainChain
  <2>. SUFFICES ASSUME ChainInv, HasTip, NEW i \in 0 .. current_tip, current_tip - i >= WindowBottom
                PROVE  FlagsTrue(anc[TipHash][i], Flag)
    BY DEF NoBadBlockOnMainChain
  <2>1. anc[TipHash][i] \in stored /\ verified[anc[TipHash][i]] = Flag
    BY DEF ChainInv, MainChainSound, IsVerified
  <2>. QED BY <2>1 DEF ChainInv, IInv, FlagsSound, TypeOK
<1>. QED BY <1>1, ChainInvariance, PTL

\* A reorganisation to a new highest tip never ends in the "chain data is
\* corrupted" panic, unless the chain has two starts.
THEOREM NoPanicAtPeak == Spec /\ []Room /\ []ShallowReorgs => []NoPanic
<1>1. rerooted \/ ChainInv => NoPanic
  BY DEF ChainInv, NoPanic
<1>. QED BY <1>1, ChainInvariance, PTL

\* The cached LWMA is the one of the tip's ancestors, whether it was slid by
\* extensions or rebuilt by reorganisations, until a second chain start is slid
\* into it.
THEOREM LwmaCoherence == Spec /\ []Room /\ []ShallowReorgs => []LwmaCoherent
<1>1. rerooted \/ ChainInv => LwmaCoherent
  <2>. SUFFICES ASSUME ChainInv, HasTip,
                       WindowBottom = 0 \/ current_tip + 1 >= WindowBottom + LwmaSize
                PROVE  lwma = WindowFrom(TipHash, LwmaSize)
    BY DEF LwmaCoherent
  <2>1. TipHash \in Block /\ height[TipHash] = current_tip /\ current_tip \in Nat
    BY TipFacts DEF ChainInv
  <2>2. LwmaSize \in Nat /\ LwmaSize > 0 /\ WindowBottom \in Nat
    BY WindowAssumption, BottomFacts DEF ChainInv
  <2>3. PICK m \in 1 .. LwmaSize :
          /\ m <= current_tip + 1
          /\ m = LwmaSize \/ m + WindowBottom >= current_tip + 1
          /\ lwma = [i \in 1 .. m |-> anc[TipHash][m - i]]
    BY DEF ChainInv, LwmaIsTail
  <2>4. PICK n \in Nat :
          /\ n <= LwmaSize /\ n <= height[TipHash] + 1
          /\ n = LwmaSize \/ n = height[TipHash] + 1
          /\ WindowFrom(TipHash, LwmaSize) = [i \in 1 .. n |-> anc[TipHash][n - i]]
    BY <2>1, <2>2, WindowFromFacts
  <2>5. m = n
    BY <2>1, <2>2, <2>3, <2>4
  <2>. QED BY <2>3, <2>4, <2>5
<1>. QED BY <1>1, ChainInvariance, PTL

\* A block made the tip carries at least the work of the tip before it.
LEMMA NewTipWork ==
  ASSUME ChainInv, ChainInv', Room, NEW b \in stored, ~VerifyFails(b), SetNewTip(b),
         VerifiedFlags(b) = Flag,
         (HasTip /\ prev[b] = TipHash /\ height[b] # 0) \/ (~HasTip /\ height[b] = 0)
  PROVE  TipPow' >= TipPow /\ TipPow' = total_pow[b]
<1>1. /\ b \in Block /\ total_pow[b] = TotalWork(b) /\ target[b] \in Nat /\ target[b] > 0
      /\ UncleWork(b) \in Nat /\ total_pow[b] \in Nat
  <2>1. b \in Block /\ IInv
    BY DEF ChainInv, TypeOK
  <2>2. FlagsTrue(b, Flag)
    BY <2>1, VerifiedFlagsTrue
  <2>. QED BY <2>1, <2>2, BlockFacts, UncleWorkAssumption DEF FlagsTrue, Flag
<1>2. height[b] + ShareWindow >= current_tip + 1 /\ height[b] \in Heights
  <2>1. HasTip => TipHash \in Block /\ height[TipHash] = current_tip
    BY TipFacts DEF ChainInv
  <2>2. height[b] \in Nat /\ height[b] \in Heights /\ current_tip \in Nat /\ ShareWindow \in Nat
        /\ ShareWindow >= 2
    BY <1>1, BlockFacts, WindowAssumption DEF ChainInv, TypeOK, Heights
  <2>3. CASE HasTip
    <3>1. height[b] # 0
      BY <2>3
    <3>2. height[prev[b]] = height[b] - 1 /\ prev[b] = TipHash
      BY <1>1, <2>3, <3>1, BlockFacts
    <3>. QED BY <2>1, <2>2, <2>3, <3>2
  <2>4. CASE ~HasTip
    BY <2>2, <2>4 DEF ChainInv, NoTipYet
  <2>. QED BY <2>3, <2>4
<1>3. chain_block'[height[b]] = b
  BY <1>1, <1>2, SetNewTipKeeps DEF ChainInv
<1>4. TipPow' = total_pow[b]
  BY <1>1, <1>3, BlockFacts DEF SetNewTip, TipPow, HasTip, TipHash
<1>5. CASE HasTip
  <2>1. TipHash \in Block /\ TipPow = total_pow[TipHash] /\ total_pow[TipHash] \in Nat
    BY <1>5, TipFacts, BlockFacts DEF ChainInv, TipPow
  <2>2. height[b] # 0
    BY <1>5
  <2>. QED BY <1>1, <1>4, <1>5, <2>1, <2>2 DEF TotalWork
<1>6. CASE ~HasTip
  BY <1>1, <1>4, <1>6 DEF TotalWork, TipPow
<1>. QED BY <1>4, <1>5, <1>6

\* An iteration of verify_chain never lowers the work of the tip, and one that
\* moves the tip moves it to its block.
LEMMA TipPowStep ==
  ASSUME ChainInv, ChainInv', Room, NEW b \in Block, VerifyStep(b)
  PROVE  /\ TipPow' >= TipPow
         /\ ChainStart(b) \/ ExtendTip(b) \/ Reorg(b) => TipPow' = total_pow[b]
<1>1. TipPow \in Nat
  BY TipPowType DEF ChainInv
<1>2. ASSUME UNCHANGED <<chain_block, current_tip>> PROVE TipPow' >= TipPow
  <2>1. TipPow' = TipPow
    BY <1>2 DEF TipPow, HasTip, TipHash
  <2>. QED BY <1>1, <2>1
<1>3. ReportMissing(b) \/ InvalidBlock(b) \/ NotYetVerified(b) \/ RejectUncles(b)
        \/ ForkIncomplete(b) \/ ForkNotHeavier(b) => TipPow' >= TipPow
  BY <1>2 DEF ReportMissing, InvalidBlock, NotYetVerified, RejectUncles,
              ForkIncomplete, ForkNotHeavier, chain_vars
<1>4. ASSUME ChainStart(b) PROVE TipPow' >= TipPow /\ TipPow' = total_pow[b]
  <2>1. /\ b \in stored /\ ~HasTip /\ height[b] = 0 /\ ~VerifyFails(b) /\ SetNewTip(b)
        /\ prev[b] = Zero
    BY <1>4, NotRerooting DEF ChainStart, Checked, ChainInv
  <2>. QED BY <2>1, ChainStartVerified, NewTipWork
<1>5. ASSUME ExtendTip(b) PROVE TipPow' >= TipPow /\ TipPow' = total_pow[b]
  <2>1. height[b] # 0
    BY <1>5, NotRerooting DEF ChainInv
  <2>. QED BY <1>5, <2>1, NewTipWork DEF ExtendTip, BuildsOnTip, Candidate, Checked
<1>6. ASSUME Reorg(b) PROVE TipPow' >= TipPow /\ TipPow' = total_pow[b]
  <2>1. total_pow[b] > TipPow /\ total_pow[b] \in Nat /\ current_tip' = height[b]
    BY <1>6, ReorgFacts, BlockFacts DEF Heavier
  <2>2. chain_block'[height[b]] = b
    <3>1. 0 \in 0 .. height[b] /\ height[b] - 0 = height[b] /\ 0 <= RelinkDepth(b)
      BY BlockFacts, RelinkDepthFacts
    <3>2. chain_block'[height[b] - 0] = anc[b][0]
      BY <1>6, <3>1, ReorgFacts
    <3>. QED BY <3>1, <3>2, BlockFacts
  <2>3. TipPow' = total_pow[b]
    BY <2>1, <2>2, BlockFacts DEF TipPow, HasTip, TipHash
  <2>. QED BY <1>1, <2>1, <2>3
<1>7. ~ReorgAtStart(b)
  BY NotRerooting DEF ChainInv
<1>. QED BY <1>3, <1>4, <1>5, <1>6, <1>7 DEF VerifyStep

\* The tip's accumulated difficulty never drops while the node runs: a block on
\* the tip adds to it, and a fork has to exceed it, as long as no block of height 0
\* is taken on top of the tip.
THEOREM TipPowMonotone == Spec /\ []Room /\ []ShallowReorgs => TipPowNeverDrops
<1>1. ASSUME ChainInv, ChainInv', Room, [Next]_vars
      PROVE  [restarts' = restarts /\ ~rerooted' => TipPow' >= TipPow]_vars
  <2>. SUFFICES ASSUME restarts' = restarts PROVE TipPow' >= TipPow
    OBVIOUS
  <2>1. TipPow \in Nat
    BY <1>1, TipPowType DEF ChainInv
  <2>2. ASSUME UNCHANGED <<chain_block, current_tip>> PROVE TipPow' >= TipPow
    <3>1. TipPow' = TipPow
      BY <2>2 DEF TipPow, HasTip, TipHash
    <3>. QED BY <2>1, <3>1
  <2>3. ASSUME NEW b \in Block, VerifyStep(b) PROVE TipPow' >= TipPow
    BY <1>1, <2>3, TipPowStep
  <2>4. ASSUME NEW b \in Block, NEW syncing \in BOOLEAN, submit_block(b, syncing)
        PROVE  TipPow' >= TipPow
    BY <2>2, <2>4 DEF submit_block, AddBlock
  <2>5. ASSUME NEW r \in loading, LoadBlock(r) PROVE TipPow' >= TipPow
    BY <2>2, <2>5 DEF LoadBlock, AddBlock
  <2>6. ~Restart
    BY <1>1, WindowAssumption DEF Restart, ChainInv, TypeOK
  <2>7. CASE UNCHANGED vars
    BY <2>2, <2>7 DEF vars, chain_vars
  <2>. QED BY <1>1, <2>3, <2>4, <2>5, <2>6, <2>7 DEF Next
<1>2. (rerooted \/ ChainInv) /\ (rerooted \/ ChainInv)' /\ Room /\ [Next]_vars
        => [restarts' = restarts /\ ~rerooted' => TipPow' >= TipPow]_vars
  BY <1>1, RerootedStays
<1>. QED BY <1>2, ChainInvariance, PTL DEF Spec, TipPowNeverDrops

-----------------------------------------------------------------------------
(* The heaviest chain.  HeaviestChainWins speaks of the time between two    *)
(* calls; while a call runs, what holds is that a heavier verified chain    *)
(* still has a block waiting in the queue of verify_chain.                  *)

Queue == {next_level[i] : i \in 1 .. Len(next_level)}

HeavyPending ==
  ~skipped => \A b \in stored :
                VerifiedChain(b) /\ total_pow[b] > TipPow
                  => \E i \in 0 .. height[b] : i < ShareWindow /\ anc[b][i] \in Queue

\* An order of a set of blocks has each of them: it is injective, so onto.
LEMMA OrderingOnto ==
  ASSUME NEW S \in SUBSET Block, NEW s \in Orderings(S), NEW c \in S
  PROVE  /\ Cardinality(S) \in Nat /\ s \in [1 .. Cardinality(S) -> S]
         /\ \E i \in 1 .. Cardinality(S) : s[i] = c
<1>1. IsFiniteSet(S) /\ Cardinality(S) \in Nat
  BY ChainAssumption, FS_Subset, FS_CardinalityType
<1>. DEFINE n == Cardinality(S)
<1>2. s \in [1 .. n -> S] /\ \A i, j \in 1 .. n : i < j => s[i] # s[j]
  BY DEF Orderings
<1>. HIDE DEF n
<1>3. n \in Nat /\ n = Cardinality(S)
  BY <1>1 DEF n
<1>4. s \in Injection(1 .. n, S)
  <2>1. ASSUME NEW i \in 1 .. n, NEW j \in 1 .. n, s[i] = s[j] PROVE i = j
    BY <1>2, <1>3, <2>1
  <2>. QED BY <1>2, <2>1 DEF Injection, IsInjective
<1>5. Cardinality(1 .. n) = n
  BY <1>3, FS_Interval
<1>6. s \in Surjection(1 .. n, S)
  BY <1>1, <1>3, <1>4, <1>5, FS_Injection
<1>7. \E i \in 1 .. n : s[i] = c
  BY <1>6 DEF Surjection
<1>. QED BY <1>2, <1>3, <1>7

LEMMA ConcatFacts ==
  ASSUME NEW s \in Seq(Block), NEW t \in Seq(Block)
  PROVE  /\ Len(s) \in Nat /\ Len(s \o t) = Len(s) + Len(t)
         /\ \A i \in 1 .. Len(s) : (s \o t)[i] = s[i]
         /\ \A i \in 1 .. Len(t) : (s \o t)[Len(s) + i] = t[i]
OBVIOUS

\* Where the blocks go that an iteration leaves in the queue, and those it adds.
LEMMA ContinueQueue ==
  ASSUME TypeOK, NEW b \in Block, next_level # <<>>, NEW made_tip, NEW found, NEW next,
         next \subseteq Block, Continue(b, made_tip, found, next)
  PROVE  /\ \A i \in 2 .. Len(next_level) :
              next_level[i] \in Queue' \/ next_level' = <<>>
         /\ \A c \in next : \/ c \in Queue' \/ c = b \/ c \in processed
                            \/ Cardinality(missing_blocks') >= MAX_MISSING_PARENTS
<1>. DEFINE queued == {next_level[i] : i \in 2 .. Len(next_level)}
<1>. DEFINE new == next \ ((processed \cup {b}) \cup queued)
<1>. DEFINE full == Cardinality(missing_blocks') >= MAX_MISSING_PARENTS
<1>. DEFINE n == Cardinality(new)
<1>. DEFINE rest == Tail(next_level)
<1>1. PICK order \in Orderings(new) : next_level' = IF full THEN <<>> ELSE rest \o order
  BY DEF Continue
<1>2. new \in SUBSET Block
  OBVIOUS
<1>3. /\ next_level \in Seq(Block) /\ rest \in Seq(Block) /\ Len(rest) = Len(next_level) - 1
      /\ \A i \in 2 .. Len(next_level) : i - 1 \in 1 .. Len(rest) /\ rest[i - 1] = next_level[i]
  BY DEF TypeOK
<1>. HIDE DEF new, rest
<1>4. n \in Nat /\ order \in [1 .. n -> new]
  <2>1. IsFiniteSet(new)
    BY <1>2, ChainAssumption, FS_Subset
  <2>. QED BY <2>1, FS_CardinalityType DEF Orderings
<1>. HIDE DEF n, full
<1>5. order \in Seq(Block) /\ Len(order) = n
  BY <1>2, <1>4
<1>6. ASSUME ~full
      PROVE  /\ next_level' = rest \o order /\ Len(next_level') = Len(rest) + n
             /\ \A i \in 1 .. Len(rest) : next_level'[i] = rest[i]
             /\ \A i \in 1 .. n : next_level'[Len(rest) + i] = order[i]
  <2>1. next_level' = rest \o order
    BY <1>1, <1>6
  <2>. QED BY <1>3, <1>5, <2>1, ConcatFacts
<1>7. ASSUME ~full, NEW i \in 2 .. Len(next_level) PROVE next_level[i] \in Queue'
  <2>1. i - 1 \in 1 .. Len(next_level') /\ next_level'[i - 1] = next_level[i]
    BY <1>3, <1>4, <1>6, <1>7
  <2>. QED BY <2>1 DEF Queue
<1>8. full => next_level' = <<>>
  BY <1>1
<1>9. ASSUME ~full, NEW c \in next, c # b, c \notin processed PROVE c \in Queue'
  <2>1. CASE c \in queued
    BY <1>7, <1>9, <2>1
  <2>2. CASE c \notin queued
    <3>1. c \in new
      BY <1>9, <2>2 DEF new
    <3>2. PICK i \in 1 .. n : order[i] = c
      BY <1>2, <3>1, OrderingOnto DEF n
    <3>3. Len(rest) + i \in 1 .. Len(next_level') /\ next_level'[Len(rest) + i] = c
      BY <1>3, <1>4, <1>6, <1>9, <3>2
    <3>. QED BY <3>3 DEF Queue
  <2>. QED BY <2>1, <2>2
<1>. QED BY <1>7, <1>8, <1>9 DEF full

LEMMA WindowGenerations ==
  ASSUME NEW b \in Block
  PROVE  0 .. Min({ShareWindow - 1, height[b]}) = {i \in 0 .. height[b] : i < ShareWindow}
<1>. DEFINE S == {ShareWindow - 1, height[b]}
<1>. DEFINE m == Min(S)
<1>1. height[b] \in Nat /\ ShareWindow \in Nat /\ ShareWindow >= 2
  BY BlockFacts, WindowAssumption
<1>2. S \in SUBSET Nat /\ S # {}
  BY <1>1
<1>3. m \in S /\ \A y \in S : m <= y
  BY <1>2, LeastElement
<1>. HIDE DEF m
<1>4. 0 .. m = {i \in 0 .. height[b] : i < ShareWindow}
  BY <1>1, <1>3
<1>. QED BY <1>4 DEF m

\* An iteration stores no block, and verifies at most the one it looks at.
LEMMA StepVerifies ==
  ASSUME TypeOK, NEW x \in Block, VerifyStep(x)
  PROVE  /\ stored' \subseteq stored
         /\ \A y \in Block : y # x /\ verified'[y] = Flag => verified[y] = Flag
<1>1. UNCHANGED chain_vars => stored' = stored /\ verified' = verified
  BY DEF chain_vars
<1>2. SetVerified(x) => \A y \in Block : y # x => verified'[y] = verified[y]
  BY DEF SetVerified, TypeOK
<1>3. ASSUME SetNewTip(x)
      PROVE  /\ stored' \subseteq stored
             /\ \A y \in Block : y # x /\ verified'[y] = Flag => verified[y] = Flag
  <2>. DEFINE keeps(h) == Cardinality({g \in {height[z] : z \in stored} : g >= h}) <= MaxLevels
  <2>1. verified' = [z \in Block |-> IF ~keeps(height[z]) THEN {}
                                     ELSE IF z = x THEN VerifiedFlags(x) ELSE verified[z]]
    BY <1>3 DEF SetNewTip
  <2>. HIDE DEF keeps
  <2>2. Flag # {}
    BY DEF Flag
  <2>3. \A y \in Block : y # x /\ verified'[y] = Flag => verified[y] = Flag
    BY <2>1, <2>2
  <2>4. stored' \subseteq stored
    BY <1>3 DEF SetNewTip
  <2>. QED BY <2>3, <2>4
<1>. QED
  BY <1>1, <1>2, <1>3 DEF VerifyStep, ReportMissing, InvalidBlock, ChainStart, NotYetVerified,
     RejectUncles, ExtendTip, ForkIncomplete, ForkNotHeavier, Reorg, ReorgAtStart

\* An iteration that leaves the queue's block verified had it verified, or
\* has all its flags now.
LEMMA HeadVerified ==
  ASSUME TypeOK, NEW x \in Block, VerifyStep(x), ~Skips(x), x \in stored', verified'[x] = Flag
  PROVE  \/ ChainStart(x) \/ ExtendTip(x) \/ ForkIncomplete(x) \/ ForkNotHeavier(x)
         \/ Reorg(x) \/ ReorgAtStart(x)
<1>1. ~ReportMissing(x)
  BY DEF ReportMissing, chain_vars, Skips, IsVerified
<1>2. ~InvalidBlock(x)
  BY DEF InvalidBlock, chain_vars, VerifyFails, IsVerified
<1>3. ~NotYetVerified(x)
  BY DEF NotYetVerified, SetVerified, TypeOK
<1>4. ~RejectUncles(x)
  BY DEF RejectUncles, Skips
<1>. QED BY <1>1, <1>2, <1>3, <1>4 DEF VerifyStep

\* What was queued behind the block stays queued, unless the call ends early.
LEMMA QueueKept ==
  ASSUME TypeOK, NEW x \in Block, VerifyStep(x), ~Skips(x), NEW q \in Queue, q # x
  PROVE  q \in Queue'
<1>1. Verifying(x)
  BY DEF VerifyStep, ReportMissing, InvalidBlock, ChainStart, NotYetVerified, RejectUncles,
     ExtendTip, ForkIncomplete, ForkNotHeavier, Reorg, ReorgAtStart, BuildsOnTip, OffTip, Heavier,
     Candidate, Checked
<1>2. next_level # <<>> /\ next_level[1] = x /\ next_level \in Seq(Block)
  BY <1>1 DEF Verifying, TypeOK
<1>3. PICK i \in 2 .. Len(next_level) : next_level[i] = q
  BY <1>2 DEF Queue
<1>4. next_level' # <<>>
  BY <1>2, <1>3 DEF Skips
<1>5. ~Abort
  BY <1>4 DEF Abort
<1>6. \E made_tip, found, next : next \subseteq Block /\ Continue(x, made_tip, found, next)
  <2>1. ChildrenAndNephews(x) \subseteq Block /\ ChildrenAndNephews(x) \cap stored' \subseteq Block
    BY MissingTypes
  <2>2. {} \subseteq Block
    OBVIOUS
  <2>3. CASE ReportMissing(x)
    BY <2>1, <2>3 DEF ReportMissing
  <2>4. CASE InvalidBlock(x)
    BY <1>5, <2>4 DEF InvalidBlock
  <2>5. CASE ChainStart(x)
    BY <2>2, <2>5 DEF ChainStart
  <2>6. CASE NotYetVerified(x)
    BY <2>2, <2>6 DEF NotYetVerified
  <2>7. CASE RejectUncles(x)
    BY <1>5, <2>7 DEF RejectUncles
  <2>8. CASE ExtendTip(x)
    BY <2>1, <2>8 DEF ExtendTip
  <2>9. CASE ForkIncomplete(x)
    BY <2>1, <2>9 DEF ForkIncomplete
  <2>10. CASE ForkNotHeavier(x)
    BY <2>1, <2>10 DEF ForkNotHeavier
  <2>11. CASE Reorg(x)
    BY <2>1, <2>11 DEF Reorg
  <2>12. CASE ReorgAtStart(x)
    BY <2>1, <2>12 DEF ReorgAtStart
  <2>. QED BY <2>3, <2>4, <2>5, <2>6, <2>7, <2>8, <2>9, <2>10, <2>11, <2>12 DEF VerifyStep
<1>7. PICK made_tip, found, next : next \subseteq Block /\ Continue(x, made_tip, found, next)
  BY <1>6
<1>. QED BY <1>2, <1>3, <1>4, <1>7, ContinueQueue

\* A verified child of a block that is verified now is looked at next.
LEMMA ChildQueued ==
  ASSUME TypeOK, NEW x \in Block, VerifyStep(x), ~Skips(x), x \in stored', verified'[x] = Flag,
         NEW c \in stored', prev[c] = x, height[c] # 0, verified'[c] = Flag
  PROVE  c \in Queue'
<1>1. c \in stored /\ c \in Block /\ c # x /\ height[c] = height[x] + 1 /\ height[x] \in Nat
  <2>1. c \in stored /\ c \in Block
    BY StepVerifies DEF TypeOK
  <2>2. height[c] # 0 /\ height[x] = height[c] - 1 /\ height[c] \in Nat /\ height[x] \in Nat
    BY <2>1, BlockFacts
  <2>. QED BY <2>1, <2>2
<1>2. verified[c] = Flag
  BY <1>1, StepVerifies
<1>3. /\ ~(Cardinality(missing_blocks') >= MAX_MISSING_PARENTS) /\ c \notin processed
      /\ ~(~HasTip /\ height[x] = 0)
  BY <1>1, <1>2 DEF Skips, IsVerified
<1>4. c \in ChildrenAndNephews(x)
  BY <1>1, WindowAssumption DEF ChildrenAndNephews
<1>5. ~ChainStart(x)
  BY <1>3 DEF ChainStart
<1>6. ASSUME NEW made_tip, NEW found, NEW next, next \subseteq Block, c \in next,
             Verifying(x), Continue(x, made_tip, found, next)
      PROVE  c \in Queue'
  BY <1>1, <1>3, <1>6, ContinueQueue DEF Verifying
<1>7. ChildrenAndNephews(x) \subseteq Block /\ ChildrenAndNephews(x) \cap stored' \subseteq Block
  BY MissingTypes
<1>8. CASE ExtendTip(x)
  BY <1>4, <1>6, <1>7, <1>8 DEF ExtendTip, BuildsOnTip, Candidate, Checked
<1>9. CASE ForkIncomplete(x)
  BY <1>4, <1>6, <1>7, <1>9 DEF ForkIncomplete, OffTip, Candidate, Checked
<1>10. CASE ForkNotHeavier(x)
  BY <1>4, <1>6, <1>7, <1>10 DEF ForkNotHeavier, OffTip, Candidate, Checked
<1>11. CASE Reorg(x)
  BY <1>4, <1>6, <1>7, <1>11 DEF Reorg, Heavier, OffTip, Candidate, Checked
<1>12. CASE ReorgAtStart(x)
  BY <1>4, <1>6, <1>7, <1>12 DEF ReorgAtStart, Heavier, OffTip, Candidate, Checked
<1>. QED BY <1>5, <1>8, <1>9, <1>10, <1>11, <1>12, HeadVerified

\* A block whose window is verified is decided when its turn comes: the walk
\* down from it is complete, so it is made tip or is not heavier.
LEMMA HeadDecided ==
  ASSUME ChainInv, ChainInv', Room, NEW x \in Block, VerifyStep(x), ~Skips(x),
         x \in stored', VerifiedChain(x)'
  PROVE  total_pow[x] <= TipPow'
<1>1. height[x] \in Nat /\ total_pow[x] \in Nat /\ ShareWindow \in Nat /\ ShareWindow >= 2
  BY BlockFacts, WindowAssumption
<1>2. \A i \in 0 .. height[x] : i < ShareWindow => anc[x][i] \in stored' /\ verified'[anc[x][i]] = Flag
  BY WindowGenerations DEF VerifiedChain, IsVerified
<1>3. verified'[x] = Flag
  <2>1. 0 \in 0 .. height[x] /\ 0 < ShareWindow /\ anc[x][0] = x
    BY <1>1, BlockFacts
  <2>. QED BY <1>2, <2>1
<1>4. ~ForkIncomplete(x)
  <2>. SUFFICES ASSUME ForkIncomplete(x) PROVE FALSE
    OBVIOUS
  <2>. DEFINE i == WalkEnd(x)
  <2>1. i \in 0 .. height[x] /\ (\A j \in 0 .. height[x] : j < i => WalkGoesOn(x, j))
    BY WalkEndFacts
  <2>. HIDE DEF i
  <2>2. i < height[x] /\ ~(anc[x][i + 1] \in stored /\ IsVerified(anc[x][i + 1]))
    BY DEF ForkIncomplete, WalkComplete, i
  <2>3. i + 1 < ShareWindow
    <3>1. CASE i = 0
      BY <1>1, <3>1
    <3>2. CASE i # 0
      <4>1. i - 1 \in 0 .. height[x] /\ i - 1 < i /\ (i - 1) + 2 = i + 1
        BY <1>1, <2>1, <3>2
      <4>2. WalkGoesOn(x, i - 1)
        BY <2>1, <4>1
      <4>. QED BY <4>1, <4>2 DEF WalkGoesOn
    <3>. QED BY <3>1, <3>2
  <2>4. i + 1 \in 0 .. height[x]
    BY <1>1, <2>1, <2>2
  <2>5. anc[x][i + 1] \in Block /\ anc[x][i + 1] # x
    BY <1>1, <2>1, <2>4, AncestorFacts
  <2>6. anc[x][i + 1] \in stored' /\ verified'[anc[x][i + 1]] = Flag
    BY <1>2, <2>3, <2>4
  <2>7. anc[x][i + 1] \in stored /\ verified[anc[x][i + 1]] = Flag
    BY <2>5, <2>6, StepVerifies DEF ChainInv
  <2>. QED BY <2>2, <2>7 DEF IsVerified
<1>5. CASE ForkNotHeavier(x)
  <2>1. TipPow' = TipPow
    BY <1>5 DEF ForkNotHeavier, TipPow, HasTip, TipHash
  <2>. QED BY <1>5, <2>1 DEF ForkNotHeavier
<1>6. CASE ChainStart(x) \/ ExtendTip(x) \/ Reorg(x)
  <2>1. TipPow' = total_pow[x]
    BY <1>6, TipPowStep
  <2>. QED BY <1>1, <2>1
<1>7. ~ReorgAtStart(x)
  BY NotRerooting DEF ChainInv
<1>. QED BY <1>3, <1>4, <1>5, <1>6, <1>7, HeadVerified DEF ChainInv

\* An iteration: take a chain that is verified and heavier after it.  When the
\* block looked at is in its window, its child in the chain is queued, or it is
\* the chain's own head and decided.  When it is not, the chain was
\* verified and heavier before, and what it has in the queue is still there.
LEMMA VerifyStepHeavy ==
  ASSUME ChainInv, ChainInv', Room, HeavyPending, NEW x \in Block, VerifyStep(x)
  PROVE  HeavyPending'
<1>. SUFFICES ASSUME ~skipped', NEW b \in stored', VerifiedChain(b)', total_pow[b] > TipPow'
              PROVE  \E i \in 0 .. height[b] : i < ShareWindow /\ anc[b][i] \in Queue'
  BY DEF HeavyPending
<1>1. ~skipped /\ ~Skips(x)
  BY DEF VerifyStep, ChainInv, TypeOK
<1>2. /\ b \in stored /\ b \in Block /\ height[b] \in Nat /\ total_pow[b] \in Nat
      /\ ShareWindow \in Nat /\ TypeOK
  BY StepVerifies, BlockFacts, WindowAssumption DEF ChainInv, TypeOK
<1>3. \A i \in 0 .. height[b] :
        i < ShareWindow => anc[b][i] \in stored' /\ verified'[anc[b][i]] = Flag
  BY <1>2, WindowGenerations DEF VerifiedChain, IsVerified
<1>4. TipPow \in Nat /\ TipPow' \in Nat
  BY ChainAssumption DEF ChainInv, TypeOK, TipPow, HasTip, TipHash
<1>5. CASE \E i \in 0 .. height[b] : i < ShareWindow /\ anc[b][i] = x
  <2>1. PICK i \in 0 .. height[b] : i < ShareWindow /\ anc[b][i] = x
    BY <1>5
  <2>2. x \in stored' /\ verified'[x] = Flag
    BY <1>3, <2>1
  <2>3. i # 0
    <3>. SUFFICES ASSUME i = 0 PROVE FALSE
      OBVIOUS
    <3>1. x = b
      BY <1>2, <2>1, BlockFacts
    <3>2. total_pow[b] <= TipPow'
      BY <1>1, <2>2, <3>1, HeadDecided
    <3>. QED BY <1>2, <1>4, <3>2
  <2>4. i - 1 \in 0 .. height[b] /\ i - 1 < ShareWindow
    BY <1>2, <2>1, <2>3
  <2>5. anc[b][i - 1] \in stored' /\ verified'[anc[b][i - 1]] = Flag
    BY <1>3, <2>4
  <2>6. prev[anc[b][i - 1]] = x /\ height[anc[b][i - 1]] # 0
    BY <1>2, <2>1, <2>3, AncestorFacts
  <2>7. anc[b][i - 1] \in Queue'
    BY <1>1, <1>2, <2>2, <2>5, <2>6, ChildQueued
  <2>. QED BY <2>4, <2>7
<1>6. CASE ~\E i \in 0 .. height[b] : i < ShareWindow /\ anc[b][i] = x
  <2>1. ASSUME NEW i \in 0 .. height[b], i < ShareWindow
        PROVE  anc[b][i] \in stored /\ verified[anc[b][i]] = Flag
    <3>1. anc[b][i] \in Block /\ anc[b][i] # x
      BY <1>2, <1>6, <2>1, AncestorFacts
    <3>. QED BY <1>2, <1>3, <2>1, <3>1, StepVerifies
  <2>2. VerifiedChain(b)
    BY <1>2, <2>1, WindowGenerations DEF VerifiedChain, IsVerified
  <2>3. total_pow[b] > TipPow
    <3>1. TipPow' >= TipPow
      BY TipPowStep
    <3>. QED BY <1>2, <1>4, <3>1
  <2>4. PICK i \in 0 .. height[b] : i < ShareWindow /\ anc[b][i] \in Queue
    BY <1>1, <1>2, <2>2, <2>3 DEF HeavyPending
  <2>5. anc[b][i] # x
    BY <1>6, <2>4
  <2>6. anc[b][i] \in Queue'
    BY <1>1, <1>2, <2>4, <2>5, QueueKept
  <2>. QED BY <2>4, <2>6
<1>. QED BY <1>5, <1>6

\* A block that is added is the one in the queue; the chains without it were
\* verified before, when the queue was empty.
LEMMA AddBlockHeavy ==
  ASSUME ChainInv, ChainInv', HeavyPending, NEW x \in Block, NEW flags, AddBlock(x, flags),
         next_level = <<>>, UNCHANGED history
  PROVE  HeavyPending'
<1>. SUFFICES ASSUME ~skipped', NEW b \in stored', VerifiedChain(b)', total_pow[b] > TipPow'
              PROVE  \E i \in 0 .. height[b] : i < ShareWindow /\ anc[b][i] \in Queue'
  BY DEF HeavyPending
<1>0. ~skipped
  BY DEF history
<1>1. x \in Queue'
  <2>1. next_level' = <<x>> /\ Len(next_level') = 1 /\ next_level'[1] = x /\ 1 \in 1 .. 1
    BY DEF AddBlock
  <2>. QED BY <2>1 DEF Queue
<1>2. b \in Block /\ height[b] \in Nat /\ ShareWindow \in Nat /\ ShareWindow >= 2
  BY BlockFacts, WindowAssumption DEF ChainInv, TypeOK
<1>3. \A i \in 0 .. height[b] :
        i < ShareWindow => anc[b][i] \in stored' /\ verified'[anc[b][i]] = Flag
  BY <1>2, WindowGenerations DEF VerifiedChain, IsVerified
<1>. SUFFICES ASSUME ~\E i \in 0 .. height[b] : i < ShareWindow /\ anc[b][i] = x PROVE FALSE
  BY <1>1
<1>4. ASSUME NEW i \in 0 .. height[b], i < ShareWindow
      PROVE  anc[b][i] \in stored /\ verified[anc[b][i]] = Flag
  <2>1. anc[b][i] \in Block /\ anc[b][i] # x
    BY <1>2, <1>4, AncestorFacts
  <2>. QED BY <1>3, <1>4, <2>1 DEF AddBlock, ChainInv, TypeOK
<1>5. VerifiedChain(b)
  BY <1>2, <1>4, WindowGenerations DEF VerifiedChain, IsVerified
<1>6. b \in stored
  <2>1. 0 \in 0 .. height[b] /\ 0 < ShareWindow /\ anc[b][0] = b
    BY <1>2, BlockFacts
  <2>. QED BY <1>4, <2>1
<1>7. TipPow' = TipPow
  BY DEF AddBlock, TipPow, HasTip, TipHash
<1>8. Queue = {}
  BY DEF Queue
<1>. QED BY <1>0, <1>5, <1>6, <1>7, <1>8 DEF HeavyPending

\* Between two calls no stored and verified chain is heavier than the main
\* chain, whatever order the blocks came in, unless verify_chain gave one up or a
\* second chain start became the tip.
THEOREM HeaviestChain == Spec /\ []Room /\ []ShallowReorgs => []HeaviestChainWins
<1>1. Init => HeavyPending
  BY DEF Init, HeavyPending
<1>2. ChainInv /\ ChainInv' /\ Room /\ HeavyPending /\ [Next]_vars => HeavyPending'
  <2>. SUFFICES ASSUME ChainInv, ChainInv', Room, HeavyPending, [Next]_vars PROVE HeavyPending'
    OBVIOUS
  <2>1. ASSUME NEW b \in Block, NEW syncing \in BOOLEAN, submit_block(b, syncing)
        PROVE  HeavyPending'
    BY <2>1, AddBlockHeavy DEF submit_block, Idle
  <2>2. ASSUME NEW b \in Block, VerifyStep(b) PROVE HeavyPending'
    BY <2>2, VerifyStepHeavy
  <2>3. ASSUME NEW r \in loading, LoadBlock(r) PROVE HeavyPending'
    <3>1. r[1] \in Block
      BY DEF ChainInv, TypeOK
    <3>. QED BY <2>3, <3>1, AddBlockHeavy DEF LoadBlock
  <2>4. CASE Restart
    BY <2>4 DEF Restart, HeavyPending
  <2>5. CASE UNCHANGED vars
    BY <2>5 DEF vars, chain_vars, call_vars, history, HeavyPending, VerifiedChain, IsVerified, TipPow,
       HasTip, TipHash, Queue
  <2>. QED BY <2>1, <2>2, <2>3, <2>4, <2>5 DEF Next
<1>3. ChainInv /\ HeavyPending => HeaviestChainWins
  <2>. SUFFICES ASSUME ChainInv, HeavyPending, Idle, ~skipped, NEW b \in stored, VerifiedChain(b)
                PROVE  total_pow[b] <= TipPow
    BY DEF HeaviestChainWins
  <2>1. total_pow[b] \in Nat /\ TipPow \in Nat
    BY BlockFacts, TipPowType DEF ChainInv, TypeOK
  <2>2. Queue = {}
    BY DEF Idle, Queue
  <2>. QED BY <2>1, <2>2 DEF HeavyPending
<1>4. (rerooted \/ ChainInv) /\ (rerooted \/ ChainInv)' /\ Room /\ [Next]_vars
        /\ (rerooted \/ HeavyPending) => (rerooted \/ HeavyPending)'
  BY <1>2, RerootedStays
<1>5. (rerooted \/ ChainInv) /\ (rerooted \/ HeavyPending) => HeaviestChainWins
  <2>1. rerooted => HeaviestChainWins
    BY DEF HeaviestChainWins
  <2>. QED BY <1>3, <2>1
<1>. QED BY <1>1, <1>4, <1>5, ChainInvariance, PTL DEF Spec

-----------------------------------------------------------------------------
(* The reload.  Its condition: when the node stops, in a call or inside a   *)
(* reload too, the share window of its tip is verified and the tip's uncles *)
(* hang off it.  An extension checks this (UnclesOffMainChain); a           *)
(* reorganisation does not.                                                 *)

TipSettled ==
  HasTip => /\ VerifiedChain(TipHash)
            /\ \A u \in uncles[TipHash] :
                 /\ u \in stored
                 /\ \E i \in 2 .. current_tip : /\ i < ShareWindow /\ prev[u] = anc[TipHash][i]
                                                /\ height[u] = current_tip - i + 1
                                                /\ u # anc[TipHash][i - 1]

StopsSettled == [][Restart => TipSettled]_vars

\* A block of the backup that was verified is still to come, or is there again.
Pending(x) == <<x, Flag>> \in loading \/ (x \in stored /\ verified[x] = Flag)

\* The tip of the node that stopped is still to come, or is the block of the
\* running call; its window and its uncles are to come or there, and nothing
\* above it is loaded yet.
Reloading(T) ==
  /\ total_pow[T] = pow_kept
  /\ peak <= height[T] /\ \A x \in stored : height[x] <= height[T]
  /\ \A i \in 0 .. height[T] : i < ShareWindow => Pending(anc[T][i])
  /\ \A u \in uncles[T] :
       /\ u \in stored \/ \E flags \in SUBSET Flag : <<u, flags>> \in loading
       /\ \E i \in 2 .. height[T] : /\ i < ShareWindow /\ prev[u] = anc[T][i]
                                    /\ height[u] = height[T] - i + 1 /\ u # anc[T][i - 1]
  /\ \/ <<T, Flag>> \in loading
     \/ next_level = <<T>> /\ T \in stored /\ \A r \in loading : height[r[1]] >= height[T]

ReloadInv == TipPow >= pow_kept \/ \E T \in Block : Reloading(T)

\* An iteration keeps the blocks within a share window of the tip, with what is
\* verified of them.
LEMMA StepKeeps ==
  ASSUME ChainInv, Room, NEW b \in Block, VerifyStep(b), NEW y \in stored,
         height[y] + ShareWindow >= current_tip + 1
  PROVE  y \in stored' /\ (verified[y] = Flag => verified'[y] = Flag)
<1>1. VerifiedFlags(b) \in SUBSET Flag /\ verified[b] \subseteq VerifiedFlags(b)
  BY VerifiedFlagsType DEF ChainInv, VerifiedFlags
<1>2. verified[b] = Flag => VerifiedFlags(b) = Flag
  BY <1>1
<1>3. UNCHANGED chain_vars => y \in stored' /\ (verified[y] = Flag => verified'[y] = Flag)
  BY DEF chain_vars
<1>4. SetVerified(b) /\ UNCHANGED stored
        => y \in stored' /\ (verified[y] = Flag => verified'[y] = Flag)
  BY <1>2 DEF SetVerified, ChainInv, TypeOK
<1>5. SetNewTip(b) => y \in stored' /\ (verified[y] = Flag => verified'[y] = Flag)
  <2>. SUFFICES ASSUME SetNewTip(b) PROVE y \in stored' /\ (verified[y] = Flag => verified'[y] = Flag)
    OBVIOUS
  <2>1. y \in stored' /\ verified'[y] = (IF y = b THEN VerifiedFlags(b) ELSE verified[y])
    BY SetNewTipKeeps DEF ChainInv
  <2>. QED BY <1>2, <2>1
<1>. QED
  BY <1>3, <1>4, <1>5 DEF VerifyStep, ReportMissing, InvalidBlock, ChainStart, NotYetVerified,
     RejectUncles, ExtendTip, ForkIncomplete, ForkNotHeavier, Reorg, ReorgAtStart

\* The highest tip of an iteration is the one before or the stored block of it.
LEMMA StepPeak ==
  ASSUME TypeOK, NEW b \in Block, VerifyStep(b)
  PROVE  /\ peak' = peak \/ (b \in stored /\ peak' = height[b])
         /\ UNCHANGED <<loading, pow_kept>>
<1>1. Max({peak, height[b]}) = peak \/ Max({peak, height[b]}) = height[b]
  BY PeakType
<1>. QED
  BY <1>1 DEF VerifyStep, ReportMissing, InvalidBlock, ChainStart, NotYetVerified, RejectUncles,
     ExtendTip, ForkIncomplete, ForkNotHeavier, Reorg, ReorgAtStart, Heavier, OffTip, BuildsOnTip,
     Candidate, Checked, SetNewTip, chain_vars, node_vars

\* What is to come, or there, stays so through an iteration.
LEMMA StepReloading ==
  ASSUME ChainInv, Room, NEW b \in Block, VerifyStep(b), NEW T \in Block, Reloading(T)
  PROVE  /\ peak' <= height[T] /\ \A x \in stored' : height[x] <= height[T]
         /\ \A i \in 0 .. height[T] : i < ShareWindow => Pending(anc[T][i])'
         /\ \A u \in uncles[T] : u \in stored' \/ \E flags \in SUBSET Flag : <<u, flags>> \in loading'
<1>1. /\ height[T] \in Nat /\ ShareWindow \in Nat /\ current_tip \in Nat /\ peak \in Nat
      /\ current_tip <= height[T] /\ UNCHANGED loading
  <2>1. current_tip <= peak /\ peak <= height[T] /\ peak \in Nat /\ current_tip \in Nat
    BY BottomFacts DEF ChainInv, Reloading
  <2>. QED BY <2>1, BlockFacts, WindowAssumption, StepPeak DEF ChainInv
<1>2. peak' <= height[T] /\ \A x \in stored' : height[x] <= height[T]
  BY StepPeak, StepVerifies DEF ChainInv, Reloading
<1>3. ASSUME NEW i \in 0 .. height[T], i < ShareWindow PROVE Pending(anc[T][i])'
  <2>1. Pending(anc[T][i]) /\ height[anc[T][i]] = height[T] - i
    BY <1>3, AncestorFacts DEF Reloading
  <2>2. height[anc[T][i]] + ShareWindow >= current_tip + 1
    BY <1>1, <1>3, <2>1
  <2>3. CASE <<anc[T][i], Flag>> \in loading
    BY <1>1, <2>3 DEF Pending
  <2>4. CASE anc[T][i] \in stored /\ verified[anc[T][i]] = Flag
    BY <2>2, <2>4, StepKeeps DEF Pending
  <2>. QED BY <2>1, <2>3, <2>4 DEF Pending
<1>4. ASSUME NEW u \in uncles[T]
      PROVE  u \in stored' \/ \E flags \in SUBSET Flag : <<u, flags>> \in loading'
  <2>1. PICK i \in 2 .. height[T] : i < ShareWindow /\ height[u] = height[T] - i + 1
    BY DEF Reloading
  <2>2. height[u] + ShareWindow >= current_tip + 1
    BY <1>1, <2>1
  <2>3. u \in stored \/ \E flags \in SUBSET Flag : <<u, flags>> \in loading
    BY DEF Reloading
  <2>. QED BY <1>1, <2>2, <2>3, StepKeeps
<1>. QED BY <1>2, <1>3, <1>4

\* When the old tip's turn comes everything below it is loaded, so it is not
\* turned away: it has no missing blocks, and its uncles are off the main chain.
LEMMA TipTurn ==
  ASSUME ChainInv, NEW T \in Block, Reloading(T), next_level = <<T>>, T \in stored,
         \A r \in loading : height[r[1]] >= height[T]
  PROVE  /\ MissingDeps(T) = {}
         /\ BuildsOnTip(T) => UnclesOffMainChain(T)
         /\ \A i \in 0 .. height[T] :
              i < ShareWindow => anc[T][i] \in stored /\ verified[anc[T][i]] = Flag
<1>1. height[T] \in Nat /\ ShareWindow \in Nat /\ ShareWindow >= 2 /\ anc[T][0] = T
  BY BlockFacts, WindowAssumption
<1>2. ASSUME NEW i \in 0 .. height[T], i < ShareWindow
      PROVE  anc[T][i] \in stored /\ verified[anc[T][i]] = Flag
  <2>1. Pending(anc[T][i]) /\ height[anc[T][i]] = height[T] - i
    BY <1>2, AncestorFacts DEF Reloading
  <2>2. <<anc[T][i], Flag>> \notin loading
    <3>1. CASE i = 0
      <4>1. \A r \in loading : r[1] # T
        BY DEF ChainInv, LoadingFresh
      <4>. QED BY <1>1, <3>1, <4>1
    <3>2. CASE i # 0
      <4>1. ~(height[anc[T][i]] >= height[T])
        BY <1>1, <2>1, <3>2
      <4>. QED BY <4>1
    <3>. QED BY <3>1, <3>2
  <2>. QED BY <2>1, <2>2 DEF Pending
<1>3. ASSUME NEW u \in uncles[T]
      PROVE  /\ u \in Block /\ u \in stored
             /\ \E i \in 2 .. height[T] :
                  /\ i < ShareWindow /\ prev[u] = anc[T][i] /\ u # anc[T][i - 1]
                  /\ prev[u] \in Block /\ height[u] = height[T] - i + 1
  <2>1. PICK i \in 2 .. height[T] : /\ i < ShareWindow /\ prev[u] = anc[T][i]
                                    /\ height[u] = height[T] - i + 1 /\ u # anc[T][i - 1]
    BY DEF Reloading
  <2>2. u \in Block
    BY BlockFacts
  <2>3. prev[u] \in Block /\ height[prev[u]] = height[T] - i
    BY <1>1, <2>1, AncestorFacts
  <2>4. height[u] \in Nat
    BY <2>2, BlockFacts
  <2>5. \A flags \in SUBSET Flag : <<u, flags>> \notin loading
    <3>1. ~(height[u] >= height[T])
      BY <1>1, <2>1, <2>4
    <3>. QED BY <3>1
  <2>6. u \in stored
    BY <2>5 DEF Reloading
  <2>. QED BY <2>1, <2>2, <2>3, <2>4, <2>6
<1>4. MissingDeps(T) = {}
  <2>1. CASE height[T] = 0
    BY <2>1 DEF MissingDeps
  <2>2. CASE height[T] # 0
    <3>1. 1 \in 0 .. height[T] /\ 1 < ShareWindow /\ 1 - 1 = 0
      BY <1>1, <2>2
    <3>2. prev[T] \in stored /\ height[prev[T]] = height[T] - 1
      BY <1>1, <1>2, <3>1, AncestorFacts
    <3>3. ASSUME NEW u \in uncles[T] PROVE u \in stored /\ MissingParent(u) = {}
      <4>1. PICK i \in 2 .. height[T] :
              i < ShareWindow /\ prev[u] = anc[T][i] /\ height[u] = height[T] - i + 1
        BY <1>3
      <4>2. i \in 0 .. height[T] /\ height[u] # 0 /\ height[T] - i = height[u] - 1
        BY <1>1, <4>1
      <4>3. prev[u] \in stored /\ height[prev[u]] = height[u] - 1
        BY <1>2, <4>1, <4>2, AncestorFacts
      <4>. QED BY <1>3, <4>2, <4>3 DEF MissingParent
    <3>4. MissingParent(T) = {}
      BY <2>2, <3>2 DEF MissingParent
    <3>. QED BY <3>3, <3>4 DEF MissingDeps
  <2>. QED BY <2>1, <2>2
<1>5. ASSUME BuildsOnTip(T), height[T] # 0 PROVE UnclesOffMainChain(T)
  <2>. DEFINE t == TipHash
  <2>1. HasTip /\ prev[T] = t
    BY <1>5 DEF BuildsOnTip
  <2>2. t \in Block /\ height[t] = current_tip /\ current_tip \in Nat
    BY <2>1, TipFacts DEF ChainInv
  <2>. HIDE DEF t
  <2>3. height[T] # 0 /\ height[T] = current_tip + 1
    BY <1>1, <1>5, <2>1, <2>2, BlockFacts
  <2>4. 1 \in 0 .. height[T] /\ anc[T][1] = t
    <3>1. 1 \in 0 .. height[T] /\ 1 - 1 = 0
      BY <1>1, <2>3
    <3>. QED BY <1>1, <2>1, <3>1, AncestorFacts
  <2>5. \A j \in 1 .. height[T] : anc[T][j] = anc[t][j - 1]
    <3>1. \A k \in 0 .. (height[T] - 1) : anc[t][k] = anc[T][1 + k]
      BY <2>4, AncestorsCompose
    <3>2. ASSUME NEW j \in 1 .. height[T]
          PROVE  j - 1 \in 0 .. (height[T] - 1) /\ 1 + (j - 1) = j
      BY <1>1
    <3>. QED BY <3>1, <3>2
  <2>6. ASSUME NEW j \in 1 .. height[T], j < ShareWindow
        PROVE  chain_block[height[T] - j] = anc[T][j]
    <3>1. peak <= height[T] /\ WindowBottom \in Nat /\ peak \in Nat
          /\ (WindowBottom = 0 \/ WindowBottom + ShareWindow = peak + 1)
      BY BottomFacts DEF Reloading, ChainInv
    <3>2. /\ j - 1 \in 0 .. current_tip /\ current_tip - (j - 1) >= WindowBottom
          /\ current_tip - (j - 1) = height[T] - j
      BY <1>1, <2>2, <2>3, <2>6, <3>1
    <3>3. chain_block[current_tip - (j - 1)] = anc[t][j - 1]
      BY <2>1, <3>2 DEF ChainInv, MainChainSound, t
    <3>. QED BY <2>5, <3>2, <3>3
  <2>7. ASSUME NEW u \in uncles[T]
        PROVE  /\ height[u] # 0 /\ chain_block[height[u] - 1] = prev[u]
               /\ chain_block[height[u]] # u
    <3>1. PICK i \in 2 .. height[T] :
            /\ i < ShareWindow /\ prev[u] = anc[T][i] /\ u # anc[T][i - 1]
            /\ prev[u] \in Block /\ height[u] = height[T] - i + 1
      BY <1>3
    <3>2. /\ i \in 1 .. height[T] /\ i - 1 \in 1 .. height[T] /\ i - 1 < ShareWindow
          /\ height[u] # 0 /\ height[u] - 1 = height[T] - i /\ height[u] = height[T] - (i - 1)
      BY <1>1, <3>1
    <3>3. chain_block[height[u] - 1] = anc[T][i] /\ chain_block[height[u]] = anc[T][i - 1]
      BY <2>6, <3>1, <3>2
    <3>. QED BY <3>1, <3>2, <3>3
  <2>. QED BY <2>7 DEF UnclesOffMainChain
<1>6. height[T] = 0 => UnclesOffMainChain(T)
  BY <1>1, <1>3 DEF UnclesOffMainChain
<1>. QED BY <1>2, <1>4, <1>5, <1>6

\* An iteration during the reload: it keeps what is to come or there, and when it
\* is the old tip's turn the tip is at least as heavy after it.
LEMMA VerifyStepReload ==
  ASSUME ChainInv, ChainInv', Room, NEW b \in Block, VerifyStep(b), NEW T \in Block, Reloading(T)
  PROVE  TipPow' >= pow_kept' \/ Reloading(T)'
<1>1. UNCHANGED <<loading, pow_kept>>
  BY StepPeak DEF ChainInv
<1>2. CASE <<T, Flag>> \in loading
  BY <1>1, <1>2, StepReloading DEF Reloading
<1>3. CASE <<T, Flag>> \notin loading
  <2>1. next_level = <<T>> /\ T \in stored /\ \A r \in loading : height[r[1]] >= height[T]
    BY <1>3 DEF Reloading
  <2>2. Verifying(b)
    BY DEF VerifyStep, ReportMissing, InvalidBlock, ChainStart, NotYetVerified, RejectUncles,
       ExtendTip, ForkIncomplete, ForkNotHeavier, Reorg, ReorgAtStart, BuildsOnTip, OffTip,
       Heavier, Candidate, Checked
  <2>3. b = T
    BY <2>1, <2>2 DEF Verifying
  <2>4. /\ MissingDeps(T) = {}
        /\ BuildsOnTip(T) => UnclesOffMainChain(T)
        /\ \A i \in 0 .. height[T] :
             i < ShareWindow => anc[T][i] \in stored /\ verified[anc[T][i]] = Flag
    BY <2>1, TipTurn
  <2>5. ~Skips(T)
    <3>1. ~(Len(next_level) > 1)
      BY <2>1
    <3>2. \A c \in stored : prev[c] = T => height[c] = 0
      <4>. SUFFICES ASSUME NEW c \in stored, prev[c] = T, height[c] # 0 PROVE FALSE
        OBVIOUS
      <4>1. c \in Block /\ height[c] <= height[T]
        BY DEF ChainInv, TypeOK, Reloading
      <4>2. height[c] \in Nat /\ height[T] \in Nat /\ height[T] = height[c] - 1
        BY <4>1, BlockFacts
      <4>. QED BY <4>1, <4>2
    <3>. QED BY <2>4, <3>1, <3>2 DEF Skips
  <2>6. \A i \in 0 .. height[T] :
          i < ShareWindow => anc[T][i] \in stored' /\ verified'[anc[T][i]] = Flag
    <3>1. \A r \in loading : r[1] \notin stored
      BY DEF ChainInv, LoadingFresh
    <3>2. ASSUME NEW i \in 0 .. height[T], i < ShareWindow PROVE <<anc[T][i], Flag>> \notin loading'
      BY <1>1, <2>4, <3>1, <3>2
    <3>. QED BY <2>3, <3>2, StepReloading DEF Pending
  <2>7. VerifiedChain(T)'
    BY <2>6, WindowGenerations DEF VerifiedChain, IsVerified
  <2>8. T \in stored'
    <3>1. 0 \in 0 .. height[T] /\ 0 < ShareWindow /\ anc[T][0] = T
      BY BlockFacts, WindowAssumption
    <3>. QED BY <2>6, <3>1
  <2>9. total_pow[T] <= TipPow'
    BY <2>3, <2>5, <2>7, <2>8, HeadDecided
  <2>10. TipPow' \in Nat /\ total_pow[T] \in Nat /\ total_pow[T] = pow_kept
    BY BlockFacts, ChainAssumption DEF ChainInv, TypeOK, TipPow, HasTip, TipHash, Reloading
  <2>. QED BY <1>1, <2>9, <2>10
<1>. QED BY <1>2, <1>3

\* A reloaded block comes when nothing lower is left, so it is not above the old
\* tip, and the old tip comes when everything below it is there.
LEMMA LoadReload ==
  ASSUME ChainInv, ChainInv', NEW r \in loading, LoadBlock(r), NEW T \in Block, Reloading(T)
  PROVE  Reloading(T)'
<1>1. /\ next_level = <<>> /\ loading' = loading \ {r} /\ AddBlock(r[1], r[2])
      /\ \A q \in loading : height[r[1]] <= height[q[1]]
      /\ UNCHANGED <<pow_kept, peak>> /\ r[1] \in Block /\ r = <<r[1], r[2]>>
      /\ r[1] \notin stored /\ \A q \in loading : q[1] = r[1] => q = r
  BY DEF LoadBlock, AddBlock, ChainInv, TypeOK, LoadingFresh
<1>2. /\ stored' = stored \cup {r[1]} /\ next_level' = <<r[1]>> /\ verified'[r[1]] = r[2]
      /\ \A x \in stored : verified'[x] = verified[x]
  BY <1>1 DEF AddBlock, ChainInv, TypeOK
<1>3. <<T, Flag>> \in loading
  BY <1>1 DEF Reloading
<1>4. \A x \in stored' : height[x] <= height[T]
  <2>1. height[r[1]] <= height[T]
    BY <1>1, <1>3
  <2>. QED BY <1>2, <2>1 DEF Reloading
<1>5. ASSUME NEW i \in 0 .. height[T], i < ShareWindow PROVE Pending(anc[T][i])'
  <2>1. Pending(anc[T][i])
    BY <1>5 DEF Reloading
  <2>2. CASE <<anc[T][i], Flag>> = r
    <3>1. r[1] = anc[T][i] /\ r[2] = Flag
      BY <2>2
    <3>. QED BY <1>2, <3>1 DEF Pending
  <2>3. CASE <<anc[T][i], Flag>> # r
    BY <1>1, <1>2, <2>1, <2>3 DEF Pending
  <2>. QED BY <2>2, <2>3
<1>6. ASSUME NEW u \in uncles[T]
      PROVE  u \in stored' \/ \E flags \in SUBSET Flag : <<u, flags>> \in loading'
  <2>1. CASE u = r[1]
    BY <1>2, <2>1
  <2>2. CASE u # r[1]
    <3>1. \A flags \in SUBSET Flag : <<u, flags>> # r
      BY <1>1, <2>2
    <3>. QED BY <1>1, <1>2, <3>1 DEF Reloading
  <2>. QED BY <2>1, <2>2
<1>7. \/ <<T, Flag>> \in loading'
      \/ next_level' = <<T>> /\ T \in stored' /\ \A q \in loading' : height[q[1]] >= height[T]
  <2>1. CASE <<T, Flag>> = r
    <3>1. r[1] = T
      BY <2>1
    <3>2. ASSUME NEW q \in loading' PROVE height[q[1]] >= height[T]
      <4>1. q[1] \in Block /\ height[T] <= height[q[1]]
        BY <1>1, <3>1 DEF ChainInv, TypeOK
      <4>2. height[q[1]] \in Nat /\ height[T] \in Nat
        BY <4>1, BlockFacts
      <4>. QED BY <4>1, <4>2
    <3>. QED BY <1>2, <3>1, <3>2
  <2>2. CASE <<T, Flag>> # r
    BY <1>1, <1>3, <2>2
  <2>. QED BY <2>1, <2>2
<1>. QED BY <1>1, <1>4, <1>5, <1>6, <1>7 DEF Reloading

\* A stop: what the tip needs of its chain goes to the backup, unless it is too old.
LEMMA RestartReload ==
  ASSUME ChainInv, ChainInv', Restart, TipSettled
  PROVE  ReloadInv'
<1>1. /\ stored' = {} /\ peak' = 0
      /\ current_tip' = 0 /\ chain_block' = [h \in Heights |-> Zero]
  BY DEF Restart
<1>2. PICK earliest_date \in EarliestDates :
        /\ pow_kept' = IF TipLoadable(earliest_date) THEN TipPow ELSE 1
        /\ loading' = {<<x, verified[x]>> : x \in {y \in stored : Loadable(y, earliest_date)}}
  BY DEF Restart
<1>3. TipPow' = 1
  BY <1>1 DEF TipPow, HasTip, ChainInv, TypeOK
<1>4. CASE ~TipLoadable(earliest_date) \/ ~HasTip
  <2>1. pow_kept' = 1
    BY <1>2, <1>4 DEF TipPow
  <2>. QED BY <1>3, <2>1 DEF ReloadInv
<1>5. CASE TipLoadable(earliest_date) /\ HasTip
  <2>1. PICK T \in Block : T = TipHash /\ height[T] = current_tip /\ current_tip \in Nat
    BY <1>5, TipFacts DEF ChainInv
  <2>2. total_pow[T] = pow_kept'
    BY <1>2, <1>5, <2>1 DEF TipPow
  <2>3. \A i \in 0 .. height[T] : i < ShareWindow => anc[T][i] \in stored /\ verified[anc[T][i]] = Flag
    BY <1>5, <2>1, WindowGenerations DEF TipSettled, VerifiedChain, IsVerified
  <2>4. \A i \in 0 .. height[T] : i < ShareWindow => timestamp[anc[T][i]] >= earliest_date
    BY <1>5, <2>1, WindowGenerations DEF TipLoadable
  <2>5. \A u \in uncles[T] :
          /\ u \in stored /\ Loadable(u, earliest_date)
          /\ \E i \in 2 .. height[T] : /\ i < ShareWindow /\ prev[u] = anc[T][i]
                                       /\ height[u] = height[T] - i + 1 /\ u # anc[T][i - 1]
    BY <1>5, <2>1 DEF TipSettled, TipLoadable
  <2>6. ASSUME NEW i \in 0 .. height[T], i < ShareWindow PROVE <<anc[T][i], Flag>> \in loading'
    <3>1. /\ anc[T][i] \in stored /\ verified[anc[T][i]] = Flag /\ "target" \in Flag
          /\ timestamp[anc[T][i]] >= earliest_date
      BY <2>3, <2>4, <2>6 DEF Flag
    <3>. QED BY <1>2, <3>1 DEF Loadable
  <2>7. ASSUME NEW u \in uncles[T] PROVE \E flags \in SUBSET Flag : <<u, flags>> \in loading'
    <3>1. <<u, verified[u]>> \in loading'
      BY <1>2, <2>5
    <3>2. verified[u] \in SUBSET Flag
      BY <2>5 DEF ChainInv, TypeOK
    <3>. QED BY <3>1, <3>2
  <2>8. 0 \in 0 .. height[T] /\ 0 < ShareWindow /\ anc[T][0] = T /\ 0 <= height[T]
    BY <2>1, BlockFacts, WindowAssumption
  <2>9. <<T, Flag>> \in loading'
    BY <2>6, <2>8
  <2>10. Reloading(T)'
    BY <1>1, <2>2, <2>5, <2>6, <2>7, <2>8, <2>9 DEF Reloading, Pending
  <2>. QED BY <2>1, <2>10 DEF ReloadInv
<1>. QED BY <1>4, <1>5

\* A node has, once it has reloaded its blocks, a tip at least as heavy as the one
\* it had when it was last stopped, in a call or inside a reload, if none of the
\* blocks that tip needs was skipped: the backup comes back by height, so when the
\* old tip's turn comes its window and its uncles are there.
THEOREM ReloadedTip == Spec /\ []Room /\ []ShallowReorgs /\ StopsSettled => []ReloadKeepsTip
<1>1. Init => ReloadInv
  BY ChainAssumption DEF Init, ReloadInv, TipPow, HasTip, Heights
<1>2. ChainInv /\ ChainInv' /\ Room /\ ReloadInv /\ [Next]_vars
        /\ [Restart => TipSettled]_vars => ReloadInv'
  <2>. SUFFICES ASSUME ChainInv, ChainInv', Room, ReloadInv, [Next]_vars,
                       [Restart => TipSettled]_vars
                PROVE  ReloadInv'
    OBVIOUS
  <2>1. ASSUME UNCHANGED vars PROVE ReloadInv'
    <3>1. TipPow' = TipPow /\ UNCHANGED pow_kept
      BY <2>1 DEF vars, chain_vars, node_vars, TipPow, HasTip, TipHash
    <3>2. ASSUME NEW T \in Block, Reloading(T) PROVE Reloading(T)'
      BY <2>1, <3>2 DEF vars, chain_vars, call_vars, node_vars, Reloading, Pending
    <3>. QED BY <3>1, <3>2 DEF ReloadInv
  <2>2. ASSUME Restart, ~UNCHANGED vars PROVE ReloadInv'
    BY <2>2, RestartReload
  <2>3. ASSUME TipPow >= pow_kept, TipPow' >= TipPow, UNCHANGED pow_kept PROVE ReloadInv'
    <3>1. TipPow \in Nat /\ TipPow' \in Nat /\ pow_kept \in Nat
      BY ChainAssumption DEF ChainInv, TypeOK, TipPow, HasTip, TipHash
    <3>. QED BY <2>3, <3>1 DEF ReloadInv
  <2>4. ASSUME UNCHANGED <<chain_block, current_tip>> PROVE TipPow' >= TipPow
    <3>1. TipPow' = TipPow /\ TipPow \in Nat
      BY <2>4, TipPowType DEF TipPow, HasTip, TipHash, ChainInv
    <3>. QED BY <3>1
  <2>5. ASSUME NEW b \in Block, VerifyStep(b) PROVE ReloadInv'
    <3>1. CASE TipPow >= pow_kept
      BY <2>3, <2>5, <3>1, TipPowStep, StepPeak DEF ChainInv
    <3>2. CASE \E T \in Block : Reloading(T)
      <4>1. PICK T \in Block : Reloading(T)
        BY <3>2
      <4>2. TipPow' >= pow_kept' \/ Reloading(T)'
        BY <2>5, <4>1, VerifyStepReload
      <4>. QED BY <4>2 DEF ReloadInv
    <3>. QED BY <3>1, <3>2 DEF ReloadInv
  <2>6. ASSUME NEW r \in loading, LoadBlock(r) PROVE ReloadInv'
    <3>1. CASE TipPow >= pow_kept
      BY <2>3, <2>4, <2>6, <3>1 DEF LoadBlock, AddBlock
    <3>2. CASE \E T \in Block : Reloading(T)
      <4>1. PICK T \in Block : Reloading(T)
        BY <3>2
      <4>2. Reloading(T)'
        BY <2>6, <4>1, LoadReload
      <4>. QED BY <4>2 DEF ReloadInv
    <3>. QED BY <3>1, <3>2 DEF ReloadInv
  <2>7. ASSUME NEW b \in Block, NEW syncing \in BOOLEAN, submit_block(b, syncing)
        PROVE  ReloadInv'
    <3>1. ~\E T \in Block : Reloading(T)
      BY <2>7 DEF submit_block, Idle, Reloading
    <3>2. TipPow >= pow_kept
      BY <3>1 DEF ReloadInv
    <3>. QED BY <2>3, <2>4, <2>7, <3>2 DEF submit_block, AddBlock, node_vars
  <2>. QED BY <2>1, <2>2, <2>5, <2>6, <2>7 DEF Next
<1>3. ReloadInv => ReloadKeepsTip
  <2>. SUFFICES ASSUME ReloadInv, Idle PROVE TipPow >= pow_kept
    BY DEF ReloadKeepsTip
  <2>1. ~\E T \in Block : Reloading(T)
    BY DEF Idle, Reloading
  <2>. QED BY <2>1 DEF ReloadInv
<1>4. (rerooted \/ ChainInv) /\ (rerooted \/ ChainInv)' /\ Room /\ [Next]_vars
        /\ [Restart => TipSettled]_vars /\ (rerooted \/ ReloadInv) => (rerooted \/ ReloadInv)'
  BY <1>2, RerootedStays
<1>5. rerooted \/ ReloadInv => ReloadKeepsTip
  <2>1. rerooted => ReloadKeepsTip
    BY DEF ReloadKeepsTip
  <2>. QED BY <1>3, <2>1
<1>. QED BY <1>1, <1>4, <1>5, ChainInvariance, PTL DEF Spec, StopsSettled
=============================================================================
