SPECIFICATION Spec
CONSTANTS
  Zero = Zero
  Block = {0, 1, 2, 3, 4, 5, 10, 13, 14, 23, 24, 33, 44}
  MaxHeight = 5
  height <- MCheight
  prev <- MCprev
  uncles <- MCuncles
  anc <- MCanc
  target <- MCtarget
  total_pow <- MCtotal_pow
  BadTarget = {33}
  BadMedian = {24}
  BadShares = {23}
  timestamp <- MCtimestamp
  EarliestDates = {0}
  ShareWindow = 4
  MaxLevels = 10
  LwmaSize = 2
  MedianWindow = 2
  MAX_UNCLE_AGE = 3
  UNCLE_LIMIT = 3
  UNCLE_START_HEIGHT = 4
  MAX_MISSING_PARENTS = 2
  MaxAhead = 2
  MaxRestarts = 0
INVARIANT TypeOK
INVARIANT NoLinkAboveTip
INVARIANT HeaviestChainWins
INVARIANT FlagsSound
INVARIANT NoBadBlockOnMainChain
PROPERTY TipPowNeverDrops
CHECK_DEADLOCK FALSE
