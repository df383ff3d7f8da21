SPECIFICATION Spec
CONSTANTS
  Zero = Zero
  Block <- MCBlock
  MaxHeight = 6
  height <- MCheight
  prev <- MCprev
  uncles <- MCuncles
  anc <- MCanc
  target <- MCtarget
  total_pow <- MCtotal_pow
  BadTarget = {}
  BadMedian = {}
  BadShares = {}
  timestamp <- MCtimestamp
  EarliestDates = {0, 1}
  ShareWindow = 4
  MaxLevels = 6
  LwmaSize = 2
  MedianWindow = 2
  MAX_UNCLE_AGE = 3
  UNCLE_LIMIT = 3
  UNCLE_START_HEIGHT = 4
  MAX_MISSING_PARENTS = 2
  MaxAhead = 1
  MaxRestarts = 2
INVARIANT MainChainSound
INVARIANT LwmaCoherent
INVARIANT NoPanic
INVARIANT ReloadKeepsTip
CHECK_DEADLOCK FALSE
