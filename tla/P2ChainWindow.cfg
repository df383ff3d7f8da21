SPECIFICATION Spec
CONSTANTS
  Zero = Zero
  Block = {0, 1, 2, 3, 4, 5, 6, 7, 56}
  MaxHeight = 7
  height <- MCheight
  prev <- MCprev
  uncles <- MCuncles
  anc <- MCanc
  target <- MCtarget
  total_pow <- MCtotal_pow
  BadTarget = {}
  BadMedian = {}
  BadShares = {}
  timestamp <- MCtimestamp
  EarliestDates = {0}
  ShareWindow = 4
  MaxLevels = 10
  LwmaSize = 2
  MedianWindow = 2
  MAX_UNCLE_AGE = 3
  UNCLE_LIMIT = 3
  UNCLE_START_HEIGHT = 4
  MAX_MISSING_PARENTS = 2
  MaxAhead = 7
  MaxRestarts = 0
INVARIANT ShareWindowVerified
CHECK_DEADLOCK FALSE
