SPECIFICATION Spec
CONSTANTS
  Miner = {a, b}
  NoMiner = NoMiner
  Solo = Solo
  MAX_STORED_TEMPLATES = 1
  MaxTip = 2
  MaxTemplates = 2
  MaxHeight = 1
  MaxDifficulty = 2
INVARIANT TemplatePaysItsParent
INVARIANT DifficultyKnown
PROPERTY LockComesBack
CHECK_DEADLOCK FALSE
