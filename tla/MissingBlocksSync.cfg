SPECIFICATION Spec
CONSTANTS
  full = full
  other = other
  Peer = {full, other}
  Block = {0, 1, 2, 3, 12, 13}
  Zero = Zero
  Bad = {3}
  height <- MCheight
  prev <- MCprev
  uncles <- MCuncles
  Has <- MCHas
  main <- MCmain
  peer_height <- MCpeer_height
  MAX_DEPTH = 3
  NotifyBehind = 1
  NotifyAhead = 3
  NotifyMissing = 3
  NotifyBelow = 1
  KeepDepth = 2
  Lag = 1
  MaxNotifies = 2
INVARIANT GapsFilled
INVARIANT OneGapFilled
PROPERTY SyncsEnd
CHECK_DEADLOCK FALSE
