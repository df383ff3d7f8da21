SPECIFICATION Spec
CONSTANTS
  Peer = {a, b}
  NoPeer = NoPeer
  Faulty = {b}
  Permit = {k}
  NoPermit = NoPermit
  MAX_CATCH_UP_BLOCKS_TO_RETURN = 0
  MAX_CATCH_UP_ATTEMPTS = 2
  MaxTip = 3
  MaxQueue = 1
INVARIANT PermitOwnedOnce
INVARIANT ContinuationUndisturbed
PROPERTY PermitsReturn
CHECK_DEADLOCK FALSE
