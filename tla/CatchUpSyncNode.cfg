SPECIFICATION ReachableSpec
CONSTANTS
  Peer = {a}
  NoPeer = NoPeer
  Faulty = {}
  Permit = {k}
  NoPermit = NoPermit
  MAX_CATCH_UP_BLOCKS_TO_RETURN = 1
  MAX_CATCH_UP_ATTEMPTS = 1
  MaxTip = 2
  MaxQueue = 2
PROPERTY NodeSyncs
CHECK_DEADLOCK FALSE
