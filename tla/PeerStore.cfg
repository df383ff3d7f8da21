SPECIFICATION Spec
CONSTANTS
  p1 = p1
  p2 = p2
  s1 = s1
  Peer = {p1, p2, s1}
  Seed = {s1}
  MAX_GREY_LISTINGS = 2
  MAX_CATCH_UP_ATTEMPTS = 1
  NoRecord = NoRecord
SYMMETRY Symmetry
INVARIANT TypeOK
INVARIANT ListsDisjoint
INVARIANT GreyListingsBounded
INVARIANT SeedsForgiven
PROPERTY BansOnlyExpire
PROPERTY PeersNeverForgotten
PROPERTY ImplementsPeerLists
