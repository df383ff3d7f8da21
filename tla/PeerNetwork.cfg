SPECIFICATION NetSpec
CONSTANTS
  p1 = p1
  s1 = s1
  Peer = {p1, s1}
  Seed = {s1}
  OtherSquad = {p1}
  Self = Self
  Nobody = Nobody
  MAX_OUTBOUND_SQUAD_PEERS = 3
  MAX_OUTBOUND_NON_SQUAD_PEERS = 1
  NoLease = NoLease
  LeaseTicks = 2
  RenewTicks = 2
  RelaysAtOnce = 1
  NUM_PEERS_TO_PEER_INFO_EXCHANGE = 1
  MaxExchanges = 2
INVARIANT NetTypeOK
PROPERTY ReservationsRenewed
PROPERTY ExchangesSettle
PROPERTY KnownPeersDialed
