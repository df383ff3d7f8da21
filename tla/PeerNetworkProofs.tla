-------------------------- MODULE PeerNetworkProofs --------------------------
(***************************************************************************)
(* Proofs about PeerNetwork, for any finite set of peers: circuits and     *)
(* exchanges are only ever with connected peers, seeds are never taken for *)
(* relays, and a reservation runs out only after its renewal was asked for.*)
(***************************************************************************)
EXTENDS PeerNetwork, FiniteSetTheorems, TLAPS

-----------------------------------------------------------------------------
(* The inductive invariant: NetTypeOK in parts, finite sets, and that what *)
(* ends soon has been asked for.                                           *)

ListsOK == get_known_peers \subseteq Peer /\ no_address \subseteq (Peer \ Seed) \X BOOLEAN

SwarmOK == connected \subseteq Peer /\ dialing \subseteq Peer /\ dialed_seed_peers \subseteq Seed

ExchangesOK ==
  /\ exchanges \subseteq [peer : connected, known : SUBSET Peer, id : {0, 1}]
  /\ IsFiniteSet(exchanges) /\ Cardinality(exchanges) <= MaxExchanges

RelaysOK ==
  /\ possible_relays \subseteq Peer \ Seed /\ asked \subseteq Peer
  /\ lease \in [Peer -> 0 .. LeaseTicks \cup {NoLease}]
  /\ circuits \subseteq {p \in connected : HasLease(p)}

RenewalsAsked == \A p \in Peer : lease[p] # NoLease /\ lease[p] < RenewTicks => p \in asked

NetInv == ListsOK /\ SwarmOK /\ ExchangesOK /\ RelaysOK /\ RenewalsAsked

LEMMA NetInvType == NetInv => NetTypeOK
BY DEF NetInv, NetTypeOK, ListsOK, SwarmOK, ExchangesOK, RelaysOK

LEMMA NetInvInit == NetInit => NetInv
<1>. SUFFICES ASSUME NetInit PROVE NetInv
  OBVIOUS
<1>1. ListsOK
  BY DEF NetInit, InitLists, ListsOK, get_known_peers
<1>2. SwarmOK
  BY PeerNetworkAssumption DEF NetInit, SwarmOK
<1>3. ExchangesOK
  BY FS_EmptySet, PeerNetworkAssumption DEF NetInit, ExchangesOK
<1>4. RelaysOK /\ RenewalsAsked
  BY DEF NetInit, RelaysOK, RenewalsAsked
<1>. QED BY <1>1, <1>2, <1>3, <1>4 DEF NetInv

-----------------------------------------------------------------------------
(* The building blocks of the actions.                                     *)

\* The peer store only ever lists peers.
LEMMA ListsStep ==
  ASSUME ListsOK,
         \/ UNCHANGED peer_vars
         \/ \E p \in Peer \cup {Self}, ours, address \in BOOLEAN : AddPeer(p, ours, address)
         \/ /\ UNCHANGED no_address
            /\ \/ \E p \in Peer : Fail(p) \/ Ban(p) \/ Restore(p)
               \/ \E banned \in SUBSET Peer : ClearGrey(banned)
               \/ ClearBlack
  PROVE  ListsOK'
<1>. USE DEF ListsOK, get_known_peers
<1>1. CASE UNCHANGED peer_vars
  BY <1>1 DEF peer_vars, list_vars
<1>2. ASSUME NEW p \in Peer, Fail(p) \/ Ban(p) \/ Restore(p), UNCHANGED no_address
      PROVE ListsOK'
  BY <1>2 DEF Fail, Ban, Restore
<1>3. ASSUME NEW p \in Peer \cup {Self}, NEW ours \in BOOLEAN, NEW address \in BOOLEAN,
             AddPeer(p, ours, address)
      PROVE ListsOK'
  <2>1. CASE p = Self
    BY <1>3, <2>1 DEF AddPeer, peer_vars, list_vars
  <2>2. CASE p # Self
    BY <1>3, <2>2 DEF AddPeer, Add, Replaces
  <2>. QED BY <2>1, <2>2
<1>4. ASSUME NEW banned \in SUBSET Peer, ClearGrey(banned), UNCHANGED no_address PROVE ListsOK'
  BY <1>4 DEF ClearGrey
<1>5. CASE ClearBlack /\ UNCHANGED no_address
  BY <1>5 DEF ClearBlack
<1>. QED BY <1>1, <1>2, <1>3, <1>4, <1>5

\* Fewer exchanges, all with peers that are still connected.
LEMMA ExchangesShrink ==
  ASSUME ExchangesOK, exchanges' \subseteq exchanges, \A e \in exchanges' : e.peer \in connected'
  PROVE  ExchangesOK'
<1>1. IsFiniteSet(exchanges') /\ Cardinality(exchanges') <= Cardinality(exchanges)
  BY FS_Subset DEF ExchangesOK
<1>2. Cardinality(exchanges') \in Nat /\ Cardinality(exchanges) \in Nat
  BY <1>1, FS_CardinalityType DEF ExchangesOK
<1>3. Cardinality(exchanges') <= MaxExchanges
  BY <1>1, <1>2, PeerNetworkAssumption DEF ExchangesOK
<1>4. exchanges' \subseteq [peer : connected', known : SUBSET Peer, id : {0, 1}]
  BY DEF ExchangesOK
<1>. QED BY <1>1, <1>3, <1>4 DEF ExchangesOK

LEMMA DisconnectStep ==
  ASSUME ExchangesOK, RelaysOK, connected \subseteq Peer, NEW peers, Disconnect(peers), UNCHANGED lease
  PROVE  /\ connected' \subseteq Peer /\ ExchangesOK'
         /\ circuits' \subseteq {p \in connected' : HasLease(p)'}
<1>1. /\ connected' = connected \ peers /\ circuits' = circuits \ peers
      /\ exchanges' = {e \in exchanges : e.peer \notin peers}
  BY DEF Disconnect, HangUp, Surviving
<1>2. \A e \in exchanges : e.peer \in connected
  BY DEF ExchangesOK
<1>3. ExchangesOK'
  BY <1>1, <1>2, ExchangesShrink
<1>. QED BY <1>1, <1>3 DEF RelaysOK, HasLease

LEMMA InitiateStep ==
  ASSUME ListsOK, ExchangesOK, connected \subseteq connected', connected' \subseteq Peer,
         NEW peers \in SUBSET connected', Initiate(peers)
  PROVE  ExchangesOK'
<1>. DEFINE new == {Exchange(p, 0) : p \in peers}
<1>1. exchanges' = exchanges \cup new /\ Cardinality(exchanges') <= MaxExchanges
  BY DEF Initiate
<1>2. new \subseteq [peer : connected', known : SUBSET Peer, id : {0, 1}]
  BY DEF Exchange, ListsOK
<1>3. IsFiniteSet(new)
  <2>. DEFINE f == [p \in peers |-> Exchange(p, 0)]
  <2>1. IsFiniteSet(peers)
    BY FS_Subset, PeerNetworkAssumption
  <2>2. f \in Surjection(peers, new)
    BY DEF Surjection
  <2>. HIDE DEF f, new
  <2>. QED BY <2>1, <2>2, FS_Surjection
<1>. HIDE DEF new
<1>4. IsFiniteSet(exchanges')
  BY <1>1, <1>3, FS_Union DEF ExchangesOK
<1>. QED BY <1>1, <1>2, <1>4 DEF ExchangesOK

\* Steps of the swarm that leave reservations alone.
LEMMA RelaysKept ==
  ASSUME RelaysOK, RenewalsAsked, UNCHANGED <<lease, asked>>, possible_relays' \subseteq Peer \ Seed,
         circuits' \subseteq {p \in connected' : HasLease(p)'}
  PROVE  RelaysOK' /\ RenewalsAsked'
BY DEF RelaysOK, RenewalsAsked

LEMMA CircuitsKept ==
  ASSUME RelaysOK, connected \subseteq connected', UNCHANGED <<lease, circuits>>
  PROVE  circuits' \subseteq {p \in connected' : HasLease(p)'}
BY DEF RelaysOK, HasLease

\* Steps that touch only the lists.
LEMMA ListsOnly ==
  ASSUME NetInv, ListsOK', UNCHANGED <<swarm_vars, relay_vars>>
  PROVE  NetInv'
BY DEF NetInv, swarm_vars, relay_vars, SwarmOK, ExchangesOK, RelaysOK, RenewalsAsked, HasLease

-----------------------------------------------------------------------------
(* Every step keeps the invariant.                                         *)

LEMMA EstablishedStep ==
  ASSUME NetInv, NEW p \in Peer, NEW dialer \in BOOLEAN, ConnectionEstablished(p, dialer)
  PROVE  NetInv'
<1>1. /\ dialing' = dialing \ {p} /\ UNCHANGED <<peer_vars, possible_relays, lease, asked>>
  BY DEF ConnectionEstablished
<1>2. ListsOK'
  BY <1>1, ListsStep DEF NetInv
<1>3. possible_relays' \subseteq Peer \ Seed
  BY <1>1 DEF NetInv, RelaysOK
<1>4. CASE p \in black
  <2>1. Disconnect({p}) /\ UNCHANGED dialed_seed_peers
    BY <1>4 DEF ConnectionEstablished
  <2>2. connected' \subseteq Peer /\ ExchangesOK' /\ circuits' \subseteq {q \in connected' : HasLease(q)'}
    BY <1>1, <2>1, DisconnectStep DEF NetInv, SwarmOK
  <2>3. RelaysOK' /\ RenewalsAsked'
    BY <1>1, <1>3, <2>2, RelaysKept DEF NetInv
  <2>4. SwarmOK'
    BY <1>1, <2>1, <2>2 DEF NetInv, SwarmOK
  <2>. QED BY <1>2, <2>2, <2>3, <2>4 DEF NetInv
<1>5. CASE p \notin black
  <2>1. /\ connected' = connected \cup {p} /\ Initiate({p}) /\ UNCHANGED circuits
        /\ dialed_seed_peers' \subseteq dialed_seed_peers \cup ({p} \cap Seed)
    BY <1>5 DEF ConnectionEstablished
  <2>2. SwarmOK'
    BY <1>1, <2>1 DEF NetInv, SwarmOK
  <2>3. ExchangesOK'
    BY <2>1, <2>2, InitiateStep DEF NetInv, SwarmOK
  <2>4. circuits' \subseteq {q \in connected' : HasLease(q)'}
    BY <1>1, <2>1, CircuitsKept DEF NetInv
  <2>5. RelaysOK' /\ RenewalsAsked'
    BY <1>1, <1>3, <2>4, RelaysKept DEF NetInv
  <2>. QED BY <1>2, <2>2, <2>3, <2>5 DEF NetInv
<1>. QED BY <1>4, <1>5

LEMMA ClosedStep ==
  ASSUME NetInv, NEW peers, Disconnect(peers), possible_relays' \subseteq Peer \ Seed,
         ListsOK', UNCHANGED <<dialing, dialed_seed_peers, lease, asked>>
  PROVE  NetInv'
<1>1. connected' \subseteq Peer /\ ExchangesOK' /\ circuits' \subseteq {q \in connected' : HasLease(q)'}
  BY DisconnectStep DEF NetInv, SwarmOK
<1>2. RelaysOK' /\ RenewalsAsked'
  BY <1>1, RelaysKept DEF NetInv
<1>3. SwarmOK'
  BY <1>1 DEF NetInv, SwarmOK
<1>. QED BY <1>1, <1>2, <1>3 DEF NetInv

LEMMA DialErrorStep ==
  ASSUME NetInv, NEW p \in Peer, NEW transport \in BOOLEAN, OutgoingConnectionError(p, transport)
  PROVE  NetInv'
<1>1. dialing' = dialing \ {p} /\ UNCHANGED <<connected, dialed_seed_peers, exchanges, relay_vars>>
  BY DEF OutgoingConnectionError
<1>2. ListsOK'
  <2>1. UNCHANGED peer_vars \/ (Fail(p) /\ UNCHANGED no_address)
    BY DEF OutgoingConnectionError
  <2>. QED BY <2>1, ListsStep DEF NetInv
<1>. QED BY <1>1, <1>2 DEF NetInv, relay_vars, SwarmOK, ExchangesOK, RelaysOK, RenewalsAsked, HasLease

LEMMA IdentifiedStep ==
  ASSUME NetInv, NEW p \in Peer, NEW supported \in BOOLEAN, NEW relay \in BOOLEAN,
         handle_peer_identified(p, supported, relay)
  PROVE  NetInv'
<1>1. /\ UNCHANGED <<peer_vars, dialing, dialed_seed_peers, lease, asked>>
      /\ UNCHANGED <<connected, circuits, exchanges>> \/ Disconnect({p})
      /\ possible_relays' \subseteq Peer \ Seed
  BY DEF handle_peer_identified, NetInv, RelaysOK
<1>2. ListsOK'
  BY <1>1, ListsStep DEF NetInv
<1>3. CASE UNCHANGED <<connected, circuits, exchanges>>
  <2>1. RelaysOK' /\ RenewalsAsked'
    BY <1>1, <1>3, CircuitsKept, RelaysKept DEF NetInv
  <2>. QED BY <1>1, <1>2, <1>3, <2>1 DEF NetInv, SwarmOK, ExchangesOK
<1>4. CASE Disconnect({p})
  BY <1>1, <1>2, <1>4, ClosedStep
<1>. QED BY <1>1, <1>3, <1>4

LEMMA MetaDataStep ==
  ASSUME NetInv, NEW p \in Peer, NEW ours \in BOOLEAN, NEW address \in BOOLEAN, NEW outdated \in BOOLEAN,
         handle_meta_data_exchange_response(p, ours, address, outdated)
  PROVE  NetInv'
<1>1. UNCHANGED <<dialing, dialed_seed_peers, possible_relays, lease, asked>>
  BY DEF handle_meta_data_exchange_response
<1>2. CASE outdated
  <2>1. Disconnect({p}) /\ UNCHANGED peer_vars
    BY <1>2 DEF handle_meta_data_exchange_response
  <2>2. ListsOK' /\ possible_relays' \subseteq Peer \ Seed
    BY <1>1, <2>1, ListsStep DEF NetInv, RelaysOK
  <2>. QED BY <1>1, <2>1, <2>2, ClosedStep
<1>3. CASE ~outdated
  <2>1. AddPeer(p, ours, address) /\ UNCHANGED <<connected, circuits, exchanges>>
    BY <1>3 DEF handle_meta_data_exchange_response
  <2>2. ListsOK'
    BY <2>1, ListsStep DEF NetInv
  <2>. QED BY <1>1, <2>1, <2>2, ListsOnly DEF swarm_vars, relay_vars
<1>. QED BY <1>2, <1>3

\* An exchange ends, another may follow it, and a seed is left.
LEMMA ExchangeResponseStep ==
  ASSUME NetInv, NEW e \in exchanges, NEW q \in Peer \cup {Self, Nobody}, NEW ours \in BOOLEAN,
         handle_direct_peer_exchange_response(e, q, ours, FALSE)
  PROVE  NetInv'
<1>. DEFINE next == FollowUp(e)'
            follow_up == IF q # Nobody /\ Added(q, ours) THEN {next} ELSE {}
            left == {e.peer} \cap dialed_seed_peers
            all == (exchanges \ {e}) \cup follow_up
<1>1. /\ exchanges' = {x \in all : x.peer \notin left}
      /\ connected' = connected \ left /\ circuits' = circuits \ left
      /\ dialed_seed_peers' = dialed_seed_peers \ {e.peer}
      /\ UNCHANGED <<dialing, possible_relays, lease, asked>>
  BY DEF handle_direct_peer_exchange_response, HangUp, Surviving
<1>2. ListsOK'
  <2>1. IF q = Nobody THEN UNCHANGED peer_vars ELSE AddPeer(q, ours, TRUE)
    BY DEF handle_direct_peer_exchange_response
  <2>. QED BY <2>1, ListsStep DEF NetInv
<1>3. SwarmOK'
  BY <1>1 DEF NetInv, SwarmOK
<1>4. RelaysOK' /\ RenewalsAsked'
  <2>1. circuits' \subseteq {p \in connected' : HasLease(p)'}
    BY <1>1 DEF NetInv, RelaysOK, HasLease
  <2>2. possible_relays' \subseteq Peer \ Seed
    BY <1>1 DEF NetInv, RelaysOK
  <2>. QED BY <1>1, <2>1, <2>2, RelaysKept DEF NetInv
<1>5. e.peer \in connected /\ e.id \in {0, 1}
  BY DEF NetInv, ExchangesOK
<1>6. next \in [peer : connected, known : SUBSET Peer, id : {0, 1}]
  BY <1>2, <1>5 DEF FollowUp, Exchange, ListsOK
<1>7. all \subseteq [peer : connected, known : SUBSET Peer, id : {0, 1}]
  <2>. HIDE DEF next
  <2>. QED BY <1>6 DEF NetInv, ExchangesOK
<1>8. IsFiniteSet(all) /\ Cardinality(all) <= MaxExchanges
  <2>1. IsFiniteSet(exchanges) /\ Cardinality(exchanges) \in Nat /\ Cardinality(exchanges) <= MaxExchanges
    BY FS_CardinalityType DEF NetInv, ExchangesOK
  <2>2. IsFiniteSet(exchanges \ {e}) /\ Cardinality(exchanges \ {e}) = Cardinality(exchanges) - 1
    BY <2>1, FS_RemoveElement
  <2>. HIDE DEF next
  <2>3. CASE follow_up = {}
    <3>1. all = exchanges \ {e}
      BY <2>3
    <3>. HIDE DEF all
    <3>. QED BY <2>1, <2>2, <3>1, PeerNetworkAssumption
  <2>4. CASE follow_up = {next}
    <3>. DEFINE rest == exchanges \ {e}
    <3>1. all = rest \cup {next}
      BY <2>4
    <3>. HIDE DEF all, rest
    <3>2. IsFiniteSet(rest \cup {next})
          /\ Cardinality(rest \cup {next}) = IF next \in rest THEN Cardinality(rest) ELSE Cardinality(rest) + 1
      BY <2>2, FS_AddElement DEF rest
    <3>. QED BY <2>1, <2>2, <3>1, <3>2, PeerNetworkAssumption DEF rest
  <2>. QED BY <2>3, <2>4
<1>. HIDE DEF all, left, follow_up, next
<1>9. exchanges' \in SUBSET all
  BY <1>1
<1>10. IsFiniteSet(exchanges') /\ Cardinality(exchanges') <= MaxExchanges
  <2>1. IsFiniteSet(exchanges') /\ Cardinality(exchanges') <= Cardinality(all)
    BY <1>8, <1>9, FS_Subset
  <2>2. Cardinality(exchanges') \in Nat /\ Cardinality(all) \in Nat
    BY <1>8, <2>1, FS_CardinalityType
  <2>. QED BY <1>8, <2>1, <2>2, PeerNetworkAssumption
<1>11. exchanges' \subseteq [peer : connected', known : SUBSET Peer, id : {0, 1}]
  BY <1>1, <1>7
<1>12. ExchangesOK'
  BY <1>10, <1>11 DEF ExchangesOK
<1>. QED BY <1>2, <1>3, <1>4, <1>12 DEF NetInv

LEMMA ExchangeEndsStep == NetInv /\ ExchangeEnds => NetInv'
<1>. SUFFICES ASSUME NetInv, NEW e \in exchanges,
                     \/ \E q \in Shared(e) : \E ours \in Squads(q) :
                          handle_direct_peer_exchange_response(e, q, ours, FALSE)
                     \/ handle_direct_peer_exchange_response(e, Nobody, TRUE, TRUE)
                     \/ ExchangeFails(e)
              PROVE NetInv'
  BY DEF ExchangeEnds
<1>1. ASSUME NEW q \in Shared(e), NEW ours \in Squads(q),
             handle_direct_peer_exchange_response(e, q, ours, FALSE)
      PROVE NetInv'
  <2>1. q \in Peer \cup {Self, Nobody} /\ ours \in BOOLEAN
    BY DEF Shared, Squads
  <2>. QED BY <1>1, <2>1, ExchangeResponseStep
<1>2. CASE handle_direct_peer_exchange_response(e, Nobody, TRUE, TRUE)
  <2>1. /\ Disconnect({e.peer})
        /\ UNCHANGED <<peer_vars, dialed_seed_peers, dialing, possible_relays, lease, asked>>
    BY <1>2 DEF handle_direct_peer_exchange_response
  <2>2. ListsOK' /\ possible_relays' \subseteq Peer \ Seed
    BY <2>1, ListsStep DEF NetInv, RelaysOK
  <2>. QED BY <2>1, <2>2, ClosedStep
<1>3. CASE ExchangeFails(e)
  <2>1. /\ exchanges' = exchanges \ {e}
        /\ UNCHANGED <<peer_vars, connected, dialing, dialed_seed_peers, relay_vars>>
    BY <1>3 DEF ExchangeFails
  <2>2. ExchangesOK'
    BY <2>1, ExchangesShrink DEF NetInv, ExchangesOK
  <2>3. ListsOK'
    BY <2>1, ListsStep DEF NetInv
  <2>. QED BY <2>1, <2>2, <2>3 DEF NetInv, SwarmOK, RelaysOK, RenewalsAsked, HasLease, relay_vars
<1>. QED BY <1>1, <1>2, <1>3

LEMMA ExchangeTickStep == NetInv /\ PeerExchangeTick => NetInv'
<1>. SUFFICES ASSUME NetInv, PeerExchangeTick PROVE NetInv'
  OBVIOUS
<1>1. UNCHANGED <<peer_vars, connected, dialing, dialed_seed_peers, relay_vars>>
  BY DEF PeerExchangeTick
<1>2. PICK peers \in SUBSET connected : Initiate(peers)
  BY DEF PeerExchangeTick, Some, kSubset
<1>3. ExchangesOK'
  BY <1>1, <1>2, InitiateStep DEF NetInv, SwarmOK
<1>4. ListsOK'
  BY <1>1, ListsStep DEF NetInv
<1>. QED BY <1>1, <1>3, <1>4 DEF NetInv, SwarmOK, RelaysOK, RenewalsAsked, HasLease, relay_vars

LEMMA ChurnStep == NetInv /\ Churn => NetInv'
<1>. SUFFICES ASSUME NetInv, Churn PROVE NetInv'
  OBVIOUS
<1>1. UNCHANGED <<peer_vars, dialing, dialed_seed_peers, possible_relays, lease, asked>>
  BY DEF Churn
<1>2. PICK peers : Disconnect(peers)
  BY DEF Churn
<1>3. ListsOK' /\ possible_relays' \subseteq Peer \ Seed
  BY <1>1, ListsStep DEF NetInv, RelaysOK
<1>. QED BY <1>1, <1>2, <1>3, ClosedStep

LEMMA SeekStep ==
  ASSUME NetInv, NEW rested \in SUBSET (Peer \ Seed), SeekConnections(rested)
  PROVE  NetInv'
<1>1. UNCHANGED <<peer_vars, connected, dialed_seed_peers, exchanges, relay_vars>>
  BY DEF SeekConnections
<1>2. PICK s \in SUBSET rested, o \in SUBSET rested : dialing' = dialing \cup s \cup o
  BY DEF SeekConnections, ToDial, Some, kSubset
<1>3. SwarmOK'
  BY <1>1, <1>2 DEF NetInv, SwarmOK
<1>4. ListsOK'
  BY <1>1, ListsStep DEF NetInv
<1>. QED BY <1>1, <1>3, <1>4 DEF NetInv, ExchangesOK, RelaysOK, RenewalsAsked, HasLease, relay_vars

LEMMA RelayTickStep ==
  ASSUME NetInv, NEW nat \in NatStatus, RelayTick(nat)
  PROVE  NetInv'
<1>1. /\ lease' = [p \in Peer |-> IF HasLease(p) THEN lease[p] - 1 ELSE lease[p]]
      /\ circuits' = {p \in circuits : lease'[p] > 0}
      /\ UNCHANGED <<peer_vars, swarm_vars, possible_relays>>
  BY DEF RelayTick
<1>. DEFINE renew == {p \in Peer : lease'[p] # NoLease /\ Expiring(lease'[p])}
<1>2. PICK r \in SUBSET possible_relays : asked' = asked \cup renew \cup r
  <2>. DEFINE needed == circuits' = {} /\ nat = "Private"
  <2>1. IF needed THEN \E r \in FirstRelays : AskForReservations(renew \cup r)
                  ELSE AskForReservations(renew)
    BY DEF RelayTick
  <2>. HIDE DEF needed, renew
  <2>2. CASE needed
    <3>1. PICK r \in FirstRelays : AskForReservations(renew \cup r)
      BY <2>1, <2>2
    <3>. QED BY <3>1 DEF FirstRelays, AskForReservations
  <2>3. CASE ~needed
    <3>1. asked' = asked \cup renew \cup {}
      BY <2>1, <2>3 DEF AskForReservations
    <3>. QED BY <3>1
  <2>. QED BY <2>2, <2>3
<1>3. renew \subseteq Peer /\ \A p \in Peer : lease'[p] # NoLease /\ lease'[p] < RenewTicks => p \in renew
  BY DEF Expiring
<1>. HIDE DEF renew
<1>4. \A p \in Peer : lease[p] \in 0 .. LeaseTicks \cup {NoLease}
  BY DEF NetInv, RelaysOK
<1>5. \A p \in Peer : lease'[p] = IF HasLease(p) THEN lease[p] - 1 ELSE lease[p]
  BY <1>1
<1>6. \A p \in Peer : HasLease(p) => lease[p] \in 1 .. LeaseTicks
  BY <1>4, PeerNetworkAssumption DEF HasLease
<1>7. \A p \in Peer : HasLease(p) => lease'[p] \in 0 .. LeaseTicks /\ lease'[p] # NoLease
  BY <1>5, <1>6, PeerNetworkAssumption
<1>8. lease' \in [Peer -> 0 .. LeaseTicks \cup {NoLease}]
  <2>1. \A p \in Peer : lease'[p] \in 0 .. LeaseTicks \cup {NoLease}
    BY <1>4, <1>5, <1>7
  <2>. QED BY <1>1, <2>1
<1>9. circuits' \subseteq {p \in connected' : HasLease(p)'}
  <2>1. circuits \subseteq {p \in connected : HasLease(p)} /\ connected \subseteq Peer /\ UNCHANGED connected
    BY <1>1 DEF NetInv, RelaysOK, SwarmOK, swarm_vars
  <2>2. \A p \in circuits' : lease'[p] # NoLease /\ lease'[p] > 0 /\ p \in connected
    BY <1>1, <1>7, <2>1
  <2>. QED BY <2>1, <2>2 DEF HasLease
<1>10. RelaysOK'
  BY <1>1, <1>2, <1>3, <1>8, <1>9 DEF NetInv, RelaysOK
<1>11. RenewalsAsked'
  BY <1>2, <1>3 DEF RenewalsAsked
<1>12. ListsOK'
  BY <1>1, ListsStep DEF NetInv
<1>. QED BY <1>1, <1>10, <1>11, <1>12 DEF NetInv, SwarmOK, ExchangesOK, swarm_vars

LEMMA AcceptedStep ==
  ASSUME NetInv, NEW p \in Peer, ReservationReqAccepted(p)
  PROVE  NetInv'
<1>1. /\ p \in connected /\ asked' = asked \ {p} /\ lease' = [lease EXCEPT ![p] = LeaseTicks]
      /\ circuits' = circuits \cup {p} /\ UNCHANGED <<peer_vars, swarm_vars, possible_relays>>
  BY DEF ReservationReqAccepted
<1>2. LeaseTicks \in 0 .. LeaseTicks /\ LeaseTicks > 0 /\ LeaseTicks # NoLease /\ ~(LeaseTicks < RenewTicks)
  BY PeerNetworkAssumption
<1>3. lease'[p] = LeaseTicks /\ \A q \in Peer : q # p => lease'[q] = lease[q]
  BY <1>1 DEF NetInv, RelaysOK
<1>4. RelaysOK'
  <2>1. lease' \in [Peer -> 0 .. LeaseTicks \cup {NoLease}]
    BY <1>1, <1>2 DEF NetInv, RelaysOK
  <2>2. \A q \in Peer : HasLease(q)' <=> HasLease(q) \/ q = p
    BY <1>2, <1>3 DEF HasLease
  <2>3. circuits' \subseteq {q \in connected' : HasLease(q)'}
    BY <1>1, <2>2 DEF NetInv, RelaysOK, SwarmOK, swarm_vars
  <2>. QED BY <1>1, <2>1, <2>3 DEF NetInv, RelaysOK
<1>5. RenewalsAsked'
  BY <1>1, <1>2, <1>3 DEF NetInv, RenewalsAsked
<1>6. ListsOK'
  BY <1>1, ListsStep DEF NetInv
<1>. QED BY <1>1, <1>4, <1>5, <1>6 DEF NetInv, SwarmOK, ExchangesOK, swarm_vars

LEMMA NetInvStep == NetInv /\ [NetNext]_net_vars => NetInv'
<1>. SUFFICES ASSUME NetInv, [NetNext]_net_vars PROVE NetInv'
  OBVIOUS
<1>1. CASE UNCHANGED net_vars
  BY <1>1, ListsStep, ListsOnly DEF net_vars, NetInv
<1>2. ASSUME NEW p \in Peer, NEW dialer \in Dialers(p), ConnectionEstablished(p, dialer) PROVE NetInv'
  BY <1>2, EstablishedStep DEF Dialers
<1>3. ASSUME NEW p \in Peer, ConnectionClosed(p) PROVE NetInv'
  <2>1. Disconnect({p}) /\ UNCHANGED <<peer_vars, dialing, dialed_seed_peers, possible_relays, lease, asked>>
    BY <1>3 DEF ConnectionClosed
  <2>2. ListsOK' /\ possible_relays' \subseteq Peer \ Seed
    BY <2>1, ListsStep DEF NetInv, RelaysOK
  <2>. QED BY <2>1, <2>2, ClosedStep
<1>4. ASSUME NEW p \in Peer, NEW transport \in BOOLEAN, OutgoingConnectionError(p, transport)
      PROVE NetInv'
  BY <1>4, DialErrorStep
<1>5. ASSUME NEW p \in Peer, NEW supported \in BOOLEAN, NEW relay \in Relays(p),
             handle_peer_identified(p, supported, relay)
      PROVE NetInv'
  BY <1>5, IdentifiedStep DEF Relays
<1>6. ASSUME NEW p \in Peer, Ping(p) \/ PeerFails(p) PROVE NetInv'
  <2>1. (Restore(p) \/ Fail(p) \/ Ban(p)) /\ UNCHANGED <<no_address, swarm_vars, relay_vars>>
    BY <1>6 DEF Ping, PeerFails
  <2>2. ListsOK'
    BY <2>1, ListsStep DEF NetInv
  <2>. QED BY <2>1, <2>2, ListsOnly
<1>7. ASSUME NEW p \in Peer, NEW ours \in Squads(p), NEW address \in Addresses(p),
             PeerInfoGossip(p, ours, address) \/ PeerRequest(p, ours, address)
      PROVE NetInv'
  <2>1. /\ AddPeer(p, ours, address) /\ UNCHANGED <<swarm_vars, relay_vars>>
        /\ ours \in BOOLEAN /\ address \in BOOLEAN
    BY <1>7 DEF PeerInfoGossip, PeerRequest, Squads, Addresses
  <2>2. ListsOK'
    BY <2>1, ListsStep DEF NetInv
  <2>. QED BY <2>1, <2>2, ListsOnly
<1>8. ASSUME NEW p \in Peer,
             \/ \E ours \in Squads(p), address \in Addresses(p) :
                  handle_meta_data_exchange_response(p, ours, address, FALSE)
             \/ handle_meta_data_exchange_response(p, TRUE, TRUE, TRUE)
      PROVE NetInv'
  <2>1. Squads(p) \subseteq BOOLEAN /\ Addresses(p) \subseteq BOOLEAN
    BY DEF Squads, Addresses
  <2>. QED BY <1>8, <2>1, MetaDataStep
<1>9. ASSUME NEW p \in Peer, ReservationReqAccepted(p) PROVE NetInv'
  BY <1>9, AcceptedStep
<1>10. CASE ExchangeEnds
  BY <1>10, ExchangeEndsStep
<1>11. CASE PeerExchangeTick
  BY <1>11, ExchangeTickStep
<1>12. ASSUME NEW banned \in SUBSET Peer, GreyListTick(banned) PROVE NetInv'
  <2>1. ClearGrey(banned) /\ UNCHANGED <<no_address, swarm_vars, relay_vars>>
    BY <1>12 DEF GreyListTick
  <2>2. ListsOK'
    BY <2>1, ListsStep DEF NetInv
  <2>. QED BY <2>1, <2>2, ListsOnly
<1>13. CASE BlackListTick
  <2>1. ClearBlack /\ UNCHANGED <<no_address, swarm_vars, relay_vars>>
    BY <1>13 DEF BlackListTick
  <2>2. ListsOK'
    BY <2>1, ListsStep DEF NetInv
  <2>. QED BY <2>1, <2>2, ListsOnly
<1>14. CASE Churn
  BY <1>14, ChurnStep
<1>15. ASSUME NEW rested \in SUBSET (Peer \ Seed), SeekConnections(rested) PROVE NetInv'
  BY <1>15, SeekStep
<1>16. ASSUME NEW nat \in NatStatus, RelayTick(nat) PROVE NetInv'
  BY <1>16, RelayTickStep
<1>. QED BY <1>1, <1>2, <1>3, <1>4, <1>5, <1>6, <1>7, <1>8, <1>9, <1>10, <1>11, <1>12, <1>13, <1>14,
            <1>15, <1>16 DEF NetNext

-----------------------------------------------------------------------------
(* The theorems.                                                           *)

\* For any set of peers and seeds: an exchange or a circuit is always with a
\* connected peer, whatever closes connections in between (bans, churn, old
\* versions, seeds that have answered), a circuit has a reservation that lasts,
\* and no seed is taken for a relay.
THEOREM NetTypeCorrectness == NetSpec => []NetTypeOK
BY NetInvInit, NetInvStep, NetInvType, PTL DEF NetSpec

\* A reservation runs out only if its renewal was asked for by an earlier run of
\* the relay job: the window of 60 seconds spans two runs, so every reservation
\* is seen in time.
THEOREM RenewalsInTime == NetSpec => ReservationsRenewed
<1>1. NetInv /\ [NetNext]_net_vars =>
        [\A p \in Peer : HasLease(p) /\ ~HasLease(p)' => p \in asked]_net_vars
  <2>. SUFFICES ASSUME NetInv, NetNext, NEW p \in Peer, HasLease(p), ~HasLease(p)' PROVE p \in asked
    OBVIOUS
  <2>1. ASSUME NEW q \in Peer, ReservationReqAccepted(q) PROVE FALSE
    <3>1. lease' = [lease EXCEPT ![q] = LeaseTicks]
      BY <2>1 DEF ReservationReqAccepted
    <3>. QED BY <3>1, PeerNetworkAssumption DEF NetInv, RelaysOK, HasLease
  <2>2. ASSUME NEW nat \in NatStatus, RelayTick(nat) PROVE p \in asked
    <3>1. lease'[p] = lease[p] - 1
      BY <2>2 DEF RelayTick
    <3>2. lease[p] \in 1 .. LeaseTicks
      BY PeerNetworkAssumption DEF NetInv, RelaysOK, HasLease
    <3>3. lease[p] = 1
      BY <3>1, <3>2, PeerNetworkAssumption DEF HasLease
    <3>. QED BY <3>3, PeerNetworkAssumption DEF NetInv, RenewalsAsked, HasLease
  <2>3. CASE UNCHANGED lease
    BY <2>3 DEF HasLease
  <2>4. \/ UNCHANGED lease
        \/ \E q \in Peer : ReservationReqAccepted(q)
        \/ \E nat \in NatStatus : RelayTick(nat)
    BY DEF NetNext, ConnectionEstablished, ConnectionClosed, OutgoingConnectionError,
           handle_peer_identified, Ping, PeerFails, PeerInfoGossip, PeerRequest,
           handle_meta_data_exchange_response, ExchangeEnds, ExchangeFails,
           handle_direct_peer_exchange_response, PeerExchangeTick, GreyListTick, BlackListTick,
           Churn, SeekConnections, relay_vars
  <2>. QED BY <2>1, <2>2, <2>3, <2>4
<1>. QED BY <1>1, NetInvInit, NetInvStep, PTL DEF NetSpec, ReservationsRenewed
=============================================================================
