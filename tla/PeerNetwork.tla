------------------------------ MODULE PeerNetwork ------------------------------
(***************************************************************************)
(* How a node that is not a seed itself finds and keeps its peers          *)
(* (server/p2p/network.rs, with server/p2p/relay_store.rs): connections    *)
(* and dials, the direct peer exchange that goes on until a peer has       *)
(* nothing new to tell, the seeking and churning of connections, and the   *)
(* reservations with relays of a node behind a NAT.  The peer store is the *)
(* abstract one of PeerLists.                                              *)
(*                                                                         *)
(* An answer of the exchange names one peer at most (the code's            *)
(* NUM_PEERS_INITIAL_SYNC is 100).  The clock counts runs of the relay job.*)
(***************************************************************************)
EXTENDS PeerLists, Integers, FiniteSetsExt

CONSTANTS Self,             \* our own peer id
          Nobody,           \* an answer that names no peer
          OtherSquad,       \* peers that may say they are of another squad
          MAX_OUTBOUND_SQUAD_PEERS, MAX_OUTBOUND_NON_SQUAD_PEERS,
          NoLease,          \* no reservation was ever confirmed
          LeaseTicks,       \* runs of the relay job a reservation lasts
          RenewTicks,       \* reservations this close to their end are renewed
          RelaysAtOnce,     \* addresses of relays tried in one run of the relay job, 3
          NUM_PEERS_TO_PEER_INFO_EXCHANGE,
          MaxExchanges      \* bound: exchanges under way

\* The relay job runs every 30 seconds and renews what ends within 60.
ASSUME PeerNetworkAssumption ==
  /\ Seed \subseteq Peer /\ OtherSquad \subseteq Peer /\ IsFiniteSet(Peer)
  /\ Self \notin Peer /\ Nobody \notin Peer \cup {Self}
  /\ MAX_OUTBOUND_SQUAD_PEERS \in Nat \ (0 .. 2) /\ MAX_OUTBOUND_NON_SQUAD_PEERS \in Nat
  /\ NoLease \notin Nat /\ RelaysAtOnce \in Nat
  /\ NUM_PEERS_TO_PEER_INFO_EXCHANGE \in Nat
  /\ LeaseTicks \in Nat /\ RenewTicks \in 2 .. LeaseTicks
  /\ MaxExchanges \in Nat \ {0}

VARIABLES
  no_address,        \* records without a public address: <<p, TRUE>> on the lists of our
                     \* squad, <<p, FALSE>> on non_squad; seeds are left out
  connected,         \* peers the swarm is connected to
  dialing,           \* dials under way
  dialed_seed_peers, \* seeds to leave once they answered
  exchanges,         \* direct peer exchanges under way, with the known_peer_ids sent
  possible_relays,
  lease,             \* expires_at of the reservations, 0 when passed
  asked,             \* reservations asked for and not confirmed
  circuits           \* relays through which we have an external address

peer_vars == <<list_vars, no_address>>
swarm_vars == <<connected, dialing, dialed_seed_peers, exchanges>>
relay_vars == <<possible_relays, lease, asked, circuits>>
net_vars == <<peer_vars, swarm_vars, relay_vars>>

\* start: the seeds are dialed.
NetInit ==
  /\ InitLists /\ no_address = {}
  /\ connected = {} /\ dialing = Seed /\ dialed_seed_peers = {} /\ exchanges = {}
  /\ possible_relays = {} /\ lease = [p \in Peer |-> NoLease]
  /\ asked = {} /\ circuits = {}

-----------------------------------------------------------------------------
(* Connections                                                             *)

\* A circuit ends with the connection to its relay.
HangUp(peers) ==
  /\ connected' = connected \ peers
  /\ circuits' = circuits \ peers

\* Exchanges fail with their connection, which is only logged.
Surviving(current, peers) == {e \in current : e.peer \notin peers}

Disconnect(peers) ==
  /\ HangUp(peers)
  /\ exchanges' = Surviving(exchanges, peers)

get_known_peers == white \cup grey \cup black \cup non_squad

Exchange(p, id) == [peer |-> p, known |-> get_known_peers, id |-> id]

\* The request that follows e, told apart by its id from an equal one.
FollowUp(e) == Exchange(e.peer, IF e = Exchange(e.peer, 0) THEN 1 ELSE 0)

\* initiate_direct_peer_exchange
Initiate(peers) ==
  /\ exchanges' = exchanges \cup {Exchange(p, 0) : p \in peers}
  /\ Cardinality(exchanges') <= MaxExchanges

ConnectionEstablished(p, dialer) ==
  /\ dialing' = dialing \ {p}
  /\ IF p \in black
     THEN Disconnect({p}) /\ UNCHANGED dialed_seed_peers
     ELSE /\ connected' = connected \cup {p}
          /\ dialed_seed_peers' = IF dialer /\ p \in Seed THEN dialed_seed_peers \cup {p}
                                                          ELSE dialed_seed_peers
          /\ Initiate({p})
          /\ UNCHANGED circuits
  /\ UNCHANGED <<peer_vars, possible_relays, lease, asked>>

\* dialed_seed_peers keeps the peer.
ConnectionClosed(p) ==
  /\ p \in connected
  /\ Disconnect({p})
  /\ UNCHANGED <<peer_vars, dialing, dialed_seed_peers, possible_relays, lease, asked>>

\* Transport errors are ignored.
OutgoingConnectionError(p, transport) ==
  /\ p \in dialing
  /\ dialing' = dialing \ {p}
  /\ IF transport \/ p \notin white THEN UNCHANGED peer_vars
     ELSE Fail(p) /\ UNCHANGED no_address
  /\ UNCHANGED <<connected, dialed_seed_peers, exchanges, relay_vars>>

\* Mutant: seeds are taken for relays.
handle_peer_identified_seeds(p, supported, relay) ==
  /\ p \in connected
  /\ IF supported THEN UNCHANGED <<connected, circuits, exchanges>> ELSE Disconnect({p})
  /\ possible_relays' = IF relay THEN possible_relays \cup {p} ELSE possible_relays
  /\ UNCHANGED <<peer_vars, dialing, dialed_seed_peers, lease, asked>>

\* A peer without the catch-up protocol is disconnected, and remembered as a
\* relay all the same.
handle_peer_identified(p, supported, relay) ==
  /\ p \in connected
  /\ IF supported THEN UNCHANGED <<connected, circuits, exchanges>> ELSE Disconnect({p})
  /\ possible_relays' = IF relay /\ p \notin Seed THEN possible_relays \cup {p}
                                                  ELSE possible_relays
  /\ UNCHANGED <<peer_vars, dialing, dialed_seed_peers, lease, asked>>

Ping(p) ==
  /\ p \in connected
  /\ Restore(p)
  /\ UNCHANGED <<no_address, swarm_vars, relay_vars>>

\* A block gossiped by p is invalid, or a sync with it failed or brought
\* invalid blocks.
PeerFails(p) ==
  /\ Fail(p) \/ Ban(p)
  /\ UNCHANGED <<no_address, swarm_vars, relay_vars>>

-----------------------------------------------------------------------------
(* Announcements.  Those of an older protocol version are dropped.         *)

\* Mutant: whatever peer was named counts as added.
Added_any(p, ours) == TRUE

\* The result of add_peer.
Added(p, ours) == p # Self /\ ~(ours /\ p \in black \ Seed)

\* Whether the announcement becomes the record: one that is greylisted or banned
\* keeps the addresses it had.
Replaces(p, ours) == p \notin Seed /\ ~(ours /\ p \in grey \cup black)

\* add_peer, of an announcement with a public address or without one.
AddPeer(p, ours, address) ==
  IF p = Self THEN UNCHANGED peer_vars
  ELSE /\ Add(p, ours)
       /\ no_address' = CASE ~Replaces(p, ours) -> no_address
                          [] address -> no_address \ {<<p, ours>>}
                          [] OTHER -> no_address \cup {<<p, ours>>}

PeerInfoGossip(p, ours, address) ==
  /\ AddPeer(p, ours, address)
  /\ UNCHANGED <<swarm_vars, relay_vars>>

\* handle_direct_peer_exchange_request and handle_meta_data_exchange_request; the
\* answer to the first is Shared below, seen from the other side.
PeerRequest(p, ours, address) ==
  /\ p \in connected
  /\ AddPeer(p, ours, address)
  /\ UNCHANGED <<swarm_vars, relay_vars>>

\* A peer of an older version is disconnected.  What follows for a peer with
\* more proof of work is the subject of CatchUpSync.
handle_meta_data_exchange_response(p, ours, address, outdated) ==
  /\ p \in connected
  /\ IF outdated THEN Disconnect({p}) /\ UNCHANGED peer_vars
                 ELSE AddPeer(p, ours, address) /\ UNCHANGED <<connected, circuits, exchanges>>
  /\ UNCHANGED <<dialing, dialed_seed_peers, possible_relays, lease, asked>>

\* The squads a peer may tell: ours or not.
Squads(p) == IF p \in OtherSquad THEN BOOLEAN ELSE {TRUE}

\* best_peers_to_share of the peer that answers: a peer that the request does not
\* name.  It has a public address and was pinged there, which any peer may have
\* been; it may well be ourselves.
Shared(e) == ((Peer \cup {Self}) \ e.known) \cup {Nobody}

\* An answer that brought a peer is followed by another request; a seed we dialed
\* is left even so.
handle_direct_peer_exchange_response(e, q, ours, outdated) ==
  /\ IF outdated
     THEN /\ Disconnect({e.peer})
          /\ UNCHANGED <<peer_vars, dialed_seed_peers>>
     ELSE /\ IF q = Nobody THEN UNCHANGED peer_vars ELSE AddPeer(q, ours, TRUE)
          /\ LET follow_up == IF q # Nobody /\ Added(q, ours) THEN {FollowUp(e)'} ELSE {}
                 left == {e.peer} \cap dialed_seed_peers
             IN /\ exchanges' = Surviving((exchanges \ {e}) \cup follow_up, left)
                /\ HangUp(left)
          /\ dialed_seed_peers' = dialed_seed_peers \ {e.peer}
  /\ UNCHANGED <<dialing, possible_relays, lease, asked>>

\* OutboundFailure of an exchange, or an error as its answer.
ExchangeFails(e) ==
  /\ exchanges' = exchanges \ {e}
  /\ UNCHANGED <<peer_vars, connected, dialing, dialed_seed_peers, relay_vars>>

\* Some exchange under way ends.
ExchangeEnds ==
  \E e \in exchanges :
    \/ \E q \in Shared(e) : \E ours \in Squads(q) :
         handle_direct_peer_exchange_response(e, q, ours, FALSE)
    \/ handle_direct_peer_exchange_response(e, Nobody, TRUE, TRUE)
    \/ ExchangeFails(e)

-----------------------------------------------------------------------------
(* The timers of the main loop                                             *)

\* As many as allowed of these peers, after a shuffle: any of them.
Some(limit, peers) ==
  LET n == Cardinality(peers) IN kSubset(IF n < limit THEN n ELSE limit, peers)

PeerExchangeTick ==
  /\ \E peers \in Some(NUM_PEERS_TO_PEER_INFO_EXCHANGE, connected) : Initiate(peers)
  /\ UNCHANGED <<peer_vars, connected, dialing, dialed_seed_peers, relay_vars>>

GreyListTick(banned) ==
  /\ ClearGrey(banned)
  /\ UNCHANGED <<no_address, swarm_vars, relay_vars>>

BlackListTick ==
  /\ ClearBlack
  /\ UNCHANGED <<no_address, swarm_vars, relay_vars>>

SquadConnected == connected \cap (white \cup grey)

\* Squad peers to disconnect: two at a time while more than this are left.
Trimmed(n) ==
  LET over == n - (MAX_OUTBOUND_SQUAD_PEERS - 2)
  IN IF over > 0 THEN 2 * ((over + 1) \div 2) ELSE 0

HasLease(p) == lease[p] # NoLease /\ lease[p] > 0

\* Of the others all but the first and the relays are disconnected.
Churn ==
  LET others == connected \ SquadConnected
  IN /\ \E worst \in kSubset(Trimmed(Cardinality(SquadConnected)), SquadConnected),
           first \in Some(1, others) :
          Disconnect(worst \cup {p \in others \ first : ~HasLease(p)})
     /\ UNCHANGED <<peer_vars, dialing, dialed_seed_peers, possible_relays, lease, asked>>

\* The most that are allowed of the peers we are not connected to, without the seeds
\* and the peers whose record has no public address.
ToDial(peers, ours, limit) ==
  Some(limit, {p \in peers \ (connected \cup Seed) : <<p, ours>> \notin no_address})

\* rested: the peers not dialed in the last two minutes.
SeekConnections(rested) ==
  LET squad == connected \cap KnownSquad
      others == (connected \cap non_squad) \ squad
      free == MAX_OUTBOUND_SQUAD_PEERS - Cardinality(squad)
      squad_limit == IF free > 0 THEN free + 1 ELSE 0
      other_limit == IF Cardinality(others) < MAX_OUTBOUND_NON_SQUAD_PEERS
                     THEN MAX_OUTBOUND_NON_SQUAD_PEERS ELSE 0
  IN /\ \E s \in ToDial(white \cap rested, TRUE, squad_limit),
           o \in ToDial(non_squad \cap rested, FALSE, other_limit) :
          dialing' = dialing \cup s \cup o
     /\ UNCHANGED <<peer_vars, connected, dialed_seed_peers, exchanges, relay_vars>>

-----------------------------------------------------------------------------
(* Relays                                                                  *)

\* What autonat said last may change between any two runs of the relay job.
NatStatus == {"Private", "Public"}

\* Mutant: a reservation is renewed once it has ended.
Expiring_ended(ticks) == ticks = 0

\* get_expiring_reservations, the ones long ended included.
Expiring(ticks) == ticks < RenewTicks

\* The relays of the first few addresses, of which a relay may have several.
FirstRelays ==
  {r \in SUBSET possible_relays : /\ Cardinality(r) <= RelaysAtOnce
                                  /\ r = {} <=> possible_relays = {} \/ RelaysAtOnce = 0}

\* attempt_relay_reservation of all of these.
AskForReservations(relays) == asked' = asked \cup relays

\* Time passes and the relay job runs.
RelayTick(nat) ==
  /\ lease' = [p \in Peer |-> IF HasLease(p) THEN lease[p] - 1 ELSE lease[p]]
  /\ circuits' = {p \in circuits : lease'[p] > 0}
  /\ LET renew == {p \in Peer : lease'[p] # NoLease /\ Expiring(lease'[p])}
     IN IF circuits' = {} /\ nat = "Private"
        THEN \E r \in FirstRelays : AskForReservations(renew \cup r)
        ELSE AskForReservations(renew)
  /\ UNCHANGED <<peer_vars, swarm_vars, possible_relays>>

\* confirm_reservation; the relay sets a limit.
ReservationReqAccepted(p) ==
  /\ p \in asked \cap connected
  /\ asked' = asked \ {p}
  /\ lease' = [lease EXCEPT ![p] = LeaseTicks]
  /\ circuits' = circuits \cup {p}
  /\ UNCHANGED <<peer_vars, swarm_vars, possible_relays>>

-----------------------------------------------------------------------------

\* Who dialed matters only for seeds; addresses, and whether it relays, only for the
\* others.
Dialers(p) == IF p \in Seed THEN BOOLEAN ELSE {TRUE}
Addresses(p) == IF p \in Seed THEN {TRUE} ELSE BOOLEAN
Relays(p) == IF p \in Seed THEN {TRUE} ELSE BOOLEAN

NetNext ==
  \/ \E p \in Peer :
       \/ \E dialer \in Dialers(p) : ConnectionEstablished(p, dialer)
       \/ ConnectionClosed(p)
       \/ \E transport \in BOOLEAN : OutgoingConnectionError(p, transport)
       \/ \E supported \in BOOLEAN, relay \in Relays(p) : handle_peer_identified(p, supported, relay)
       \/ Ping(p)
       \/ PeerFails(p)
       \/ \E ours \in Squads(p), address \in Addresses(p) :
            \/ PeerInfoGossip(p, ours, address)
            \/ PeerRequest(p, ours, address)
            \/ handle_meta_data_exchange_response(p, ours, address, FALSE)
       \/ handle_meta_data_exchange_response(p, TRUE, TRUE, TRUE)
       \/ ReservationReqAccepted(p)
  \/ ExchangeEnds
  \/ PeerExchangeTick
  \/ \E banned \in SUBSET Peer : GreyListTick(banned)
  \/ BlackListTick
  \/ Churn
  \/ \E rested \in SUBSET (Peer \ Seed) : SeekConnections(rested)
  \/ \E nat \in NatStatus : RelayTick(nat)

\* Requests are answered or fail, and the timers go off again and again, also
\* when the last dial of every peer is long ago.
NetFairness ==
  /\ WF_net_vars(ExchangeEnds)
  /\ WF_net_vars(\E banned \in SUBSET Peer : GreyListTick(banned))
  /\ WF_net_vars(BlackListTick)
  /\ WF_net_vars(SeekConnections(Peer \ Seed))

NetSpec == NetInit /\ [][NetNext]_net_vars /\ NetFairness

-----------------------------------------------------------------------------
(* Properties                                                              *)

\* The state is well formed: we only ever list, leave or reserve with peers, a
\* list of known peers is never sent beyond MaxExchanges, and circuits are with
\* connected relays whose reservation lasts.
NetTypeOK ==
  /\ get_known_peers \subseteq Peer /\ no_address \subseteq (Peer \ Seed) \X BOOLEAN
  /\ connected \subseteq Peer /\ dialing \subseteq Peer /\ dialed_seed_peers \subseteq Seed
  /\ exchanges \subseteq [peer : connected, known : SUBSET Peer, id : {0, 1}]
  /\ Cardinality(exchanges) <= MaxExchanges
  /\ possible_relays \subseteq Peer \ Seed /\ asked \subseteq Peer
  /\ lease \in [Peer -> 0 .. LeaseTicks \cup {NoLease}]
  /\ circuits \subseteq {p \in connected : HasLease(p)}

\* An exchange that does not follow from another one (a connection, the exchange
\* timer), or the greylist timer, after which the node knows less.
AsksAnew ==
  \/ Cardinality(exchanges') > Cardinality(exchanges)
  \/ ~(get_known_peers \subseteq get_known_peers')

\* "Keep going until we have all the peers" comes to an end: unless new
\* connections and timers ask anew for ever, the requests that follow from
\* answers stop, although the other side names us to ourselves, names peers that
\* were learned elsewhere meanwhile, or names peers we banned.
ExchangesSettle == []<><<AsksAnew>>_net_vars \/ []<>(exchanges = {})

\* No list is a dead end: a peer of the squad that is not a seed is connected or
\* dialed again and again, whatever lists it goes through, unless it keeps failing
\* or its record has no public address: such a peer is only listed, and so is one
\* that has an address by now but was greylisted or banned before it told.  (The
\* instances leave room for it: a node with enough squad connections dials nobody.)
KnownPeersDialed ==
  \A p \in Peer \ Seed :
    \/ []<><<p \in white \ white'>>_net_vars
    \/ []<>(p \in KnownSquad /\ <<p, TRUE>> \notin no_address => p \in connected \cup dialing)

\* A reservation runs out only if a renewal was asked for by an earlier run of
\* the relay job and the relay has not confirmed it yet.
ReservationsRenewed ==
  [][\A p \in Peer : HasLease(p) /\ ~HasLease(p)' => p \in asked]_net_vars
=============================================================================
