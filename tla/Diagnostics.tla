------------------------------ MODULE Diagnostics ------------------------------
(***************************************************************************)
(* Diagnostic mode: the main loop of a node that only measures how well it *)
(* reaches its network (main_loop_diagnostic_mode in server/p2p/network.rs)*)
(* and the task that collects what happened to each peer                   *)
(* (server/diagnostics/diagnostics_collector.rs).                          *)
(*                                                                         *)
(* The loop reports events over a lossy broadcast channel and asks the     *)
(* collector for its maps over another one, so an answer may not know of   *)
(* events that were reported before the question.  While it waits for an   *)
(* answer the loop handles nothing else.  Time is counted in ticks of the  *)
(* loop since its last change of state.                                    *)
(***************************************************************************)
EXTENDS Naturals, SequencesExt

CONSTANTS Seed, Other,          \* the configured seed peers; all other peers
          Capacity,             \* of the broadcast channel, 1000 in the code
          CONNECT_INITIAL_WAIT, CONNECT_TIMEOUT, RESPONSE_TIMEOUT, \* in ticks
          EnoughConnected,      \* connected peers that are enough, 10
          EnoughResponses,      \* answers that are enough, 5
          NoInfo,               \* absent from a map
          MaxEvents, MaxNamed   \* bounds: swarm events, peers in one answer

Peer == Seed \cup Other

PeerType == {"SeedPeer", "PrivatePeer", "RelayPeer", "NonSquadPeer", "Unknown"}

PeerInfo == [connected : BOOLEAN, requested : BOOLEAN, responded : BOOLEAN]

ASSUME DiagnosticsAssumption ==
  /\ Seed \cap Other = {} /\ IsFiniteSet(Seed \cup Other)
  /\ Capacity \in Nat \ {0}
  /\ CONNECT_INITIAL_WAIT \in Nat /\ CONNECT_TIMEOUT \in Nat /\ RESPONSE_TIMEOUT \in Nat
  /\ CONNECT_INITIAL_WAIT <= CONNECT_TIMEOUT /\ CONNECT_TIMEOUT <= RESPONSE_TIMEOUT
  /\ EnoughConnected \in Nat \ {0} /\ EnoughResponses \in Nat \ {0}
  /\ NoInfo \notin PeerInfo
  /\ MaxEvents \in Nat /\ MaxNamed \in Nat

VARIABLES
  diagnostic_state, \* of the loop, "Ended" when it has returned
  elapsed,          \* ticks since start
  asking,           \* the map the loop waits for, or "none"
  dialed_seed_peers, dialed_private_peers,
  same_squad,       \* peers of our squad in the peer store
  non_squad,        \* peers of other squads in the peer store
  possible_relays,  \* peers identified as relays
  asked,            \* peers with a peer exchange under way
  channel,          \* reports the collector has not received
  lagged,           \* a report was lost
  info,             \* the five maps of the collector
  collecting,       \* the collector runs
  shutdown,         \* the shutdown signal was triggered
  events            \* swarm events so far

loop_vars == <<diagnostic_state, elapsed, asking, dialed_seed_peers, dialed_private_peers>>
peer_vars == <<same_squad, non_squad, possible_relays, asked>>
vars == <<loop_vars, peer_vars, channel, lagged, info, collecting, shutdown, events>>

NewInfo == [connected |-> FALSE, requested |-> FALSE, responded |-> FALSE]

Init ==
  /\ diagnostic_state = "ConnectToSeedPeers" /\ elapsed = 0 /\ asking = "none"
  /\ dialed_seed_peers = {} /\ dialed_private_peers = {}
  /\ same_squad = {} /\ non_squad = {} /\ possible_relays = {} /\ asked = {}
  /\ channel = <<>> /\ lagged = FALSE
  /\ info = [t \in PeerType |-> [p \in Peer |-> NoInfo]]
  /\ collecting = TRUE /\ shutdown = FALSE /\ events = 0

-----------------------------------------------------------------------------
(* Reports                                                                 *)

Report(kind, p, t) == [kind |-> kind, peer |-> p, type |-> t]

\* A full channel loses its oldest reports; without its receiver it takes none.
Broadcast(reports) ==
  LET all == IF collecting THEN channel \o reports ELSE <<>>
      lost == IF Len(all) > Capacity THEN Len(all) - Capacity ELSE 0
  IN /\ channel' = SubSeq(all, lost + 1, Len(all))
     /\ lagged' = (lagged \/ lost > 0)

\* Mutant: the stores are asked before the list of seeds.
peer_type_seeds_last(p) ==
  CASE p \in same_squad -> IF p \in possible_relays THEN "RelayPeer" ELSE "PrivatePeer"
    [] p \in non_squad \ same_squad -> "NonSquadPeer"
    [] p \in dialed_seed_peers \ (same_squad \cup non_squad) -> "SeedPeer"
    [] OTHER -> "Unknown"

\* Seed peers are known as such from the first tick on.
peer_type(p) ==
  CASE p \in dialed_seed_peers -> "SeedPeer"
    [] p \in same_squad \ dialed_seed_peers ->
         IF p \in possible_relays THEN "RelayPeer" ELSE "PrivatePeer"
    [] p \in non_squad \ (same_squad \cup dialed_seed_peers) -> "NonSquadPeer"
    [] OTHER -> "Unknown"

-----------------------------------------------------------------------------
(* Swarm events, as far as the collector hears of them.                    *)

Idle == diagnostic_state # "Ended" /\ asking = "none"

Event == Idle /\ events < MaxEvents /\ events' = events + 1

Dialing(p) ==
  /\ Event /\ p \in dialed_seed_peers \cup dialed_private_peers
  /\ Broadcast(<<Report("NewPeer", p, peer_type(p))>>)
  /\ UNCHANGED <<loop_vars, peer_vars, info, collecting, shutdown>>

\* A connection, dialed or incoming, starts a peer exchange.
ConnectionEstablished(p) ==
  /\ Event
  /\ Broadcast(<<Report("PeerConnected", p, peer_type(p)), Report("PeerRequest", p, peer_type(p))>>)
  /\ asked' = asked \cup {p}
  /\ UNCHANGED <<loop_vars, same_squad, non_squad, possible_relays, info, collecting, shutdown>>

\* An answer with the peers q of our squad and o of other squads; one that
\* brought peers is followed by another request.
PeerExchangeResponse(p, q, o) ==
  /\ Event /\ p \in asked
  /\ same_squad' = same_squad \cup q
  /\ non_squad' = non_squad \cup o
  /\ UNCHANGED <<loop_vars, possible_relays, info, collecting, shutdown>>
  /\ LET response == <<Report("PeerResponse", p, peer_type(p)')>>
     IN IF q \cup o # {}
        THEN /\ Broadcast(Append(response, Report("PeerRequest", p, peer_type(p)')))
             /\ UNCHANGED asked
        ELSE /\ Broadcast(response)
             /\ asked' = asked \ {p}

\* A peer other than a seed tells that it relays.
Identified(p) ==
  /\ Event /\ p \notin dialed_seed_peers
  /\ possible_relays' = possible_relays \cup {p}
  /\ UNCHANGED <<loop_vars, same_squad, non_squad, asked, channel, lagged, info, collecting, shutdown>>

-----------------------------------------------------------------------------
(* The collector                                                           *)

\* The first map, in the given order, that has the peer.
MapOf(maps, order, p) ==
  LET found == {i \in DOMAIN order : maps[order[i]][p] # NoInfo}
  IN IF found = {} THEN "none" ELSE order[Min(found)]

MoveOrder == <<"Unknown", "PrivatePeer", "SeedPeer", "RelayPeer", "NonSquadPeer">>
LookUpOrder == <<"PrivatePeer", "SeedPeer", "RelayPeer", "NonSquadPeer", "Unknown">>

\* Mutant: the peer is copied to its new map.
hydrate_copying(p, t) ==
  LET from == MapOf(info, MoveOrder, p)
  IN IF from \in {"none", t} THEN info ELSE [info EXCEPT ![t][p] = info[from][p]]

\* Mutant: the peer starts anew in its new map.
hydrate_afresh(p, t) ==
  LET from == MapOf(info, MoveOrder, p)
  IN IF from \in {"none", t} THEN info
     ELSE [info EXCEPT ![from][p] = NoInfo, ![t][p] = NewInfo]

\* The type of a peer may have changed: its entry moves to the right map.
hydrate(p, t) ==
  LET from == MapOf(info, MoveOrder, p)
  IN IF from \in {"none", t} THEN info
     ELSE [info EXCEPT ![from][p] = NoInfo, ![t][p] = info[from][p]]

\* Mutant: only an entry that is new can be connected.
Updated_new_only(d, old) ==
  CASE d.kind = "NewPeer" -> IF old = NoInfo THEN NewInfo ELSE old
    [] d.kind = "PeerConnected" -> IF old = NoInfo THEN [NewInfo EXCEPT !.connected = TRUE] ELSE old
    [] d.kind = "PeerRequest" -> IF old = NoInfo THEN NoInfo ELSE [old EXCEPT !.requested = TRUE]
    [] d.kind = "PeerResponse" -> IF old = NoInfo THEN NoInfo ELSE [old EXCEPT !.responded = @ \/ old.requested]

\* An entry after a report.  Requests and answers of unknown peers are dropped,
\* and there is no response time without a request.
Updated(d, old) ==
  CASE d.kind = "NewPeer" -> IF old = NoInfo THEN NewInfo ELSE old
    [] d.kind = "PeerConnected" -> [(IF old = NoInfo THEN NewInfo ELSE old) EXCEPT !.connected = TRUE]
    [] d.kind = "PeerRequest" -> IF old = NoInfo THEN NoInfo ELSE [old EXCEPT !.requested = TRUE]
    [] d.kind = "PeerResponse" -> IF old = NoInfo THEN NoInfo ELSE [old EXCEPT !.responded = @ \/ old.requested]

handle_diagnostic ==
  /\ collecting /\ channel # <<>>
  /\ LET d == Head(channel)
         maps == hydrate(d.peer, d.type)
         at == MapOf(maps, LookUpOrder, d.peer)
     IN IF at = "none" THEN info' = [maps EXCEPT ![d.type][d.peer] = Updated(d, NoInfo)]
                       ELSE info' = [maps EXCEPT ![at][d.peer] = Updated(d, @)]
  /\ channel' = Tail(channel)
  /\ UNCHANGED <<loop_vars, peer_vars, lagged, collecting, shutdown, events>>

CollectorStops ==
  /\ shutdown /\ collecting
  /\ collecting' = FALSE
  /\ channel' = <<>>
  /\ UNCHANGED <<loop_vars, peer_vars, lagged, info, shutdown, events>>

-----------------------------------------------------------------------------
(* The loop: a tick dials and asks, the answer decides.                    *)

success_next_state(s) ==
  CASE s = "ConnectToSeedPeers" -> "WaitForSeedPeersDownload"
    [] s = "WaitForSeedPeersDownload" -> "ConnectToPrivatePeers"
    [] s = "ConnectToPrivatePeers" -> "WaitForPrivatePeersDownload"
    [] s = "WaitForPrivatePeersDownload" -> "ConnectToRelayPeers"
    [] s = "ConnectToRelayPeers" -> "WaitForRelayPeersDownload"
    [] s = "WaitForRelayPeersDownload" -> "Done"

\* Mutant: no private peers, so try them again.
failed_next_state_again(s) ==
  CASE s \in {"ConnectToPrivatePeers", "WaitForPrivatePeersDownload"} -> "ConnectToPrivatePeers"
    [] OTHER -> "Done"

failed_next_state(s) ==
  CASE s \in {"ConnectToPrivatePeers", "WaitForPrivatePeersDownload"} -> "ConnectToRelayPeers"
    [] OTHER -> "Done"

\* The map a state asks for first.
Wanted(s) ==
  CASE s \in {"ConnectToSeedPeers", "WaitForSeedPeersDownload", "Done"} -> "SeedPeer"
    [] s \in {"ConnectToPrivatePeers", "WaitForPrivatePeersDownload"} -> "PrivatePeer"
    [] s \in {"ConnectToRelayPeers", "WaitForRelayPeersDownload"} -> "RelayPeer"

Longer(n) == IF n > RESPONSE_TIMEOUT THEN n ELSE n + 1

\* get_same_squad_peer_records: relays are the peers with a reservation, and no
\* reservation is asked for in diagnostic mode, so every peer counts as private
\* and the relay states have nobody to dial.
PeersToDial == same_squad \ (dialed_seed_peers \cup dialed_private_peers)

\* The dials that do not fail at once are reported.
Dial(peers, t) == Broadcast(SetToSeq({Report("NewPeer", p, t) : p \in peers}))

TickSeeds ==
  /\ IF dialed_seed_peers = {}
     THEN /\ dialed_seed_peers' = Seed
          /\ \E ok \in SUBSET Seed : Dial(ok, "SeedPeer")
     ELSE UNCHANGED <<dialed_seed_peers, channel, lagged>>
  /\ UNCHANGED dialed_private_peers

\* A private peer whose dial fails is tried again at the next tick.
TickPrivate ==
  /\ \E ok \in SUBSET PeersToDial :
       /\ dialed_private_peers' = dialed_private_peers \cup ok
       /\ Dial(ok, "PrivatePeer")
  /\ UNCHANGED dialed_seed_peers

Tick ==
  /\ Idle
  /\ asking' = Wanted(diagnostic_state)
  /\ elapsed' = Longer(elapsed)
  /\ CASE diagnostic_state = "ConnectToSeedPeers" -> TickSeeds
       [] diagnostic_state = "ConnectToPrivatePeers" -> TickPrivate
       [] OTHER -> UNCHANGED <<dialed_seed_peers, dialed_private_peers, channel, lagged>>
  /\ UNCHANGED <<diagnostic_state, peer_vars, info, collecting, shutdown, events>>

\* The configured seed peers cannot be parsed.
ParseFails ==
  /\ Idle /\ diagnostic_state = "ConnectToSeedPeers" /\ dialed_seed_peers = {}
  /\ diagnostic_state' = "Ended"
  /\ UNCHANGED <<elapsed, asking, dialed_seed_peers, dialed_private_peers, peer_vars, channel,
                 lagged, info, collecting, shutdown, events>>

Infos(t) == {p \in Peer : info[t][p] # NoInfo}
Connected(t) == {p \in Infos(t) : info[t][p].connected}
Responded(t) == {p \in Infos(t) : info[t][p].responded}

Succeed == diagnostic_state' = success_next_state(diagnostic_state) /\ elapsed' = 0
Fail    == diagnostic_state' = failed_next_state(diagnostic_state) /\ elapsed' = 0
Stay    == UNCHANGED <<diagnostic_state, elapsed>>

\* The collector answers one of the Connect states.
ConnectedAnswer(enough) ==
  IF enough THEN Succeed
  ELSE IF elapsed > CONNECT_TIMEOUT THEN (IF Connected(asking) = {} THEN Fail ELSE Succeed)
  ELSE Stay

\* The collector, or nobody, answers one of the Wait states.
ResponsesAnswer(enough, responded) ==
  IF enough THEN Succeed
  ELSE IF elapsed > RESPONSE_TIMEOUT THEN (IF responded = {} THEN Fail ELSE Succeed)
  ELSE Stay

\* If the collector has stopped, a Connect state learns nothing, and the Wait
\* states see no peers at all, which for the seeds means all of them.
AnswerQuestion ==
  /\ diagnostic_state # "Done"
  /\ asking # "none"
  /\ LET responded == IF collecting THEN Responded(asking) ELSE {}
         infos == IF collecting THEN Infos(asking) ELSE {}
     IN CASE diagnostic_state = "ConnectToSeedPeers" /\ collecting ->
               ConnectedAnswer(elapsed > CONNECT_INITIAL_WAIT /\ Connected(asking) # {})
          [] diagnostic_state \in {"ConnectToPrivatePeers", "ConnectToRelayPeers"} /\ collecting ->
               ConnectedAnswer(Cardinality(Connected(asking)) >= EnoughConnected)
          [] diagnostic_state = "WaitForSeedPeersDownload" ->
               ResponsesAnswer(responded = infos, responded)
          [] diagnostic_state \in {"WaitForPrivatePeersDownload", "WaitForRelayPeersDownload"} ->
               ResponsesAnswer(Cardinality(responded) >= EnoughResponses, responded)
          [] OTHER -> Stay
  /\ asking' = "none"
  /\ UNCHANGED <<dialed_seed_peers, dialed_private_peers, peer_vars, channel, lagged, info,
                 collecting, shutdown, events>>

\* The three maps of the report are asked for one after the other, and a map
\* the collector does not answer with is empty.  After the last the file is
\* written and the node told to shut down.
AnswerReport ==
  /\ diagnostic_state = "Done"
  /\ asking # "none"
  /\ asking' = CASE asking = "SeedPeer" -> "PrivatePeer"
                 [] asking = "PrivatePeer" -> "RelayPeer"
                 [] OTHER -> "none"
  /\ shutdown' = (shutdown \/ asking = "RelayPeer")
  /\ UNCHANGED <<diagnostic_state, elapsed, dialed_seed_peers, dialed_private_peers, peer_vars,
                 channel, lagged, info, collecting, events>>

\* The user ends the program.
Interrupt ==
  /\ ~shutdown
  /\ shutdown' = TRUE
  /\ UNCHANGED <<loop_vars, peer_vars, channel, lagged, info, collecting, events>>

\* The loop sees the signal.  Its select! is not biased: ticks and events that
\* are ready may come first, another writing of the report included.
ShutDown ==
  /\ Idle /\ shutdown
  /\ diagnostic_state' = "Ended"
  /\ UNCHANGED <<elapsed, asking, dialed_seed_peers, dialed_private_peers, peer_vars, channel,
                 lagged, info, collecting, shutdown, events>>

Next ==
  \/ \E p \in Peer : Dialing(p) \/ ConnectionEstablished(p)
  \/ \E p \in Other : Identified(p)
  \/ \E p \in Peer, q \in SUBSET Peer, o \in SUBSET Other :
       Cardinality(q \cup o) <= MaxNamed /\ PeerExchangeResponse(p, q, o)
  \/ handle_diagnostic \/ CollectorStops
  \/ Tick \/ ParseFails \/ AnswerQuestion \/ AnswerReport
  \/ Interrupt \/ ShutDown

\* The collector and the loop are tasks that run when they can; the loop's
\* timer and its shutdown signal are chosen now and then among what is ready.
Fairness ==
  /\ WF_vars(Tick)
  /\ WF_vars(AnswerQuestion)
  /\ WF_vars(AnswerReport)
  /\ SF_vars(ShutDown)

Spec == Init /\ [][Next]_vars /\ Fairness

-----------------------------------------------------------------------------
(* Properties                                                              *)

State == {"ConnectToSeedPeers", "WaitForSeedPeersDownload", "ConnectToPrivatePeers",
          "WaitForPrivatePeersDownload", "ConnectToRelayPeers", "WaitForRelayPeersDownload",
          "Done", "Ended"}

\* The state is well formed, and the loop asks only while it runs.
TypeOK ==
  /\ diagnostic_state \in State /\ elapsed \in 0 .. RESPONSE_TIMEOUT + 1
  /\ asking \in {"none", "SeedPeer", "PrivatePeer", "RelayPeer"}
  /\ asking # "none" => diagnostic_state # "Ended"
  /\ dialed_seed_peers \in {{}, Seed} /\ dialed_private_peers \subseteq Peer
  /\ same_squad \subseteq Peer /\ non_squad \subseteq Other
  /\ possible_relays \subseteq Peer /\ asked \subseteq Peer
  /\ Len(channel) <= Capacity
  /\ info \in [PeerType -> [Peer -> PeerInfo \cup {NoInfo}]]
  /\ lagged \in BOOLEAN /\ collecting \in BOOLEAN /\ shutdown \in BOOLEAN
  /\ events \in 0 .. MaxEvents

\* However often a peer's type changes while reports about it are on their way,
\* the collector keeps it in one category only, so no count of a category
\* includes a peer of another.
OneCategory ==
  \A p \in Peer, t, u \in PeerType : p \in Infos(t) /\ p \in Infos(u) => t = u

Facts(p) ==
  {f \in {"connected", "requested", "responded"} :
     \E t \in PeerType : info[t][p] # NoInfo /\ info[t][p][f]}

\* A peer that changes category takes along what is known of it: that it
\* connected, was asked or answered is never forgotten.
FactsKept == [][\A p \in Peer : Facts(p) \subseteq Facts(p)']_vars

\* Unless the channel lost reports, a peer that is counted as having answered is
\* counted as connected too, whatever its categories were in between.
ResponsesConnected ==
  ~lagged => \A t \in PeerType : Responded(t) \subseteq Connected(t)

\* The loop turns to the peers of the squad only after a seed peer answered: a
\* seed that other peers name as a member of our squad stays a seed, so the
\* wait for the seeds never ends for want of seeds to wait for.
SeedsAnswered ==
  /\ ~shutdown
  /\ diagnostic_state \in {"ConnectToPrivatePeers", "WaitForPrivatePeersDownload",
                            "ConnectToRelayPeers", "WaitForRelayPeersDownload"}
  => Responded("SeedPeer") # {}

\* Whatever peers do or fail to do, the measurement ends: no state waits for
\* ever, and the collector that stops with the node cannot hold the loop.
DiagnosticEnds == <>(diagnostic_state = "Ended")
=============================================================================
