-------------------------- MODULE DiagnosticsProofs --------------------------
(***************************************************************************)
(* Proofs about Diagnostics, for any peers, seeds, time limits and channel *)
(* capacity: what the collector says of a peer is consistent although the  *)
(* peer's type changes while reports about it are on their way, and the    *)
(* loop turns to the squad only after a seed has answered.                 *)
(***************************************************************************)
EXTENDS Diagnostics, SequenceTheorems, FiniteSetTheorems, TLAPS

Kind == {"NewPeer", "PeerConnected", "PeerRequest", "PeerResponse"}
Reports == [kind : Kind, peer : Peer, type : PeerType]
Maps == [PeerType -> [Peer -> PeerInfo \cup {NoInfo}]]

-----------------------------------------------------------------------------
(* What a report does to the maps.                                         *)

\* A map that has the peer is found, whatever the order of the search.
LEMMA MapOfFound ==
  ASSUME NEW maps, NEW p, NEW order, order \in {MoveOrder, LookUpOrder}
  PROVE  \/ MapOf(maps, order, p) = "none" /\ \A t \in PeerType : maps[t][p] = NoInfo
         \/ MapOf(maps, order, p) \in PeerType /\ maps[MapOf(maps, order, p)][p] # NoInfo
<1>1. /\ DOMAIN order = 1 .. 5 /\ \A i \in 1 .. 5 : order[i] \in PeerType
      /\ \A t \in PeerType : \E i \in 1 .. 5 : order[i] = t
  <2>1. CASE order = MoveOrder
    BY <2>1 DEF MoveOrder, PeerType
  <2>2. CASE order = LookUpOrder
    BY <2>2 DEF LookUpOrder, PeerType
  <2>. QED BY <2>1, <2>2
<1>. DEFINE found == {i \in DOMAIN order : maps[order[i]][p] # NoInfo}
<1>2. MapOf(maps, order, p) = IF found = {} THEN "none" ELSE order[Min(found)]
  BY DEF MapOf
<1>3. found \subseteq 1 .. 5
  BY <1>1
<1>4. CASE found = {}
  BY <1>1, <1>2, <1>4
<1>5. CASE found # {}
  <2>1. Min(found) \in found
    <3>. HIDE DEF found
    <3>1. \E x \in found : \A y \in found : x <= y
      <4>1. CASE 1 \in found
        BY <1>3, <4>1
      <4>2. CASE 1 \notin found /\ 2 \in found
        BY <1>3, <4>2
      <4>3. CASE 1 \notin found /\ 2 \notin found /\ 3 \in found
        BY <1>3, <4>3
      <4>4. CASE 1 \notin found /\ 2 \notin found /\ 3 \notin found /\ 4 \in found
        BY <1>3, <4>4
      <4>5. CASE 1 \notin found /\ 2 \notin found /\ 3 \notin found /\ 4 \notin found
        <5>1. \A x \in found : x = 5
          BY <1>3, <4>5
        <5>. QED BY <1>5, <5>1
      <4>. QED BY <4>1, <4>2, <4>3, <4>4, <4>5
    <3>. QED BY <3>1 DEF Min
  <2>. QED BY <1>1, <1>2, <1>5, <2>1
<1>. QED BY <1>4, <1>5

\* The entry of a peer in the maps: the only one there is, or none.
IsEntry(p, e) ==
  \/ e = NoInfo /\ \A t \in PeerType : info[t][p] = NoInfo
  \/ e # NoInfo /\ \E t \in PeerType : info[t][p] = e /\ \A u \in PeerType \ {t} : info[u][p] = NoInfo

LEMMA EntryExists ==
  ASSUME info \in Maps, OneCategory, NEW p \in Peer
  PROVE  \E e \in PeerInfo \cup {NoInfo} : IsEntry(p, e)
<1>1. CASE \A t \in PeerType : info[t][p] = NoInfo
  BY <1>1 DEF IsEntry
<1>2. CASE \E t \in PeerType : info[t][p] # NoInfo
  <2>1. PICK t \in PeerType : info[t][p] # NoInfo
    BY <1>2
  <2>2. info[t][p] \in PeerInfo \cup {NoInfo}
    BY DEF Maps
  <2>3. \A u \in PeerType \ {t} : info[u][p] = NoInfo
    BY <2>1 DEF OneCategory, Infos
  <2>. QED BY <2>1, <2>2, <2>3 DEF IsEntry
<1>. QED BY <1>1, <1>2

\* An entry only gains facts, a response follows a request, and a request is
\* noted of a peer the collector knows.
LEMMA UpdatedFacts ==
  ASSUME NEW d \in Reports, NEW e \in PeerInfo \cup {NoInfo}
  PROVE  LET u == Updated(d, e)
         IN /\ u \in PeerInfo \cup {NoInfo}
            /\ e # NoInfo => /\ u # NoInfo
                             /\ e.connected => u.connected
                             /\ e.requested => u.requested
                             /\ e.responded => u.responded
            /\ d.kind = "PeerConnected" => u # NoInfo /\ u.connected
            /\ u # NoInfo /\ u.connected /\ ~(e # NoInfo /\ e.connected) => d.kind = "PeerConnected"
            /\ u # NoInfo /\ u.requested /\ ~(e # NoInfo /\ e.requested) =>
                 d.kind = "PeerRequest" /\ e # NoInfo
            /\ u # NoInfo /\ u.responded /\ ~(e # NoInfo /\ e.responded) =>
                 e # NoInfo /\ e.requested
<1>. USE DiagnosticsAssumption
<1>1. d.kind \in Kind
  BY DEF Reports
<1>2. NewInfo \in PeerInfo /\ ~NewInfo.connected /\ ~NewInfo.requested /\ ~NewInfo.responded
  BY DEF NewInfo, PeerInfo
<1>3. CASE d.kind = "NewPeer"
  <2>1. Updated(d, e) = IF e = NoInfo THEN NewInfo ELSE e
    BY <1>3 DEF Updated
  <2>. QED BY <1>2, <1>3, <2>1
<1>4. CASE d.kind = "PeerConnected"
  <2>. DEFINE b == IF e = NoInfo THEN NewInfo ELSE e
  <2>1. b \in PeerInfo
    BY <1>2
  <2>2. Updated(d, e) = [b EXCEPT !.connected = TRUE]
    BY <1>4 DEF Updated
  <2>. HIDE DEF b
  <2>3. /\ Updated(d, e) \in PeerInfo /\ Updated(d, e).connected
        /\ Updated(d, e).requested = b.requested /\ Updated(d, e).responded = b.responded
    BY <2>1, <2>2 DEF PeerInfo
  <2>. QED BY <1>2, <1>4, <2>1, <2>3 DEF b
<1>5. CASE d.kind = "PeerRequest"
  <2>1. CASE e = NoInfo
    BY <1>5, <2>1 DEF Updated
  <2>2. CASE e # NoInfo
    <3>1. Updated(d, e) = [e EXCEPT !.requested = TRUE]
      BY <1>5, <2>2 DEF Updated
    <3>. QED BY <1>5, <2>2, <3>1 DEF PeerInfo
  <2>. QED BY <2>1, <2>2
<1>6. CASE d.kind = "PeerResponse"
  <2>1. CASE e = NoInfo
    BY <1>6, <2>1 DEF Updated
  <2>2. CASE e # NoInfo
    <3>1. Updated(d, e) = [e EXCEPT !.responded = @ \/ e.requested]
      BY <1>6, <2>2 DEF Updated
    <3>. QED BY <1>6, <2>2, <3>1 DEF PeerInfo
  <2>. QED BY <2>1, <2>2
<1>. QED BY <1>1, <1>3, <1>4, <1>5, <1>6 DEF Kind

\* The collector moves the entry of the reported peer to the reported type,
\* updated, and touches no other.
LEMMA ReportHandled ==
  ASSUME info \in Maps, OneCategory, handle_diagnostic, Head(channel) \in Reports
  PROVE  LET d == Head(channel)
         IN \E e \in PeerInfo \cup {NoInfo} :
              /\ IsEntry(d.peer, e)
              /\ info' \in Maps
              /\ info'[d.type][d.peer] = Updated(d, e)
              /\ \A t \in PeerType \ {d.type} : info'[t][d.peer] = NoInfo
              /\ \A t \in PeerType, p \in Peer \ {d.peer} : info'[t][p] = info[t][p]
<1>. DEFINE d == Head(channel)
<1>1. d.peer \in Peer /\ d.type \in PeerType
  BY DEF Reports
<1>2. PICK e \in PeerInfo \cup {NoInfo} : IsEntry(d.peer, e)
  BY <1>1, EntryExists
<1>. DEFINE maps == hydrate(d.peer, d.type)
            at == MapOf(maps, LookUpOrder, d.peer)
            from == MapOf(info, MoveOrder, d.peer)
<1>3. info' = IF at = "none" THEN [maps EXCEPT ![d.type][d.peer] = Updated(d, NoInfo)]
                             ELSE [maps EXCEPT ![at][d.peer] = Updated(d, @)]
  BY DEF handle_diagnostic
<1>4. maps = IF from \in {"none", d.type} THEN info
             ELSE [info EXCEPT ![from][d.peer] = NoInfo, ![d.type][d.peer] = info[from][d.peer]]
  BY DEF hydrate
<1>5. \/ from = "none" /\ \A t \in PeerType : info[t][d.peer] = NoInfo
      \/ from \in PeerType /\ info[from][d.peer] # NoInfo
  BY MapOfFound
<1>6. \/ at = "none" /\ \A t \in PeerType : maps[t][d.peer] = NoInfo
      \/ at \in PeerType /\ maps[at][d.peer] # NoInfo
  BY MapOfFound
<1>7. "none" \notin PeerType
  BY DEF PeerType
<1>. HIDE DEF d, at, from, maps
<1>8. /\ maps \in Maps /\ maps[d.type][d.peer] = e
      /\ \A t \in PeerType \ {d.type} : maps[t][d.peer] = NoInfo
      /\ \A t \in PeerType, p \in Peer \ {d.peer} : maps[t][p] = info[t][p]
  <2>1. CASE from = "none"
    BY <1>1, <1>2, <1>4, <1>5, <1>7, <2>1 DEF IsEntry, Maps
  <2>2. CASE from = d.type
    BY <1>1, <1>2, <1>4, <1>5, <1>7, <2>2 DEF IsEntry, Maps
  <2>3. CASE from # "none" /\ from # d.type
    <3>1. from \in PeerType /\ info[from][d.peer] # NoInfo
      BY <1>5, <2>3
    <3>2. info[from][d.peer] = e /\ \A t \in PeerType \ {from} : info[t][d.peer] = NoInfo
      BY <1>2, <3>1 DEF IsEntry
    <3>3. maps = [info EXCEPT ![from][d.peer] = NoInfo, ![d.type][d.peer] = info[from][d.peer]]
      BY <1>4, <2>3
    <3>4. maps \in Maps
      BY <1>1, <3>1, <3>2, <3>3 DEF Maps
    <3>5. maps[d.type][d.peer] = e
      BY <1>1, <2>3, <3>1, <3>2, <3>3 DEF Maps
    <3>6. \A t \in PeerType \ {d.type} : maps[t][d.peer] = NoInfo
      BY <1>1, <2>3, <3>1, <3>2, <3>3 DEF Maps
    <3>7. \A t \in PeerType, p \in Peer \ {d.peer} : maps[t][p] = info[t][p]
      BY <1>1, <2>3, <3>1, <3>2, <3>3 DEF Maps
    <3>. QED BY <3>4, <3>5, <3>6, <3>7
  <2>. QED BY <2>1, <2>2, <2>3
<1>9. \/ at = "none" /\ e = NoInfo
      \/ at = d.type /\ e # NoInfo
  BY <1>1, <1>6, <1>7, <1>8
<1>10. info' = [maps EXCEPT ![d.type][d.peer] = Updated(d, e)]
  <2>1. CASE at = "none"
    BY <1>3, <1>9, <1>7, <1>1, <2>1
  <2>2. CASE at = d.type
    BY <1>1, <1>3, <1>7, <1>8, <1>9, <2>2 DEF Maps
  <2>. QED BY <1>9, <2>1, <2>2
<1>11. info' \in Maps
  <2>1. Updated(d, e) \in PeerInfo \cup {NoInfo}
    BY UpdatedFacts DEF d
  <2>. QED BY <1>1, <1>8, <1>10, <2>1 DEF Maps
<1>12. /\ info'[d.type][d.peer] = Updated(d, e)
       /\ \A t \in PeerType \ {d.type} : info'[t][d.peer] = NoInfo
       /\ \A t \in PeerType, p \in Peer \ {d.peer} : info'[t][p] = info[t][p]
  BY <1>1, <1>8, <1>10 DEF Maps
<1>. QED BY <1>2, <1>11, <1>12 DEF d

-----------------------------------------------------------------------------
(* What the loop sends.                                                    *)

LEMMA SetToSeqType ==
  ASSUME NEW S, IsFiniteSet(S)
  PROVE  SetToSeq(S) \in Seq(S)
<1>1. Cardinality(S) \in Nat /\ ExistsBijection(1 .. Cardinality(S), S)
  BY FS_CardinalityType
<1>2. \E f \in [1 .. Cardinality(S) -> S] : IsInjective(f)
  BY <1>1 DEF ExistsBijection, Bijection, Injection
<1>3. SetToSeq(S) \in [1 .. Cardinality(S) -> S]
  BY <1>2 DEF SetToSeq
<1>. QED BY <1>1, <1>3

\* The reports of a round of dials.
LEMMA DialReports ==
  ASSUME NEW peers \in SUBSET Peer, NEW t \in PeerType
  PROVE  LET r == SetToSeq({Report("NewPeer", p, t) : p \in peers})
         IN /\ r \in Seq(Reports)
            /\ \A i \in 1 .. Len(r) : r[i].kind = "NewPeer" /\ r[i].type = t /\ r[i].peer \in peers
<1>. DEFINE f == [p \in peers |-> Report("NewPeer", p, t)]
            S == {Report("NewPeer", p, t) : p \in peers}
<1>1. IsFiniteSet(peers)
  BY DiagnosticsAssumption, FS_Subset DEF Peer
<1>2. f \in Surjection(peers, S)
  BY DEF Surjection
<1>3. IsFiniteSet(S)
  <2>. HIDE DEF f, S
  <2>. QED BY <1>1, <1>2, FS_Surjection
<1>4. S \subseteq Reports /\ \A d \in S : d.kind = "NewPeer" /\ d.type = t /\ d.peer \in peers
  BY DEF Report, Reports, Kind
<1>5. SetToSeq(S) \in Seq(S)
  <2>. HIDE DEF S
  <2>. QED BY <1>3, SetToSeqType
<1>6. \A s \in Seq(S) : s \in Seq(Reports) /\ \A i \in 1 .. Len(s) : s[i] \in S
  <2>. HIDE DEF S
  <2>. QED BY <1>4
<1>. QED BY <1>4, <1>5, <1>6

\* The channel after a broadcast: all there was and is, or only its end.
LEMMA BroadcastEffect ==
  ASSUME channel \in Seq(Reports), lagged \in BOOLEAN, collecting \in BOOLEAN,
         NEW r \in Seq(Reports), Broadcast(r)
  PROVE  /\ channel' \in Seq(Reports) /\ Len(channel') <= Capacity
         /\ lagged' \in BOOLEAN /\ (lagged => lagged')
         /\ ~collecting => channel' = <<>>
         /\ collecting /\ ~lagged' => channel' = channel \o r
         /\ collecting => \E n \in Nat :
              /\ Len(channel') + n = Len(channel) + Len(r)
              /\ \A i \in 1 .. Len(channel') : channel'[i] = (channel \o r)[i + n]
<1>. DEFINE all == IF collecting THEN channel \o r ELSE <<>>
            lost == IF Len(all) > Capacity THEN Len(all) - Capacity ELSE 0
<1>1. Capacity \in Nat \ {0}
  BY DiagnosticsAssumption
<1>2. all \in Seq(Reports) /\ Len(all) \in Nat
  OBVIOUS
<1>3. lost \in Nat /\ lost <= Len(all) /\ Len(all) - lost <= Capacity
  BY <1>1, <1>2
<1>4. channel' = SubSeq(all, lost + 1, Len(all)) /\ lagged' = (lagged \/ lost > 0)
  BY DEF Broadcast
<1>5. collecting => all = channel \o r /\ Len(all) = Len(channel) + Len(r)
  OBVIOUS
<1>6. ~collecting => all = <<>>
  OBVIOUS
<1>. HIDE DEF all, lost
<1>7. /\ channel' \in Seq(Reports) /\ Len(channel') = Len(all) - lost
      /\ \A i \in 1 .. Len(all) - lost : channel'[i] = all[i + lost]
  BY <1>2, <1>3, <1>4
<1>8. lost = 0 => channel' = all
  BY <1>2, <1>4, SubSeqFull
<1>9. ~collecting => channel' = <<>>
  <2>. SUFFICES ASSUME ~collecting PROVE channel' = <<>>
    OBVIOUS
  <2>1. Len(all) = 0
    BY <1>6
  <2>2. Len(channel') = 0
    BY <1>3, <1>7, <2>1
  <2>. QED BY <1>7, <2>2, EmptySeq
<1>10. collecting => \E n \in Nat :
         /\ Len(channel') + n = Len(channel) + Len(r)
         /\ \A i \in 1 .. Len(channel') : channel'[i] = (channel \o r)[i + n]
  <2>1. collecting => /\ Len(channel') + lost = Len(channel) + Len(r)
                      /\ \A i \in 1 .. Len(channel') : channel'[i] = (channel \o r)[i + lost]
    BY <1>2, <1>3, <1>5, <1>7
  <2>. QED BY <1>3, <2>1
<1>11. ~lagged' => lost = 0
  <2>1. lost # 0 => lost > 0
    BY <1>3
  <2>. QED BY <1>4, <2>1, Zenon
<1>. QED BY <1>3, <1>4, <1>5, <1>7, <1>8, <1>9, <1>10, <1>11

\* Exactly the peers on the list of dialed seeds are reported as seeds.
LEMMA PeerTypeSeed ==
  ASSUME NEW p
  PROVE  /\ peer_type(p) \in PeerType
         /\ peer_type(p) = "SeedPeer" <=> p \in dialed_seed_peers
         /\ peer_type(p)' \in PeerType
         /\ peer_type(p)' = "SeedPeer" <=> p \in dialed_seed_peers'
<1>1. CASE p \in dialed_seed_peers
  BY <1>1 DEF peer_type, PeerType
<1>2. CASE p \notin dialed_seed_peers
  BY <1>2 DEF peer_type, PeerType
<1>3. /\ peer_type(p) \in PeerType
      /\ peer_type(p) = "SeedPeer" <=> p \in dialed_seed_peers
  BY <1>1, <1>2
<1>4. /\ peer_type(p)' \in PeerType
      /\ peer_type(p)' = "SeedPeer" <=> p \in dialed_seed_peers'
  <2>1. CASE p \in dialed_seed_peers'
    BY <2>1 DEF peer_type, PeerType
  <2>2. CASE p \notin dialed_seed_peers'
    BY <2>2 DEF peer_type, PeerType
  <2>. QED BY <2>1, <2>2
<1>. QED BY <1>3, <1>4

-----------------------------------------------------------------------------
(* The channel, step by step: what all the invariants below rest on.       *)

TypeInv == TypeOK /\ channel \in Seq(Reports)

\* The reports r that a step sends: their types fit the list of seeds, and a
\* request is sent to a peer just connected or asked before.
Sent(r) ==
  /\ r \in Seq(Reports) /\ Broadcast(r)
  /\ \A i \in 1 .. Len(r) :
       /\ r[i].type = "SeedPeer" <=> r[i].peer \in dialed_seed_peers'
       /\ r[i].kind = "PeerRequest" =>
            \/ r[i].peer \in asked
            \/ \E j \in 1 .. i - 1 : r[j].kind = "PeerConnected" /\ r[j].peer = r[i].peer
  /\ \A p \in asked' \ asked :
       \E i \in 1 .. Len(r) : r[i].kind = "PeerConnected" /\ r[i].peer = p

ChannelStep ==
  /\ \/ dialed_seed_peers' = dialed_seed_peers
     \/ dialed_seed_peers = {} /\ dialed_seed_peers' = Seed
  /\ \/ UNCHANGED <<channel, lagged, info, collecting>> /\ asked' \subseteq asked
     \/ handle_diagnostic
     \/ CollectorStops
     \/ UNCHANGED <<info, collecting>> /\ \E r : Sent(r)

LEMMA OneSent ==
  ASSUME NEW d \in Reports, Broadcast(<<d>>), d.kind # "PeerRequest", asked' \subseteq asked,
         d.type = "SeedPeer" <=> d.peer \in dialed_seed_peers'
  PROVE  \E r : Sent(r)
<1>. DEFINE r == <<d>>
<1>1. r \in Seq(Reports) /\ Len(r) = 1 /\ r[1] = d
  OBVIOUS
<1>2. Broadcast(r)
  OBVIOUS
<1>. HIDE DEF r
<1>. QED BY <1>1, <1>2 DEF Sent

LEMMA TwoSent ==
  ASSUME NEW r \in Seq(Reports), Len(r) = 2, Broadcast(r), r[1].kind # "PeerRequest",
         r[1].type = "SeedPeer" <=> r[1].peer \in dialed_seed_peers',
         r[2].type = "SeedPeer" <=> r[2].peer \in dialed_seed_peers',
         r[2].peer \in asked \/ (r[1].kind = "PeerConnected" /\ r[1].peer = r[2].peer),
         \A p \in asked' \ asked : r[1].kind = "PeerConnected" /\ r[1].peer = p
  PROVE  Sent(r)
<1>1. \A i \in 1 .. Len(r) : i = 1 \/ i = 2
  OBVIOUS
<1>2. 1 \in 1 .. 2 - 1
  OBVIOUS
<1>. QED BY <1>1, <1>2 DEF Sent

LEMMA DialSent ==
  ASSUME NEW peers \in SUBSET Peer, NEW t \in PeerType, Dial(peers, t), asked' \subseteq asked,
         \A p \in peers : t = "SeedPeer" <=> p \in dialed_seed_peers'
  PROVE  \E r : Sent(r)
<1>. DEFINE r == SetToSeq({Report("NewPeer", p, t) : p \in peers})
<1>1. /\ r \in Seq(Reports)
      /\ \A i \in 1 .. Len(r) : r[i].kind = "NewPeer" /\ r[i].type = t /\ r[i].peer \in peers
  BY DialReports
<1>2. Broadcast(r)
  BY DEF Dial
<1>. HIDE DEF r
<1>. QED BY <1>1, <1>2 DEF Sent

LEMMA ChannelSteps ==
  ASSUME TypeInv, [Next]_vars
  PROVE  ChannelStep
<1>. USE DEF loop_vars, peer_vars
<1>1. ASSUME NEW p \in Peer, Dialing(p)
      PROVE  ChannelStep
  <2>1. Report("NewPeer", p, peer_type(p)) \in Reports
    BY PeerTypeSeed DEF Report, Reports, Kind
  <2>2. dialed_seed_peers' = dialed_seed_peers /\ UNCHANGED <<info, collecting>> /\ asked' = asked
    BY <1>1 DEF Dialing
  <2>3. \E r : Sent(r)
    <3>. DEFINE d == Report("NewPeer", p, peer_type(p))
    <3>1. d.kind # "PeerRequest" /\ (d.type = "SeedPeer" <=> d.peer \in dialed_seed_peers')
      BY <2>2, PeerTypeSeed DEF Report
    <3>2. Broadcast(<<d>>)
      BY <1>1 DEF Dialing
    <3>. HIDE DEF d
    <3>. QED BY <2>1, <2>2, <3>1, <3>2, OneSent DEF d
  <2>. QED BY <2>2, <2>3 DEF ChannelStep
<1>2. ASSUME NEW p \in Peer, ConnectionEstablished(p)
      PROVE  ChannelStep
  <2>. DEFINE d == Report("PeerConnected", p, peer_type(p))
              q == Report("PeerRequest", p, peer_type(p))
  <2>1. d \in Reports /\ q \in Reports
    BY PeerTypeSeed DEF Report, Reports, Kind
  <2>2. dialed_seed_peers' = dialed_seed_peers /\ UNCHANGED <<info, collecting>> /\ asked' = asked \cup {p}
    BY <1>2 DEF ConnectionEstablished
  <2>3. /\ d.kind = "PeerConnected" /\ d.peer = p /\ q.peer = p
        /\ d.type = "SeedPeer" <=> d.peer \in dialed_seed_peers'
        /\ q.type = "SeedPeer" <=> q.peer \in dialed_seed_peers'
    BY <2>2, PeerTypeSeed DEF Report
  <2>4. Broadcast(<<d, q>>)
    BY <1>2 DEF ConnectionEstablished
  <2>. DEFINE r == <<d, q>>
  <2>. HIDE DEF d, q
  <2>5. r \in Seq(Reports) /\ Len(r) = 2 /\ r[1] = d /\ r[2] = q
    BY <2>1
  <2>6. Sent(r)
    <3>. HIDE DEF r
    <3>1. Broadcast(r)
      BY <2>4 DEF r
    <3>2. \A x \in asked' \ asked : x = p
      BY <2>2
    <3>. QED BY <2>2, <2>3, <2>5, <3>1, <3>2, TwoSent
  <2>. QED BY <2>2, <2>6 DEF ChannelStep
<1>3. ASSUME NEW p \in Peer, NEW q \in SUBSET Peer, NEW o \in SUBSET Other,
             PeerExchangeResponse(p, q, o)
      PROVE  ChannelStep
  <2>1. PICK t \in PeerType : t = peer_type(p)'
    BY PeerTypeSeed
  <2>. DEFINE d == Report("PeerResponse", p, t)
              r == Append(<<d>>, Report("PeerRequest", p, t))
  <2>2. /\ dialed_seed_peers' = dialed_seed_peers /\ UNCHANGED <<info, collecting>>
        /\ p \in asked /\ asked' \subseteq asked
    BY <1>3 DEF PeerExchangeResponse
  <2>3. t = "SeedPeer" <=> p \in dialed_seed_peers'
    BY <2>1, PeerTypeSeed
  <2>4. d \in Reports /\ d.kind # "PeerRequest" /\ d.peer = p /\ d.type = t
    BY DEF Report, Reports, Kind
  <2>5. /\ r \in Seq(Reports) /\ Len(r) = 2 /\ r[1] = d
        /\ r[2].peer = p /\ r[2].type = t
    BY DEF Report, Reports, Kind
  <2>6. Broadcast(r) \/ Broadcast(<<d>>)
    BY <1>3, <2>1 DEF PeerExchangeResponse
  <2>. HIDE DEF d, r
  <2>7. CASE Broadcast(<<d>>)
    <3>1. \E x : Sent(x)
      BY <2>2, <2>3, <2>4, <2>7, OneSent
    <3>. QED BY <2>2, <3>1 DEF ChannelStep
  <2>8. CASE Broadcast(r)
    <3>1. asked' \ asked = {}
      BY <2>2
    <3>2. Sent(r)
      BY <2>2, <2>3, <2>4, <2>5, <2>8, <3>1, TwoSent
    <3>. QED BY <2>2, <3>2 DEF ChannelStep
  <2>. QED BY <2>6, <2>7, <2>8
<1>4. CASE Tick
  <2>1. UNCHANGED <<info, collecting, asked>>
    BY <1>4 DEF Tick
  <2>2. CASE diagnostic_state = "ConnectToSeedPeers" /\ dialed_seed_peers = {}
    <3>1. dialed_seed_peers' = Seed /\ \E ok \in SUBSET Seed : Dial(ok, "SeedPeer")
      BY <1>4, <2>2 DEF Tick, TickSeeds
    <3>2. PICK ok \in SUBSET Seed : Dial(ok, "SeedPeer")
      BY <3>1
    <3>3. ok \in SUBSET Peer /\ "SeedPeer" \in PeerType
      BY DEF Peer, PeerType
    <3>4. \E r : Sent(r)
      BY <2>1, <3>1, <3>2, <3>3, DialSent
    <3>. QED BY <2>1, <2>2, <3>1, <3>4 DEF ChannelStep
  <2>3. CASE diagnostic_state = "ConnectToPrivatePeers"
    <3>1. dialed_seed_peers' = dialed_seed_peers /\ \E ok \in SUBSET PeersToDial : Dial(ok, "PrivatePeer")
      BY <1>4, <2>3 DEF Tick, TickPrivate
    <3>2. PICK ok \in SUBSET PeersToDial : Dial(ok, "PrivatePeer")
      BY <3>1
    <3>3. ok \in SUBSET Peer /\ "PrivatePeer" \in PeerType /\ \A p \in ok : p \notin dialed_seed_peers'
      BY <3>1 DEF PeersToDial, PeerType, TypeInv, TypeOK
    <3>4. \E r : Sent(r)
      BY <2>1, <3>2, <3>3, DialSent
    <3>. QED BY <2>1, <3>1, <3>4 DEF ChannelStep
  <2>4. CASE /\ diagnostic_state # "ConnectToPrivatePeers"
             /\ ~(diagnostic_state = "ConnectToSeedPeers" /\ dialed_seed_peers = {})
    <3>1. UNCHANGED <<dialed_seed_peers, channel, lagged>>
      BY <1>4, <2>4 DEF Tick, TickSeeds
    <3>. QED BY <2>1, <3>1 DEF ChannelStep
  <2>. QED BY <2>2, <2>3, <2>4
<1>5. CASE handle_diagnostic
  BY <1>5 DEF handle_diagnostic, ChannelStep
<1>6. CASE CollectorStops
  BY <1>6 DEF CollectorStops, ChannelStep
<1>7. ASSUME NEW p \in Other, Identified(p)
      PROVE  ChannelStep
  BY <1>7 DEF Identified, ChannelStep
<1>8. CASE ParseFails
  BY <1>8 DEF ParseFails, ChannelStep
<1>9. CASE AnswerQuestion
  BY <1>9 DEF AnswerQuestion, ChannelStep
<1>10. CASE AnswerReport
  BY <1>10 DEF AnswerReport, ChannelStep
<1>11. CASE Interrupt
  BY <1>11 DEF Interrupt, ChannelStep
<1>12. CASE ShutDown
  BY <1>12 DEF ShutDown, ChannelStep
<1>13. CASE UNCHANGED vars
  BY <1>13 DEF vars, ChannelStep
<1>. QED
  BY <1>1, <1>2, <1>3, <1>4, <1>5, <1>6, <1>7, <1>8, <1>9, <1>10, <1>11, <1>12, <1>13 DEF Next

-----------------------------------------------------------------------------
(* Type correctness, and the categories.                                   *)

CollectInv == TypeInv /\ OneCategory

LEMMA InitCollectInv == Init => CollectInv
<1>. SUFFICES ASSUME Init PROVE CollectInv
  OBVIOUS
<1>. USE DiagnosticsAssumption
<1>1. info \in Maps
  BY DEF Init, Maps
<1>2. TypeOK
  <2>1. Len(channel) = 0
    BY DEF Init
  <2>2. Len(channel) <= Capacity /\ elapsed \in 0 .. RESPONSE_TIMEOUT + 1 /\ events \in 0 .. MaxEvents
    BY <2>1 DEF Init
  <2>. QED BY <1>1, <2>2 DEF Init, TypeOK, State, Maps
<1>3. OneCategory
  BY DEF Init, OneCategory, Infos
<1>. QED BY <1>2, <1>3 DEF Init, CollectInv, TypeInv

\* The channel holds reports, at most as many as fit.
LEMMA ChannelTyped ==
  ASSUME CollectInv, ChannelStep
  PROVE  /\ channel' \in Seq(Reports) /\ Len(channel') <= Capacity
         /\ lagged' \in BOOLEAN /\ collecting' \in BOOLEAN
         /\ info' \in Maps /\ OneCategory'
<1>0. /\ channel \in Seq(Reports) /\ Len(channel) <= Capacity /\ lagged \in BOOLEAN
      /\ collecting \in BOOLEAN /\ info \in Maps /\ OneCategory /\ Capacity \in Nat
  BY DiagnosticsAssumption DEF CollectInv, TypeInv, TypeOK, Maps
<1>1. CASE UNCHANGED <<channel, lagged, info, collecting>>
  BY <1>0, <1>1 DEF OneCategory, Infos
<1>2. CASE handle_diagnostic
  <2>1. channel # <<>> /\ channel' = Tail(channel) /\ lagged' = lagged /\ collecting' = collecting
    BY <1>2 DEF handle_diagnostic
  <2>2. /\ Head(channel) \in Reports
        /\ channel' \in Seq(Reports) /\ Len(channel') <= Capacity
    BY <1>0, <2>1, HeadTailProperties
  <2>. DEFINE d == Head(channel)
  <2>3. /\ d.peer \in Peer /\ d.type \in PeerType /\ info' \in Maps
        /\ \A t \in PeerType \ {d.type} : info'[t][d.peer] = NoInfo
        /\ \A t \in PeerType, p \in Peer \ {d.peer} : info'[t][p] = info[t][p]
    BY <1>0, <1>2, <2>2, ReportHandled DEF Reports
  <2>. HIDE DEF d
  <2>4. OneCategory'
    <3>. SUFFICES ASSUME NEW p \in Peer, NEW t \in PeerType, NEW u \in PeerType,
                         info'[t][p] # NoInfo, info'[u][p] # NoInfo
                  PROVE  t = u
      BY DEF OneCategory, Infos
    <3>1. CASE p = d.peer
      BY <2>3, <3>1
    <3>2. CASE p # d.peer
      <4>1. info[t][p] # NoInfo /\ info[u][p] # NoInfo
        BY <2>3, <3>2
      <4>. QED BY <1>0, <4>1 DEF OneCategory, Infos
    <3>. QED BY <3>1, <3>2
  <2>. QED BY <1>0, <2>1, <2>2, <2>3, <2>4
<1>3. CASE CollectorStops
  <2>1. channel' = <<>> /\ collecting' = FALSE /\ UNCHANGED <<lagged, info>>
    BY <1>3 DEF CollectorStops
  <2>2. channel' \in Seq(Reports) /\ Len(channel') = 0
    BY <2>1, EmptySeq
  <2>3. OneCategory'
    BY <1>0, <2>1 DEF OneCategory, Infos
  <2>4. collecting' \in BOOLEAN
    BY <2>1
  <2>5. Len(channel') <= Capacity
    BY <1>0, <2>2
  <2>6. lagged' \in BOOLEAN /\ info' \in Maps
    BY <1>0, <2>1
  <2>. QED BY <2>2, <2>3, <2>4, <2>5, <2>6
<1>4. CASE UNCHANGED <<info, collecting>> /\ \E r : Sent(r)
  <2>1. PICK r : Sent(r)
    BY <1>4
  <2>2. r \in Seq(Reports) /\ Broadcast(r)
    BY <2>1 DEF Sent
  <2>3. channel' \in Seq(Reports) /\ Len(channel') <= Capacity /\ lagged' \in BOOLEAN
    BY <1>0, <2>2, BroadcastEffect
  <2>. QED BY <1>0, <1>4, <2>3 DEF OneCategory, Infos
<1>. QED BY <1>1, <1>2, <1>3, <1>4 DEF ChannelStep

LEMMA NextState ==
  ASSUME NEW s \in State \ {"Ended", "Done"}
  PROVE  success_next_state(s) \in State \ {"Ended"} /\ failed_next_state(s) \in State \ {"Ended"}
BY DEF State, success_next_state, failed_next_state

\* The part of the state that is the loop's own.
LoopOK ==
  /\ diagnostic_state \in State /\ elapsed \in 0 .. RESPONSE_TIMEOUT + 1
  /\ asking \in {"none", "SeedPeer", "PrivatePeer", "RelayPeer"}
  /\ asking # "none" => diagnostic_state # "Ended"
  /\ dialed_private_peers \subseteq Peer
  /\ same_squad \subseteq Peer /\ non_squad \subseteq Other
  /\ possible_relays \subseteq Peer /\ asked \subseteq Peer
  /\ shutdown \in BOOLEAN /\ events \in 0 .. MaxEvents

LEMMA LoopTyped ==
  ASSUME LoopOK, [Next]_vars
  PROVE  LoopOK'
<1>. USE DEF loop_vars, peer_vars
<1>0. /\ MaxEvents \in Nat /\ RESPONSE_TIMEOUT \in Nat
  BY DiagnosticsAssumption
<1>1. CASE \E p \in Peer : Dialing(p) \/ ConnectionEstablished(p)
  BY <1>0, <1>1 DEF LoopOK, Dialing, ConnectionEstablished, Event
<1>2. CASE \E p \in Other : Identified(p)
  BY <1>0, <1>2 DEF LoopOK, Identified, Event, Peer
<1>3. CASE \E p \in Peer, q \in SUBSET Peer, o \in SUBSET Other : PeerExchangeResponse(p, q, o)
  BY <1>0, <1>3 DEF LoopOK, PeerExchangeResponse, Event
<1>4. CASE handle_diagnostic
  BY <1>4 DEF LoopOK, handle_diagnostic
<1>5. CASE CollectorStops
  BY <1>5 DEF LoopOK, CollectorStops
<1>6. CASE Tick
  <2>1. /\ diagnostic_state # "Ended" /\ UNCHANGED <<diagnostic_state, peer_vars, shutdown, events>>
        /\ asking' = Wanted(diagnostic_state) /\ elapsed' = Longer(elapsed)
    BY <1>6 DEF Tick, Idle
  <2>2. asking' \in {"SeedPeer", "PrivatePeer", "RelayPeer"}
    BY <2>1 DEF LoopOK, State, Wanted
  <2>3. elapsed' \in 0 .. RESPONSE_TIMEOUT + 1
    BY <1>0, <2>1 DEF LoopOK, Longer
  <2>4. dialed_private_peers' \subseteq Peer
    <3>1. CASE diagnostic_state = "ConnectToPrivatePeers"
      BY <1>6, <3>1 DEF Tick, TickPrivate, PeersToDial, LoopOK
    <3>2. CASE diagnostic_state # "ConnectToPrivatePeers"
      BY <1>6, <3>2 DEF Tick, TickSeeds, LoopOK
    <3>. QED BY <3>1, <3>2
  <2>. QED BY <2>1, <2>2, <2>3, <2>4 DEF LoopOK
<1>7. CASE ParseFails
  BY <1>7 DEF LoopOK, ParseFails, State, Idle
<1>8. CASE AnswerQuestion
  <2>1. /\ diagnostic_state \in State \ {"Ended", "Done"} /\ asking' = "none"
        /\ UNCHANGED <<dialed_private_peers, peer_vars, shutdown, events>>
    BY <1>8 DEF AnswerQuestion, LoopOK
  <2>2. Succeed \/ Fail \/ Stay
    BY <1>8, <2>1 DEF AnswerQuestion, ConnectedAnswer, ResponsesAnswer
  <2>3. diagnostic_state' \in State /\ elapsed' \in 0 .. RESPONSE_TIMEOUT + 1
    BY <1>0, <2>1, <2>2, NextState DEF Succeed, Fail, Stay, LoopOK
  <2>. QED BY <2>1, <2>3 DEF LoopOK
<1>9. CASE AnswerReport
  <2>1. shutdown' \in BOOLEAN
    BY <1>9, Zenon DEF AnswerReport
  <2>2. asking' \in {"none", "PrivatePeer", "RelayPeer"} /\ diagnostic_state # "Ended"
    BY <1>9 DEF AnswerReport
  <2>. QED BY <1>9, <2>1, <2>2 DEF LoopOK, AnswerReport
<1>10. CASE Interrupt
  BY <1>10 DEF LoopOK, Interrupt
<1>11. CASE ShutDown
  BY <1>11 DEF LoopOK, ShutDown, State, Idle
<1>12. CASE UNCHANGED vars
  BY <1>12 DEF LoopOK, vars
<1>. QED
  BY <1>1, <1>2, <1>3, <1>4, <1>5, <1>6, <1>7, <1>8, <1>9, <1>10, <1>11, <1>12 DEF Next

LEMMA NextCollectInv ==
  ASSUME CollectInv, [Next]_vars
  PROVE  CollectInv' /\ ChannelStep
<1>1. ChannelStep
  BY ChannelSteps DEF CollectInv
<1>2. LoopOK'
  BY LoopTyped DEF CollectInv, TypeInv, TypeOK, LoopOK
<1>3. dialed_seed_peers' \in {{}, Seed}
  BY <1>1 DEF ChannelStep, CollectInv, TypeInv, TypeOK
<1>. QED BY <1>1, <1>2, <1>3, ChannelTyped DEF CollectInv, TypeInv, TypeOK, LoopOK, Maps

\* Nothing the peers do, and no report that is lost, makes the collector count
\* a peer in two categories (diagnostics_collector.rs, hydrate_peer_lists).
THEOREM OneCategoryHolds == Spec => []OneCategory
<1>1. CollectInv /\ [Next]_vars => CollectInv'
  BY NextCollectInv
<1>. QED BY <1>1, InitCollectInv, PTL DEF Spec, CollectInv

\* The entry a step leaves of a peer: unchanged, or updated by the report that
\* was first in the channel.
LEMMA EntrySteps ==
  ASSUME CollectInv, ChannelStep, NEW p \in Peer, NEW t \in PeerType, info[t][p] # NoInfo
  PROVE  \E u \in PeerType :
           /\ info'[u][p] # NoInfo
           /\ info[t][p].connected => info'[u][p].connected
           /\ info[t][p].requested => info'[u][p].requested
           /\ info[t][p].responded => info'[u][p].responded
<1>0. info \in Maps /\ OneCategory /\ channel \in Seq(Reports)
  BY DEF CollectInv, TypeInv, TypeOK, Maps
<1>1. CASE info' = info
  BY <1>1
<1>2. CASE handle_diagnostic
  <2>. DEFINE d == Head(channel)
  <2>1. d \in Reports
    BY <1>0, <1>2, HeadTailProperties DEF handle_diagnostic
  <2>2. PICK e \in PeerInfo \cup {NoInfo} :
          /\ IsEntry(d.peer, e)
          /\ info'[d.type][d.peer] = Updated(d, e)
          /\ \A v \in PeerType, q \in Peer \ {d.peer} : info'[v][q] = info[v][q]
    BY <1>0, <1>2, <2>1, ReportHandled
  <2>3. d.type \in PeerType
    BY <2>1 DEF Reports
  <2>. HIDE DEF d
  <2>4. CASE p = d.peer
    <3>1. info[t][p] = e
      BY <2>2, <2>4 DEF IsEntry
    <3>2. /\ Updated(d, e) # NoInfo
          /\ e.connected => Updated(d, e).connected
          /\ e.requested => Updated(d, e).requested
          /\ e.responded => Updated(d, e).responded
      BY <2>1, <2>2, <3>1, UpdatedFacts
    <3>. QED BY <2>2, <2>3, <2>4, <3>1, <3>2
  <2>5. CASE p # d.peer
    BY <2>2, <2>5
  <2>. QED BY <2>4, <2>5
<1>. QED BY <1>1, <1>2 DEF ChannelStep, CollectorStops

\* Facts are named by the fields of an entry.
LEMMA FactsStay ==
  ASSUME CollectInv, ChannelStep, NEW p \in Peer
  PROVE  Facts(p) \subseteq Facts(p)'
<1>. SUFFICES ASSUME NEW f \in {"connected", "requested", "responded"}, NEW t \in PeerType,
                     info[t][p] # NoInfo, info[t][p][f]
              PROVE  \E u \in PeerType : info'[u][p] # NoInfo /\ info'[u][p][f]
  BY DEF Facts
<1>1. PICK u \in PeerType :
        /\ info'[u][p] # NoInfo
        /\ info[t][p].connected => info'[u][p].connected
        /\ info[t][p].requested => info'[u][p].requested
        /\ info[t][p].responded => info'[u][p].responded
  BY EntrySteps
<1>2. info[t][p][f] => info'[u][p][f]
  BY <1>1
<1>. QED BY <1>1, <1>2

\* A report about a peer whose category has changed moves what was known of it:
\* a connection, a request or an answer once noted stays noted
\* (diagnostics_collector.rs, hydrate_peer_lists and handle_diagnostic).
THEOREM FactsAreKept == Spec => FactsKept
<1>1. CollectInv /\ [Next]_vars => CollectInv'
  BY NextCollectInv
<1>2. CollectInv /\ [Next]_vars => [\A p \in Peer : Facts(p) \subseteq Facts(p)']_vars
  <2>. SUFFICES ASSUME CollectInv, [Next]_vars, NEW p \in Peer
                PROVE  Facts(p) \subseteq Facts(p)'
    OBVIOUS
  <2>. QED BY NextCollectInv, FactsStay
<1>. QED BY <1>1, <1>2, InitCollectInv, PTL DEF Spec, FactsKept

-----------------------------------------------------------------------------
(* A peer that answered is connected.                                      *)

KnownConnected(p) == \E t \in PeerType : info[t][p] # NoInfo /\ info[t][p].connected

ConnectedBefore(p, n) ==
  \E i \in 1 .. n : channel[i].kind = "PeerConnected" /\ channel[i].peer = p

\* No answer without a request.  As long as nothing was lost, none without a
\* connection either, neither in the maps nor on the way to them.
AnswersAsked ==
  \A t \in PeerType, p \in Peer : info[t][p] # NoInfo /\ info[t][p].responded => info[t][p].requested
RequestsConnected ==
  ~lagged => \A t \in PeerType, p \in Peer :
    info[t][p] # NoInfo /\ info[t][p].requested => info[t][p].connected
RequestsFollow ==
  ~lagged /\ collecting =>
    /\ \A j \in 1 .. Len(channel) : channel[j].kind = "PeerRequest" =>
         KnownConnected(channel[j].peer) \/ ConnectedBefore(channel[j].peer, j - 1)
    /\ \A p \in asked : KnownConnected(p) \/ ConnectedBefore(p, Len(channel))

HonestInv == AnswersAsked /\ RequestsConnected /\ RequestsFollow

LEMMA KnownStays ==
  ASSUME CollectInv, ChannelStep, NEW p \in Peer, KnownConnected(p)
  PROVE  KnownConnected(p)'
<1>1. PICK t \in PeerType : info[t][p] # NoInfo /\ info[t][p].connected
  BY DEF KnownConnected
<1>2. \E u \in PeerType : info'[u][p] # NoInfo /\ info'[u][p].connected
  BY <1>1, EntrySteps
<1>. QED BY <1>2 DEF KnownConnected

\* Reports are added at the end, and nothing is lost.
LEMMA HonestSent ==
  ASSUME CollectInv, HonestInv, UNCHANGED <<info, collecting>>, NEW r, Sent(r)
  PROVE  HonestInv'
<1>0. /\ channel \in Seq(Reports) /\ lagged \in BOOLEAN /\ collecting \in BOOLEAN
      /\ r \in Seq(Reports) /\ Broadcast(r)
  BY DEF CollectInv, TypeInv, TypeOK, Sent
<1>1. AnswersAsked'
  BY DEF HonestInv, AnswersAsked
<1>2. lagged => lagged'
  BY <1>0, BroadcastEffect
<1>3. RequestsConnected'
  BY <1>2 DEF HonestInv, RequestsConnected
<1>4. ASSUME ~lagged', collecting
      PROVE  /\ \A j \in 1 .. Len(channel') : channel'[j].kind = "PeerRequest" =>
                  KnownConnected(channel[j].peer)' \/ ConnectedBefore(channel[j].peer, j - 1)'
             /\ \A p \in asked' : KnownConnected(p)' \/ ConnectedBefore(p, Len(channel))'
  <2>1. channel' = channel \o r /\ ~lagged
    BY <1>0, <1>2, <1>4, BroadcastEffect
  <2>2. /\ Len(channel) \in Nat /\ Len(r) \in Nat /\ Len(channel') = Len(channel) + Len(r)
        /\ \A i \in 1 .. Len(channel) : channel'[i] = channel[i]
        /\ \A i \in 1 .. Len(r) : channel'[Len(channel) + i] = r[i]
    BY <1>0, <2>1
  <2>3. ASSUME NEW p, NEW n \in 0 .. Len(channel), NEW m \in n .. Len(channel'), ConnectedBefore(p, n)
        PROVE  \E i \in 1 .. m : channel'[i].kind = "PeerConnected" /\ channel'[i].peer = p
    BY <2>2, <2>3 DEF ConnectedBefore
  <2>4. ASSUME NEW p, NEW j \in 1 .. Len(r), NEW m \in Len(channel) + j .. Len(channel'),
               r[j].kind = "PeerConnected", r[j].peer = p
        PROVE  \E i \in 1 .. m : channel'[i].kind = "PeerConnected" /\ channel'[i].peer = p
    <3>1. Len(channel) + j \in 1 .. m /\ channel'[Len(channel) + j] = r[j]
      BY <2>2
    <3>. QED BY <2>4, <3>1
  <2>5. ASSUME NEW j \in 1 .. Len(channel'), channel'[j].kind = "PeerRequest"
        PROVE  \/ KnownConnected(channel'[j].peer)
               \/ \E i \in 1 .. j - 1 : channel'[i].kind = "PeerConnected" /\ channel'[i].peer = channel'[j].peer
    <3>1. CASE j <= Len(channel)
      <4>1. j \in 1 .. Len(channel) /\ j - 1 \in 0 .. Len(channel) /\ j - 1 \in j - 1 .. Len(channel')
        BY <2>2, <3>1
      <4>2. channel'[j] = channel[j]
        BY <2>2, <4>1
      <4>3. KnownConnected(channel[j].peer) \/ ConnectedBefore(channel[j].peer, j - 1)
        BY <1>4, <2>1, <2>5, <4>1, <4>2 DEF HonestInv, RequestsFollow
      <4>. QED BY <2>3, <4>1, <4>2, <4>3
    <3>2. CASE j > Len(channel)
      <4>. DEFINE k == j - Len(channel)
      <4>1. k \in 1 .. Len(r) /\ channel'[j] = r[k] /\ k - 1 \in Nat
        <5>1. k \in 1 .. Len(r) /\ Len(channel) + k = j /\ k - 1 \in Nat
          BY <2>2, <3>2
        <5>. QED BY <2>2, <5>1
      <4>2. \/ r[k].peer \in asked
            \/ \E i \in 1 .. k - 1 : r[i].kind = "PeerConnected" /\ r[i].peer = r[k].peer
        BY <2>5, <4>1 DEF Sent
      <4>3. CASE r[k].peer \in asked
        <5>1. KnownConnected(r[k].peer) \/ ConnectedBefore(r[k].peer, Len(channel))
          BY <1>4, <2>1, <4>3 DEF HonestInv, RequestsFollow
        <5>2. Len(channel) \in 0 .. Len(channel) /\ j - 1 \in Len(channel) .. Len(channel')
          BY <2>2, <3>2
        <5>. QED BY <2>3, <4>1, <5>1, <5>2
      <4>4. CASE \E i \in 1 .. k - 1 : r[i].kind = "PeerConnected" /\ r[i].peer = r[k].peer
        <5>1. PICK i \in 1 .. k - 1 : r[i].kind = "PeerConnected" /\ r[i].peer = r[k].peer
          BY <4>4
        <5>2. i \in 1 .. Len(r) /\ j - 1 \in Len(channel) + i .. Len(channel')
          BY <2>2, <4>1, <5>1
        <5>3. \E x \in 1 .. j - 1 : channel'[x].kind = "PeerConnected" /\ channel'[x].peer = r[k].peer
          <6>. HIDE DEF k
          <6>. QED BY <2>4, <5>1, <5>2
        <5>. QED BY <4>1, <5>3
      <4>. QED BY <4>2, <4>3, <4>4
    <3>. QED BY <2>2, <3>1, <3>2
  <2>6. ASSUME NEW p \in asked'
        PROVE  \/ KnownConnected(p)
               \/ \E i \in 1 .. Len(channel') : channel'[i].kind = "PeerConnected" /\ channel'[i].peer = p
    <3>1. CASE p \in asked
      <4>1. KnownConnected(p) \/ ConnectedBefore(p, Len(channel))
        BY <1>4, <2>1, <3>1 DEF HonestInv, RequestsFollow
      <4>2. Len(channel) \in 0 .. Len(channel) /\ Len(channel') \in Len(channel) .. Len(channel')
        BY <2>2
      <4>. QED BY <2>3, <4>1, <4>2
    <3>2. CASE p \notin asked
      <4>1. PICK i \in 1 .. Len(r) : r[i].kind = "PeerConnected" /\ r[i].peer = p
        BY <3>2 DEF Sent
      <4>2. Len(channel') \in Len(channel) + i .. Len(channel')
        BY <2>2
      <4>. QED BY <2>4, <4>1, <4>2
    <3>. QED BY <3>1, <3>2
  <2>7. \A j \in 1 .. Len(channel') : channel'[j].kind = "PeerRequest" =>
          KnownConnected(channel[j].peer)' \/ ConnectedBefore(channel[j].peer, j - 1)'
    BY <2>5 DEF ConnectedBefore, KnownConnected
  <2>8. \A p \in asked' : KnownConnected(p)' \/ ConnectedBefore(p, Len(channel))'
    BY <2>6 DEF ConnectedBefore, KnownConnected
  <2>. QED BY <2>7, <2>8
<1>5. RequestsFollow'
  BY <1>4 DEF RequestsFollow
<1>. QED BY <1>1, <1>3, <1>5 DEF HonestInv

\* The first report leaves the channel and is noted.
LEMMA HonestHandled ==
  ASSUME CollectInv, HonestInv, handle_diagnostic, ChannelStep
  PROVE  HonestInv'
<1>. DEFINE d == Head(channel)
<1>0. /\ channel \in Seq(Reports) /\ info \in Maps /\ OneCategory /\ asked \subseteq Peer
  BY DEF CollectInv, TypeInv, TypeOK, Maps
<1>1. channel # <<>> /\ channel' = Tail(channel) /\ UNCHANGED <<lagged, collecting, asked>> /\ collecting
  BY DEF handle_diagnostic, peer_vars
<1>2. /\ d \in Reports /\ d = channel[1] /\ Len(channel) \in Nat \ {0} /\ Len(channel') = Len(channel) - 1
      /\ \A i \in 1 .. Len(channel) - 1 : channel'[i] = channel[i + 1]
  BY <1>0, <1>1, HeadTailProperties, EmptySeq
<1>3. PICK e \in PeerInfo \cup {NoInfo} :
        /\ IsEntry(d.peer, e)
        /\ info'[d.type][d.peer] = Updated(d, e)
        /\ \A t \in PeerType \ {d.type} : info'[t][d.peer] = NoInfo
        /\ \A t \in PeerType, p \in Peer \ {d.peer} : info'[t][p] = info[t][p]
  BY <1>0, <1>2, ReportHandled
<1>4. d.peer \in Peer /\ d.type \in PeerType
  BY <1>2 DEF Reports
<1>. DEFINE u == Updated(d, e)
<1>5. /\ d.kind = "PeerConnected" => u # NoInfo /\ u.connected
      /\ e # NoInfo /\ e.connected => u # NoInfo /\ u.connected
      /\ e # NoInfo /\ e.requested => u.requested
      /\ u # NoInfo /\ u.requested /\ ~(e # NoInfo /\ e.requested) =>
           d.kind = "PeerRequest" /\ e # NoInfo
      /\ u # NoInfo /\ u.responded /\ ~(e # NoInfo /\ e.responded) => e # NoInfo /\ e.requested
  BY <1>2, UpdatedFacts
<1>6. info'[d.type][d.peer] = u
  BY <1>3
<1>. HIDE DEF d, u
<1>7. e # NoInfo => \E t \in PeerType : info[t][d.peer] = e
  BY <1>3 DEF IsEntry
<1>8. AnswersAsked'
  <2>1. e # NoInfo /\ e.responded => e.requested
    BY <1>4, <1>7 DEF HonestInv, AnswersAsked
  <2>2. u # NoInfo /\ u.responded => u.requested
    BY <1>5, <2>1
  <2>3. ASSUME NEW t \in PeerType, NEW p \in Peer, info'[t][p] # NoInfo, info'[t][p].responded
        PROVE  info'[t][p].requested
    <3>1. CASE p = d.peer
      BY <1>3, <1>6, <2>2, <2>3, <3>1
    <3>2. CASE p # d.peer
      BY <1>3, <2>3, <3>2 DEF HonestInv, AnswersAsked
    <3>. QED BY <3>1, <3>2
  <2>. QED BY <2>3 DEF AnswersAsked
<1>9. RequestsConnected'
  <2>. SUFFICES ASSUME ~lagged, NEW t \in PeerType, NEW p \in Peer,
                       info'[t][p] # NoInfo, info'[t][p].requested
                PROVE  info'[t][p].connected
    BY <1>1 DEF RequestsConnected
  <2>1. e # NoInfo /\ e.requested => e.connected
    BY <1>4, <1>7 DEF HonestInv, RequestsConnected
  <2>2. d.kind = "PeerRequest" => KnownConnected(d.peer)
    <3>1. d.kind = "PeerRequest" => KnownConnected(d.peer) \/ ConnectedBefore(d.peer, 1 - 1)
      BY <1>1, <1>2 DEF HonestInv, RequestsFollow
    <3>. QED BY <3>1 DEF ConnectedBefore
  <2>3. d.kind = "PeerRequest" => e # NoInfo /\ e.connected
    <3>1. ASSUME KnownConnected(d.peer) PROVE e # NoInfo /\ e.connected
      <4>1. PICK v \in PeerType : info[v][d.peer] # NoInfo /\ info[v][d.peer].connected
        BY <3>1 DEF KnownConnected
      <4>2. info[v][d.peer] = e
        BY <1>3, <4>1 DEF IsEntry
      <4>. QED BY <4>1, <4>2
    <3>. QED BY <2>2, <3>1
  <2>4. u # NoInfo /\ u.requested => u.connected
    BY <1>5, <2>1, <2>3
  <2>5. CASE p = d.peer
    BY <1>3, <1>6, <2>4, <2>5
  <2>6. CASE p # d.peer
    BY <1>3, <2>6 DEF HonestInv, RequestsConnected
  <2>. QED BY <2>5, <2>6
<1>10. ASSUME NEW p \in Peer, NEW n \in 1 .. Len(channel), ConnectedBefore(p, n)
       PROVE  KnownConnected(p)' \/ ConnectedBefore(p, n - 1)'
  <2>1. PICK i \in 1 .. n : channel[i].kind = "PeerConnected" /\ channel[i].peer = p
    BY <1>10 DEF ConnectedBefore
  <2>2. CASE i = 1
    <3>1. d.kind = "PeerConnected" /\ d.peer = p
      BY <1>2, <2>1, <2>2
    <3>2. info'[d.type][p] # NoInfo /\ info'[d.type][p].connected
      BY <1>5, <1>6, <3>1
    <3>. QED BY <1>4, <3>2 DEF KnownConnected
  <2>3. CASE i # 1
    <3>1. i - 1 \in 1 .. n - 1 /\ i - 1 \in 1 .. Len(channel) - 1 /\ (i - 1) + 1 = i
      BY <1>2, <2>1, <2>3
    <3>2. channel'[i - 1] = channel[i]
      BY <1>2, <3>1
    <3>3. \E k \in 1 .. n - 1 : channel'[k].kind = "PeerConnected" /\ channel'[k].peer = p
      BY <2>1, <3>1, <3>2
    <3>. QED BY <3>3 DEF ConnectedBefore
  <2>. QED BY <2>2, <2>3
<1>11. RequestsFollow'
  <2>. SUFFICES ASSUME ~lagged
                PROVE  /\ \A j \in 1 .. Len(channel') : channel'[j].kind = "PeerRequest" =>
                            KnownConnected(channel[j].peer)' \/ ConnectedBefore(channel[j].peer, j - 1)'
                       /\ \A p \in asked' : KnownConnected(p)' \/ ConnectedBefore(p, Len(channel))'
    BY <1>1 DEF RequestsFollow
  <2>1. ASSUME NEW j \in 1 .. Len(channel'), channel'[j].kind = "PeerRequest"
        PROVE  KnownConnected(channel[j].peer)' \/ ConnectedBefore(channel[j].peer, j - 1)'
    <3>1. /\ j + 1 \in 1 .. Len(channel) /\ j \in 1 .. Len(channel) /\ (j + 1) - 1 = j
          /\ channel'[j] = channel[j + 1]
      BY <1>2
    <3>2. PICK p \in Peer : p = channel'[j].peer
      <4>1. channel[j + 1] \in Reports
        BY <1>0, <3>1
      <4>. QED BY <3>1, <4>1 DEF Reports
    <3>3. KnownConnected(p) \/ ConnectedBefore(p, j)
      BY <1>1, <2>1, <3>1, <3>2 DEF HonestInv, RequestsFollow
    <3>4. KnownConnected(p)' \/ ConnectedBefore(p, j - 1)'
      BY <1>10, <3>1, <3>3, KnownStays
    <3>. QED BY <3>2, <3>4 DEF KnownConnected, ConnectedBefore
  <2>2. ASSUME NEW p \in asked'
        PROVE  KnownConnected(p)' \/ ConnectedBefore(p, Len(channel))'
    <3>1. p \in Peer /\ p \in asked /\ Len(channel) \in 1 .. Len(channel)
      BY <1>0, <1>1, <1>2
    <3>2. KnownConnected(p) \/ ConnectedBefore(p, Len(channel))
      BY <1>1, <3>1 DEF HonestInv, RequestsFollow
    <3>3. ConnectedBefore(p, Len(channel)) =>
            KnownConnected(p)' \/ \E i \in 1 .. Len(channel') :
                                    channel'[i].kind = "PeerConnected" /\ channel'[i].peer = p
      BY <1>2, <1>10, <3>1 DEF ConnectedBefore
    <3>. QED BY <3>1, <3>2, <3>3, KnownStays DEF ConnectedBefore
  <2>. QED BY <2>1, <2>2
<1>. QED BY <1>8, <1>9, <1>11 DEF HonestInv

LEMMA NextHonestInv ==
  ASSUME CollectInv, HonestInv, ChannelStep
  PROVE  HonestInv'
<1>1. CASE UNCHANGED <<channel, lagged, info, collecting>> /\ asked' \subseteq asked
  <2>1. AnswersAsked' /\ RequestsConnected'
    BY <1>1 DEF HonestInv, AnswersAsked, RequestsConnected
  <2>2. RequestsFollow'
    BY <1>1 DEF HonestInv, RequestsFollow, KnownConnected, ConnectedBefore
  <2>. QED BY <2>1, <2>2 DEF HonestInv
<1>2. CASE CollectorStops
  <2>1. UNCHANGED <<info, lagged>> /\ ~collecting'
    BY <1>2 DEF CollectorStops
  <2>. QED BY <2>1 DEF HonestInv, AnswersAsked, RequestsConnected, RequestsFollow
<1>. QED BY <1>1, <1>2, HonestHandled, HonestSent DEF ChannelStep

LEMMA InitHonestInv == Init => HonestInv
BY EmptySeq DEF Init, HonestInv, AnswersAsked, RequestsConnected, RequestsFollow

\* As long as the collector has kept up with the reports, no peer counts as
\* having answered that does not count as connected (diagnostics_collector.rs,
\* handle_diagnostic).
THEOREM AnswersConnected == Spec => []ResponsesConnected
<1>1. CollectInv /\ HonestInv /\ [Next]_vars => (CollectInv /\ HonestInv)'
  BY NextCollectInv, NextHonestInv
<1>2. HonestInv => ResponsesConnected
  BY DEF HonestInv, AnswersAsked, RequestsConnected, ResponsesConnected, Responded, Connected, Infos
<1>. QED BY <1>1, <1>2, InitCollectInv, InitHonestInv, PTL DEF Spec

-----------------------------------------------------------------------------
(* A seed answered before the loop turns to the squad.                     *)

\* Seeds are known from the first tick on: a report of a seed under another
\* type was sent before it, so it comes before all reports of seeds as such.
SeedsKnown ==
  Infos("SeedPeer") # {} => Infos("SeedPeer") \subseteq Seed /\ dialed_seed_peers = Seed
SeedsReported ==
  \A i \in 1 .. Len(channel) :
    channel[i].type = "SeedPeer" => channel[i].peer \in Seed /\ dialed_seed_peers = Seed
SeedsOrdered ==
  \A i, j \in 1 .. Len(channel) : i < j /\ channel[i].type = "SeedPeer" =>
    (channel[j].type = "SeedPeer" <=> channel[j].peer \in Seed)
SeedsStay ==
  Infos("SeedPeer") # {} =>
    \A j \in 1 .. Len(channel) : channel[j].type = "SeedPeer" <=> channel[j].peer \in Seed

SeedInv == SeedsKnown /\ SeedsReported /\ SeedsOrdered /\ SeedsStay

\* With what is sent, each report is an old one or a new one.
LEMMA SeedSent ==
  ASSUME CollectInv, SeedInv, ChannelStep, UNCHANGED <<info, collecting>>, NEW r, Sent(r)
  PROVE  SeedInv'
<1>0. /\ channel \in Seq(Reports) /\ lagged \in BOOLEAN /\ collecting \in BOOLEAN
      /\ r \in Seq(Reports) /\ Broadcast(r)
  BY DEF CollectInv, TypeInv, TypeOK, Sent
<1>1. /\ dialed_seed_peers = Seed => dialed_seed_peers' = Seed
      /\ dialed_seed_peers' \in {{}, Seed}
  BY DEF ChannelStep, CollectInv, TypeInv, TypeOK
<1>2. Infos("SeedPeer")' = Infos("SeedPeer")
  BY DEF Infos
<1>3. SeedsKnown'
  BY <1>1, <1>2 DEF SeedInv, SeedsKnown
<1>4. CASE ~collecting
  <2>1. channel' = <<>>
    BY <1>0, <1>4, BroadcastEffect
  <2>2. Len(channel') = 0
    BY <2>1
  <2>. QED BY <1>3, <2>2 DEF SeedInv, SeedsReported, SeedsOrdered, SeedsStay
<1>5. CASE collecting
  <2>1. PICK n \in Nat :
          /\ Len(channel') + n = Len(channel) + Len(r)
          /\ \A i \in 1 .. Len(channel') : channel'[i] = (channel \o r)[i + n]
    BY <1>0, <1>5, BroadcastEffect
  <2>2. channel' \in Seq(Reports) /\ Len(channel') \in Nat /\ Len(channel) \in Nat /\ Len(r) \in Nat
    BY <1>0, BroadcastEffect
  \* Where report i comes from.
  <2>3. ASSUME NEW i \in 1 .. Len(channel')
        PROVE  \/ i + n \in 1 .. Len(channel) /\ channel'[i] = channel[i + n]
               \/ /\ i + n > Len(channel) /\ (i + n) - Len(channel) \in 1 .. Len(r)
                  /\ channel'[i] = r[(i + n) - Len(channel)]
    <3>1. i + n \in 1 .. Len(channel) + Len(r)
      BY <2>1, <2>2
    <3>2. (channel \o r)[i + n] = IF i + n <= Len(channel) THEN channel[i + n]
                                                          ELSE r[(i + n) - Len(channel)]
      BY <1>0, <3>1, ConcatProperties
    <3>3. channel'[i] = IF i + n <= Len(channel) THEN channel[i + n] ELSE r[(i + n) - Len(channel)]
      BY <2>1, <3>2
    <3>4. CASE i + n <= Len(channel)
      BY <2>2, <3>1, <3>3, <3>4
    <3>5. CASE ~(i + n <= Len(channel))
      BY <2>2, <3>1, <3>3, <3>5
    <3>. QED BY <3>4, <3>5
  <2>4. \A i \in 1 .. Len(r) : r[i].type = "SeedPeer" <=> r[i].peer \in dialed_seed_peers'
    BY DEF Sent
  <2>5. SeedsReported'
    <3>. SUFFICES ASSUME NEW i \in 1 .. Len(channel'), channel'[i].type = "SeedPeer"
                  PROVE  channel'[i].peer \in Seed /\ dialed_seed_peers' = Seed
      BY DEF SeedsReported
    <3>1. CASE i + n \in 1 .. Len(channel) /\ channel'[i] = channel[i + n]
      BY <1>1, <3>1 DEF SeedInv, SeedsReported
    <3>2. CASE (i + n) - Len(channel) \in 1 .. Len(r) /\ channel'[i] = r[(i + n) - Len(channel)]
      BY <1>1, <2>4, <3>2
    <3>. QED BY <2>3, <3>1, <3>2
  <2>6. SeedsOrdered'
    <3>. SUFFICES ASSUME NEW i \in 1 .. Len(channel'), NEW j \in 1 .. Len(channel'),
                         i < j, channel'[i].type = "SeedPeer"
                  PROVE  channel'[j].type = "SeedPeer" <=> channel'[j].peer \in Seed
      BY DEF SeedsOrdered
    <3>1. dialed_seed_peers' = Seed
      BY <2>5 DEF SeedsReported
    <3>2. CASE j + n \in 1 .. Len(channel) /\ channel'[j] = channel[j + n]
      <4>1. i + n \in 1 .. Len(channel) /\ i + n < j + n /\ channel'[i] = channel[i + n]
        BY <2>2, <2>3, <3>2
      <4>. QED BY <3>2, <4>1 DEF SeedInv, SeedsOrdered
    <3>3. CASE (j + n) - Len(channel) \in 1 .. Len(r) /\ channel'[j] = r[(j + n) - Len(channel)]
      BY <2>4, <3>1, <3>3
    <3>. QED BY <2>3, <3>2, <3>3
  <2>7. SeedsStay'
    <3>. SUFFICES ASSUME Infos("SeedPeer") # {}, NEW j \in 1 .. Len(channel')
                  PROVE  channel'[j].type = "SeedPeer" <=> channel'[j].peer \in Seed
      BY <1>2 DEF SeedsStay
    <3>1. dialed_seed_peers' = Seed
      BY <1>1 DEF SeedInv, SeedsKnown
    <3>2. CASE j + n \in 1 .. Len(channel) /\ channel'[j] = channel[j + n]
      BY <3>2 DEF SeedInv, SeedsStay
    <3>3. CASE (j + n) - Len(channel) \in 1 .. Len(r) /\ channel'[j] = r[(j + n) - Len(channel)]
      BY <2>4, <3>1, <3>3
    <3>. QED BY <2>3, <3>2, <3>3
  <2>. QED BY <1>3, <2>5, <2>6, <2>7 DEF SeedInv
<1>. QED BY <1>0, <1>4, <1>5

\* A seed that is known as such keeps its entry, whatever is reported of it.
LEMMA SeedEntriesStay ==
  ASSUME CollectInv, SeedInv, ChannelStep, NEW p \in Infos("SeedPeer")
  PROVE  p \in Infos("SeedPeer")' /\ (p \in Responded("SeedPeer") => p \in Responded("SeedPeer")')
<1>0. /\ channel \in Seq(Reports) /\ info \in Maps /\ OneCategory /\ p \in Peer
      /\ "SeedPeer" \in PeerType
  BY DEF CollectInv, TypeInv, TypeOK, Maps, Infos, PeerType
<1>1. CASE info' = info
  BY <1>1 DEF Infos, Responded
<1>2. CASE handle_diagnostic
  <2>. DEFINE d == Head(channel)
  <2>1. /\ d \in Reports /\ d = channel[1] /\ 1 \in 1 .. Len(channel)
    BY <1>0, <1>2, HeadTailProperties, EmptySeq DEF handle_diagnostic
  <2>2. PICK e \in PeerInfo \cup {NoInfo} :
          /\ IsEntry(d.peer, e)
          /\ info'[d.type][d.peer] = Updated(d, e)
          /\ \A v \in PeerType, q \in Peer \ {d.peer} : info'[v][q] = info[v][q]
    BY <1>0, <1>2, <2>1, ReportHandled
  <2>. HIDE DEF d
  <2>3. CASE p = d.peer
    <3>1. d.type = "SeedPeer"
      BY <2>1, <2>3 DEF SeedInv, SeedsKnown, SeedsStay
    <3>2. info["SeedPeer"][p] = e /\ e # NoInfo
      BY <1>0, <2>2, <2>3 DEF IsEntry, Infos
    <3>3. Updated(d, e) # NoInfo /\ (e.responded => Updated(d, e).responded)
      BY <2>1, <2>2, <3>2, UpdatedFacts
    <3>4. info'["SeedPeer"][p] = Updated(d, e)
      BY <2>2, <2>3, <3>1
    <3>. QED BY <1>0, <3>2, <3>3, <3>4 DEF Infos, Responded
  <2>4. CASE p # d.peer
    <3>1. info'["SeedPeer"][p] = info["SeedPeer"][p]
      BY <1>0, <2>2, <2>4
    <3>. QED BY <1>0, <3>1 DEF Infos, Responded
  <2>. QED BY <2>3, <2>4
<1>. QED BY <1>1, <1>2 DEF ChannelStep, CollectorStops

LEMMA SeedHandled ==
  ASSUME CollectInv, SeedInv, handle_diagnostic
  PROVE  SeedInv'
<1>. DEFINE d == Head(channel)
<1>0. /\ channel \in Seq(Reports) /\ info \in Maps /\ OneCategory /\ "SeedPeer" \in PeerType
  BY DEF CollectInv, TypeInv, TypeOK, Maps, PeerType
<1>1. channel # <<>> /\ channel' = Tail(channel) /\ UNCHANGED dialed_seed_peers
  BY DEF handle_diagnostic, loop_vars
<1>2. /\ d \in Reports /\ d = channel[1] /\ Len(channel) \in Nat \ {0} /\ Len(channel') = Len(channel) - 1
      /\ \A i \in 1 .. Len(channel) - 1 : channel'[i] = channel[i + 1]
  BY <1>0, <1>1, HeadTailProperties, EmptySeq
<1>3. /\ \A t \in PeerType \ {d.type} : info'[t][d.peer] = NoInfo
      /\ \A t \in PeerType, p \in Peer \ {d.peer} : info'[t][p] = info[t][p]
  BY <1>0, <1>2, ReportHandled
<1>. HIDE DEF d
<1>4. \A i \in 1 .. Len(channel') : i + 1 \in 1 .. Len(channel) /\ channel'[i] = channel[i + 1]
  BY <1>2
<1>5. SeedsReported'
  BY <1>1, <1>4 DEF SeedInv, SeedsReported
<1>6. SeedsOrdered'
  <2>. SUFFICES ASSUME NEW i \in 1 .. Len(channel'), NEW j \in 1 .. Len(channel'),
                       i < j, channel'[i].type = "SeedPeer"
                PROVE  channel'[j].type = "SeedPeer" <=> channel'[j].peer \in Seed
    BY DEF SeedsOrdered
  <2>1. i + 1 < j + 1
    BY <1>2
  <2>. QED BY <1>4, <2>1 DEF SeedInv, SeedsOrdered
<1>7. CASE d.type = "SeedPeer"
  <2>1. 1 \in 1 .. Len(channel) /\ \A j \in 1 .. Len(channel') : 1 < j + 1
    BY <1>2
  <2>2. d.peer \in Seed /\ dialed_seed_peers = Seed
    BY <1>2, <1>7, <2>1 DEF SeedInv, SeedsReported
  <2>3. \A p \in Infos("SeedPeer")' : p = d.peer \/ p \in Infos("SeedPeer")
    BY <1>0, <1>3 DEF Infos
  <2>4. SeedsKnown'
    BY <1>1, <2>2, <2>3 DEF SeedInv, SeedsKnown
  <2>5. SeedsStay'
    BY <1>2, <1>4, <1>7, <2>1 DEF SeedInv, SeedsOrdered, SeedsStay
  <2>. QED BY <1>5, <1>6, <2>4, <2>5 DEF SeedInv
<1>8. CASE d.type # "SeedPeer"
  <2>1. Infos("SeedPeer")' \subseteq Infos("SeedPeer")
    BY <1>0, <1>3, <1>8 DEF Infos
  <2>2. SeedsKnown'
    BY <1>1, <2>1 DEF SeedInv, SeedsKnown
  <2>3. SeedsStay'
    BY <1>4, <2>1 DEF SeedInv, SeedsStay
  <2>. QED BY <1>5, <1>6, <2>2, <2>3 DEF SeedInv
<1>. QED BY <1>7, <1>8

LEMMA NextSeedInv ==
  ASSUME CollectInv, SeedInv, ChannelStep
  PROVE  SeedInv'
<1>1. CASE UNCHANGED <<channel, lagged, info, collecting>>
  BY <1>1 DEF ChannelStep, SeedInv, SeedsKnown, SeedsReported, SeedsOrdered, SeedsStay, Infos
<1>2. CASE CollectorStops
  <2>1. Len(channel') = 0 /\ UNCHANGED <<info, dialed_seed_peers>>
    BY <1>2, EmptySeq DEF CollectorStops, loop_vars
  <2>. QED BY <2>1 DEF SeedInv, SeedsKnown, SeedsReported, SeedsOrdered, SeedsStay, Infos
<1>. QED BY <1>1, <1>2, SeedHandled, SeedSent DEF ChannelStep

\* The collector runs until the shutdown, and the loop waits for the downloads
\* of the seeds only when it knows one.
CollectorRuns == ~shutdown => collecting
SeedsAskedFor ==
  diagnostic_state \in {"ConnectToSeedPeers", "WaitForSeedPeersDownload"} => asking \in {"none", "SeedPeer"}
SeedToWaitFor ==
  ~shutdown /\ diagnostic_state = "WaitForSeedPeersDownload" => Infos("SeedPeer") # {}

LoopInv == CollectorRuns /\ SeedsAskedFor /\ SeedToWaitFor /\ SeedsAnswered

LoopStep ==
  /\ shutdown => shutdown'
  /\ \/ UNCHANGED <<diagnostic_state, asking>>
     \/ diagnostic_state' = "Ended"
     \/ diagnostic_state' = diagnostic_state /\ asking' = Wanted(diagnostic_state)
     \/ diagnostic_state = "Done" /\ diagnostic_state' = "Done"
     \/ AnswerQuestion

LEMMA LoopSteps ==
  ASSUME CollectInv, [Next]_vars
  PROVE  LoopStep
<1>. USE DEF LoopStep, loop_vars
<1>1. CASE \E p \in Peer : Dialing(p) \/ ConnectionEstablished(p)
  BY <1>1 DEF Dialing, ConnectionEstablished
<1>2. CASE \E p \in Other : Identified(p)
  BY <1>2 DEF Identified
<1>3. CASE \E p \in Peer, q \in SUBSET Peer, o \in SUBSET Other : PeerExchangeResponse(p, q, o)
  BY <1>3 DEF PeerExchangeResponse
<1>4. CASE handle_diagnostic
  BY <1>4 DEF handle_diagnostic
<1>5. CASE CollectorStops
  BY <1>5 DEF CollectorStops
<1>6. CASE Tick
  BY <1>6 DEF Tick
<1>7. CASE ParseFails
  BY <1>7 DEF ParseFails
<1>8. CASE AnswerQuestion
  BY <1>8 DEF AnswerQuestion
<1>9. CASE AnswerReport
  <2>1. shutdown => shutdown'
    BY <1>9, Zenon DEF AnswerReport
  <2>. QED BY <1>9, <2>1 DEF AnswerReport
<1>10. CASE Interrupt
  BY <1>10 DEF Interrupt
<1>11. CASE ShutDown
  BY <1>11 DEF ShutDown
<1>12. CASE UNCHANGED vars
  BY <1>12 DEF vars
<1>. QED
  BY <1>1, <1>2, <1>3, <1>4, <1>5, <1>6, <1>7, <1>8, <1>9, <1>10, <1>11, <1>12 DEF Next

Squad == {"ConnectToPrivatePeers", "WaitForPrivatePeersDownload",
          "ConnectToRelayPeers", "WaitForRelayPeersDownload"}

\* The only way to the squad is past a seed that answered.
LEMMA AnswerDecides ==
  ASSUME CollectInv, LoopInv, AnswerQuestion, ~shutdown
  PROVE  /\ diagnostic_state' = "WaitForSeedPeersDownload" => Infos("SeedPeer") # {}
         /\ diagnostic_state' \in Squad => Responded("SeedPeer") # {}
<1>1. collecting /\ diagnostic_state \in State \ {"Ended", "Done"} /\ asking # "none"
  BY DEF LoopInv, CollectorRuns, AnswerQuestion, CollectInv, TypeInv, TypeOK
<1>2. CASE diagnostic_state = "ConnectToSeedPeers"
  <2>1. asking = "SeedPeer"
    BY <1>1, <1>2 DEF LoopInv, SeedsAskedFor
  <2>2. ConnectedAnswer(elapsed > CONNECT_INITIAL_WAIT /\ Connected(asking) # {})
    BY <1>1, <1>2 DEF AnswerQuestion
  <2>3. \/ Connected("SeedPeer") # {} /\ diagnostic_state' = "WaitForSeedPeersDownload"
        \/ diagnostic_state' \in {"Done", "ConnectToSeedPeers"}
    BY <1>2, <2>1, <2>2
    DEF ConnectedAnswer, Succeed, Fail, Stay, success_next_state, failed_next_state
  <2>4. Connected("SeedPeer") \subseteq Infos("SeedPeer")
    BY DEF Connected
  <2>. QED BY <2>3, <2>4 DEF Squad
<1>3. CASE diagnostic_state = "WaitForSeedPeersDownload"
  <2>1. asking = "SeedPeer" /\ Infos("SeedPeer") # {}
    BY <1>1, <1>3 DEF LoopInv, SeedsAskedFor, SeedToWaitFor
  <2>2. ResponsesAnswer(Responded("SeedPeer") = Infos("SeedPeer"), Responded("SeedPeer"))
    BY <1>1, <1>3, <2>1 DEF AnswerQuestion
  <2>3. \/ Responded("SeedPeer") # {}
        \/ diagnostic_state' \in {"Done", "WaitForSeedPeersDownload"}
    BY <1>3, <2>1, <2>2
    DEF ResponsesAnswer, Succeed, Fail, Stay, success_next_state, failed_next_state
  <2>. QED BY <2>1, <2>3 DEF Squad
<1>4. CASE diagnostic_state \in Squad
  <2>1. Responded("SeedPeer") # {}
    BY <1>4 DEF LoopInv, SeedsAnswered, Squad
  <2>2. Succeed \/ Fail \/ Stay
    BY <1>1 DEF AnswerQuestion, ConnectedAnswer, ResponsesAnswer
  <2>3. diagnostic_state' # "WaitForSeedPeersDownload"
    BY <1>4, <2>2 DEF Squad, Succeed, Fail, Stay, success_next_state, failed_next_state
  <2>. QED BY <2>1, <2>3
<1>. QED BY <1>1, <1>2, <1>3, <1>4 DEF State, Squad

LEMMA NextLoopInv ==
  ASSUME CollectInv, SeedInv, LoopInv, [Next]_vars
  PROVE  LoopInv'
<1>1. ChannelStep /\ LoopStep
  BY NextCollectInv, LoopSteps
<1>2. shutdown => shutdown'
  BY <1>1 DEF LoopStep
<1>3. CollectorRuns'
  <2>1. collecting' = collecting \/ shutdown
    BY <1>1 DEF ChannelStep, handle_diagnostic, CollectorStops
  <2>. QED BY <1>2, <2>1 DEF LoopInv, CollectorRuns
<1>4. /\ Infos("SeedPeer") # {} => Infos("SeedPeer")' # {}
      /\ Responded("SeedPeer") # {} => Responded("SeedPeer")' # {}
  <2>1. Responded("SeedPeer") \subseteq Infos("SeedPeer")
    BY DEF Responded
  <2>. QED BY <1>1, <2>1, SeedEntriesStay
<1>5. SeedsAskedFor'
  <2>1. AnswerQuestion => asking' = "none"
    BY DEF AnswerQuestion
  <2>. QED BY <1>1, <2>1 DEF LoopStep, LoopInv, SeedsAskedFor, Wanted
<1>6. SeedToWaitFor' /\ SeedsAnswered'
  <2>. SUFFICES ASSUME ~shutdown'
                PROVE  /\ diagnostic_state' = "WaitForSeedPeersDownload" => Infos("SeedPeer")' # {}
                       /\ diagnostic_state' \in Squad => Responded("SeedPeer")' # {}
    BY DEF SeedToWaitFor, SeedsAnswered, Squad
  <2>1. CASE AnswerQuestion
    BY <1>2, <1>4, <2>1, AnswerDecides
  <2>2. CASE diagnostic_state' = diagnostic_state
    BY <1>2, <1>4, <2>2 DEF LoopInv, SeedToWaitFor, SeedsAnswered, Squad
  <2>3. CASE diagnostic_state' \in {"Ended", "Done"}
    BY <2>3 DEF Squad
  <2>. QED BY <1>1, <2>1, <2>2, <2>3 DEF LoopStep
<1>. QED BY <1>3, <1>5, <1>6 DEF LoopInv

LEMMA InitSeedInv == Init => SeedInv /\ LoopInv
<1>. SUFFICES ASSUME Init PROVE SeedInv /\ LoopInv
  OBVIOUS
<1>1. Infos("SeedPeer") = {} /\ Len(channel) = 0
  BY EmptySeq DEF Init, Infos, PeerType
<1>2. SeedInv
  BY <1>1 DEF SeedInv, SeedsKnown, SeedsReported, SeedsOrdered, SeedsStay
<1>3. LoopInv
  BY DEF Init, LoopInv, CollectorRuns, SeedsAskedFor, SeedToWaitFor, SeedsAnswered
<1>. QED BY <1>2, <1>3

\* Until the node shuts down, the loop turns to the peers of its squad only
\* once a seed has answered, even if the seeds are named as members of the
\* squad, relays or unknown while reports of them are on their way
\* (network.rs, main_loop_diagnostic_mode).
THEOREM SeedsAnswerFirst == Spec => []SeedsAnswered
<1>1. CollectInv /\ SeedInv /\ LoopInv /\ [Next]_vars => (CollectInv /\ SeedInv /\ LoopInv)'
  BY NextCollectInv, NextSeedInv, NextLoopInv
<1>. QED BY <1>1, InitCollectInv, InitSeedInv, PTL DEF Spec, LoopInv
=============================================================================
