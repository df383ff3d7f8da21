--------------------------- MODULE PeerStoreProofs ---------------------------
(***************************************************************************)
(* Proofs about PeerStore for any number of peers, any set of seed peers   *)
(* and any positive MAX_GREY_LISTINGS.  The four invariants are proved     *)
(* together: GreyListingsBounded needs the types of the lists, and moving  *)
(* a record between lists keeps ListsDisjoint only because the source list *)
(* gave it up.                                                             *)
(***************************************************************************)
EXTENDS PeerStore, TLAPS

IInv == TypeOK /\ ListsDisjoint /\ GreyListingsBounded /\ SeedsForgiven

\* NoRecord is distinguishable from every record.
LEMMA NoRecordDistinct == NoRecord \notin Record
  BY PeerStoreAssumption DEF Record

\* The empty store satisfies the invariant.
LEMMA InitIInv == Init => IInv
  BY PeerStoreAssumption
  DEF Init, IInv, TypeOK, ListsDisjoint, GreyListingsBounded, SeedsForgiven, Map, Empty, Has

\* Every handler of the peer store preserves the invariant.
LEMMA NextIInv == IInv /\ [Next]_vars => IInv'
  <1> SUFFICES ASSUME IInv, [Next]_vars PROVE IInv'
    OBVIOUS
  <1> USE PeerStoreAssumption, NoRecordDistinct DEF IInv, TypeOK, ListsDisjoint,
          GreyListingsBounded, SeedsForgiven, Map, Has, Put, Remove, Empty
  <1>1. ASSUME NEW p \in Peer, AddNonSquad(p) PROVE IInv'
    BY <1>1 DEF AddNonSquad, NewRecord, Record
  <1>2. ASSUME NEW p \in Peer, AddSeed(p) PROVE IInv'
    BY <1>2 DEF AddSeed, NewRecord, Record
  <1>3. ASSUME NEW p \in Peer, AddSameSquad(p) PROVE IInv'
    BY <1>3 DEF AddSameSquad, NewRecord, Record
  <1>4. ASSUME NEW p \in Peer, set_last_ping(p) PROVE IInv'
    BY <1>4 DEF set_last_ping, Record
  <1>5. ASSUME NEW p \in Peer, move_to_grey_list(p) PROVE IInv'
    BY <1>5 DEF move_to_grey_list, Record
  <1>6. ASSUME NEW p \in Peer, move_to_blacklist(p) PROVE IInv'
    BY <1>6 DEF move_to_blacklist, Record
  <1>7. ASSUME NEW p \in Peer, add_catch_up_attempt(p) PROVE IInv'
    BY <1>7 DEF add_catch_up_attempt, Record
  <1>8. ASSUME NEW p \in Peer, reset_catch_up_attempts(p) PROVE IInv'
    BY <1>8 DEF reset_catch_up_attempts, Record
  <1>9. CASE clear_grey_list
    BY <1>9 DEF clear_grey_list, Record
  <1>10. CASE clear_black_list
    BY <1>10 DEF clear_black_list, NewRecord, Record
  <1>11. CASE UNCHANGED vars
    BY <1>11 DEF vars
  <1> QED
    BY <1>1, <1>2, <1>3, <1>4, <1>5, <1>6, <1>7, <1>8, <1>9, <1>10, <1>11 DEF Next

\* The strengthened invariant holds in every reachable state.
LEMMA Invariance == Spec => []IInv
  BY InitIInv, NextIInv, PTL DEF Spec

\* For every set of peers, the four maps of the peer store keep their type.
THEOREM TypeCorrect == Spec => []TypeOK
  BY Invariance, PTL DEF IInv

\* For every set of peers and seeds, a peer that is not a seed is on at most one
\* of the whitelist, the greylist and the blacklist.
THEOREM Disjointness == Spec => []ListsDisjoint
  BY Invariance, PTL DEF IInv

\* For every positive MAX_GREY_LISTINGS, no trusted peer has reached it.
THEOREM GreyListingBound == Spec => []GreyListingsBounded
  BY Invariance, PTL DEF IInv

\* For every MAX_GREY_LISTINGS above one, the failures of a seed never add up, so
\* the greylist timer never bans a seed.
THEOREM SeedForgiveness == Spec => []SeedsForgiven
  BY Invariance, PTL DEF IInv

\* A step that ends one ban ends all of them.
THEOREM BanExpiry == Spec => BansOnlyExpire
  <1>1. ASSUME IInv, [Next]_vars
        PROVE  [\A p \in Peer \ Seed :
                  Has(blacklist_peers, p) /\ ~Has(blacklist_peers', p) => blacklist_peers' = Empty]_vars
    BY <1>1, NoRecordDistinct
    DEF IInv, TypeOK, ListsDisjoint, Map, Next, vars, Has, Put, Remove, AddNonSquad, AddSeed,
        AddSameSquad, set_last_ping, move_to_grey_list, move_to_blacklist,
        add_catch_up_attempt, reset_catch_up_attempts, clear_grey_list, clear_black_list
  <1> QED
    BY <1>1, Invariance, PTL DEF Spec, BansOnlyExpire

\* No step forgets a peer that is not a seed.
THEOREM Remembering == Spec => PeersNeverForgotten
  <1>1. ASSUME IInv, [Next]_vars
        PROVE  [\A p \in Peer \ Seed : KnownSameSquad(p) => KnownSameSquad(p)']_vars
    <2> SUFFICES ASSUME NEW q \in Peer \ Seed, KnownSameSquad(q), Next
                 PROVE  KnownSameSquad(q)'
      BY <1>1
    <2> USE NoRecordDistinct DEF IInv, TypeOK, Map, KnownSameSquad, Has, Put, Remove, Record, NewRecord
    <2>1. CASE \E p \in Peer : AddNonSquad(p) \/ AddSeed(p) \/ AddSameSquad(p)
      BY <1>1, <2>1 DEF AddNonSquad, AddSeed, AddSameSquad
    <2>2. ASSUME NEW p \in Peer, set_last_ping(p) PROVE KnownSameSquad(q)'
      BY <1>1, <2>2 DEF set_last_ping
    <2>3. ASSUME NEW p \in Peer, move_to_grey_list(p) PROVE KnownSameSquad(q)'
      BY <1>1, <2>3 DEF move_to_grey_list
    <2>4. ASSUME NEW p \in Peer, move_to_blacklist(p) PROVE KnownSameSquad(q)'
      BY <1>1, <2>4 DEF move_to_blacklist
    <2>5. ASSUME NEW p \in Peer, add_catch_up_attempt(p) \/ reset_catch_up_attempts(p)
          PROVE  KnownSameSquad(q)'
      BY <1>1, <2>5 DEF add_catch_up_attempt, reset_catch_up_attempts
    <2>6. CASE clear_grey_list
      BY <1>1, <2>6 DEF clear_grey_list
    <2>7. CASE clear_black_list
      BY <1>1, <2>7 DEF clear_black_list
    <2> QED
      BY <2>1, <2>2, <2>3, <2>4, <2>5, <2>6, <2>7 DEF Next
  <1> QED
    BY <1>1, Invariance, PTL DEF Spec, PeersNeverForgotten

\* Every step of the store is a step of the lists without counters, or leaves them
\* alone: PeerStore implements PeerLists for every set of peers and seeds.
THEOREM Refinement == Spec => ImplementsPeerLists
  <1> USE NoRecordDistinct DEF Has
  <1>1. Init => Lists!InitLists
    BY DEF Init, Empty, Lists!InitLists
  <1>2. ASSUME IInv, [Next]_vars PROVE [Lists!Next]_Lists!list_vars
    <2> USE DEF IInv, TypeOK, Map, Put, Remove, Record, NewRecord
    <2>1. ASSUME NEW p \in Peer, AddNonSquad(p) PROVE Lists!Add(p, FALSE)
      BY <1>2, <2>1 DEF AddNonSquad, Lists!Add
    <2>2. ASSUME NEW p \in Peer, AddSeed(p) PROVE Lists!Add(p, TRUE)
      BY <1>2, <2>2 DEF AddSeed, Lists!Add
    <2>3. ASSUME NEW p \in Peer, AddSameSquad(p) PROVE Lists!Add(p, TRUE)
      BY <1>2, <2>3 DEF AddSameSquad, Lists!Add, Lists!KnownSquad
    <2>4. ASSUME NEW p \in Peer, set_last_ping(p) PROVE Lists!Restore(p)
      BY <1>2, <2>4 DEF set_last_ping, Lists!Restore
    <2>5. ASSUME NEW p \in Peer, move_to_grey_list(p) PROVE Lists!Fail(p)
      BY <1>2, <2>5 DEF move_to_grey_list, Lists!Fail
    <2>6. ASSUME NEW p \in Peer, move_to_blacklist(p) PROVE Lists!Ban(p)
      BY <1>2, <2>6 DEF move_to_blacklist, Lists!Ban
    <2>7. ASSUME NEW p \in Peer, add_catch_up_attempt(p) \/ reset_catch_up_attempts(p)
          PROVE  UNCHANGED Lists!list_vars
      BY <1>2, <2>7 DEF add_catch_up_attempt, reset_catch_up_attempts, Lists!list_vars
    <2>8. CASE clear_grey_list
      <3> DEFINE failed == {p \in Peer : /\ Has(greylist_peers, p)
                                         /\ greylist_peers[p].num_grey_listings >= MAX_GREY_LISTINGS}
      <3>1. Lists!ClearGrey(failed)
        BY <1>2, <2>8 DEF clear_grey_list, Empty, Lists!ClearGrey
      <3>2. failed \in SUBSET Peer
        OBVIOUS
      <3> HIDE DEF failed
      <3>3. \E banned \in SUBSET Peer : Lists!ClearGrey(banned)
        BY <3>1, <3>2, Zenon DEF Lists!ClearGrey
      <3> QED
        BY <3>3, Zenon DEF Lists!Next
    <2>9. CASE clear_black_list
      BY <1>2, <2>9 DEF clear_black_list, Empty, Lists!Next, Lists!ClearBlack
    <2>10. CASE UNCHANGED vars
      BY <2>10 DEF vars, Lists!list_vars
    <2> QED
      BY <1>2, <2>1, <2>2, <2>3, <2>4, <2>5, <2>6, <2>7, <2>8, <2>9, <2>10 DEF Next, Lists!Next
  <1> QED
    BY <1>1, <1>2, Invariance, PTL DEF Spec, ImplementsPeerLists, Lists!Spec
=============================================================================
