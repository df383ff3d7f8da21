------------------------------ MODULE PeerStore ------------------------------
(***************************************************************************)
(* The peer store of a sha-p2pool node (server/p2p/peer_store.rs): four    *)
(* maps from peer id to record.  Same-squad peers move between the         *)
(* whitelist, the greylist and the blacklist as connections fail, pings    *)
(* succeed and the two clearing timers of the main loop fire; peers of     *)
(* another squad are kept apart.                                           *)
(*                                                                         *)
(* A map is a total function to records with NoRecord for an absent key.   *)
(* Of a record the model keeps the counters the code decides on; the       *)
(* addresses, chain heights and instants it also carries are left out.     *)
(***************************************************************************)
EXTENDS Naturals

CONSTANTS Peer,                 \* peer ids that can be met
          Seed,                 \* the configured seed peers
          MAX_GREY_LISTINGS,    \* greylistings before clear_grey_list blacklists
          MAX_CATCH_UP_ATTEMPTS,\* catch-up rounds in a row with one peer
          NoRecord              \* absent from a map

ASSUME PeerStoreAssumption ==
  /\ Seed \subseteq Peer
  /\ MAX_GREY_LISTINGS \in Nat \ {0}
  /\ MAX_CATCH_UP_ATTEMPTS \in Nat
  /\ NoRecord \notin [num_grey_listings : Nat, catch_up_attempts : Nat]

VARIABLES whitelist_peers, greylist_peers, blacklist_peers, non_squad_peers

vars == <<whitelist_peers, greylist_peers, blacklist_peers, non_squad_peers>>

Record == [num_grey_listings : Nat, catch_up_attempts : Nat]

\* PeerStoreRecord::new
NewRecord == [num_grey_listings |-> 0, catch_up_attempts |-> 0]

Has(map, p) == map[p] # NoRecord

Put(map, p, r) == [map EXCEPT ![p] = r]

Remove(map, p) == [map EXCEPT ![p] = NoRecord]

Empty == [p \in Peer |-> NoRecord]

Init ==
  /\ whitelist_peers = Empty
  /\ greylist_peers  = Empty
  /\ blacklist_peers = Empty
  /\ non_squad_peers = Empty

-----------------------------------------------------------------------------
(* add: a peer announced itself (peer info gossip, exchange or metadata).  *)

\* The announced squad is not ours.
AddNonSquad(p) ==
  /\ non_squad_peers' = Put(non_squad_peers, p, NewRecord)
  /\ UNCHANGED <<whitelist_peers, greylist_peers, blacklist_peers>>

\* A seed peer of our squad is always (re)inserted in the greylist, whatever
\* other list already holds it.
AddSeed(p) ==
  /\ p \in Seed
  /\ greylist_peers' = Put(greylist_peers, p, NewRecord)
  /\ UNCHANGED <<whitelist_peers, blacklist_peers, non_squad_peers>>

\* An unknown peer of our squad is trusted at once.  For one already listed
\* nothing the model keeps changes: black- and greylisted peers return early
\* and a whitelisted one keeps its counters.
AddSameSquad(p) ==
  /\ p \notin Seed
  /\ ~Has(blacklist_peers, p) /\ ~Has(greylist_peers, p) /\ ~Has(whitelist_peers, p)
  /\ whitelist_peers' = Put(whitelist_peers, p, NewRecord)
  /\ UNCHANGED <<greylist_peers, blacklist_peers, non_squad_peers>>

-----------------------------------------------------------------------------
(* A ping answered by p.                                                   *)

\* Mutant: a ping also lifts a ban.
set_last_ping_unban(p) ==
  \/ /\ Has(greylist_peers, p)
     /\ whitelist_peers' = Put(whitelist_peers, p, [greylist_peers[p] EXCEPT !.num_grey_listings = 0])
     /\ greylist_peers' = Remove(greylist_peers, p)
     /\ UNCHANGED <<blacklist_peers, non_squad_peers>>
  \/ /\ Has(blacklist_peers, p)
     /\ whitelist_peers' = Put(whitelist_peers, p, [blacklist_peers[p] EXCEPT !.num_grey_listings = 0])
     /\ blacklist_peers' = Remove(blacklist_peers, p)
     /\ UNCHANGED <<greylist_peers, non_squad_peers>>

\* A greylisted peer goes back to the whitelist.
set_last_ping(p) ==
  /\ Has(greylist_peers, p)
  /\ whitelist_peers' = Put(whitelist_peers, p, [greylist_peers[p] EXCEPT !.num_grey_listings = 0])
  /\ greylist_peers' = Remove(greylist_peers, p)
  /\ UNCHANGED <<blacklist_peers, non_squad_peers>>

\* Mutant: the greylist timer restores without looking at the counter.
clear_grey_list_forgiving ==
  /\ whitelist_peers' = [p \in Peer |-> IF Has(greylist_peers, p) /\ p \notin Seed
                                        THEN greylist_peers[p] ELSE whitelist_peers[p]]
  /\ greylist_peers' = Empty
  /\ UNCHANGED <<blacklist_peers, non_squad_peers>>

\* Mutant: the seed test is missing its list, every unbanned peer is dropped.
clear_grey_list_dropping ==
  LET banned(p) == /\ Has(greylist_peers, p)
                   /\ greylist_peers[p].num_grey_listings >= MAX_GREY_LISTINGS
  IN /\ blacklist_peers' = [p \in Peer |-> IF banned(p) THEN greylist_peers[p]
                                                         ELSE blacklist_peers[p]]
     /\ greylist_peers' = Empty
     /\ UNCHANGED <<whitelist_peers, non_squad_peers>>

\* Mutant: seeds go back to the whitelist with their failures.
clear_grey_list_seeds ==
  LET banned(p)   == /\ Has(greylist_peers, p)
                     /\ greylist_peers[p].num_grey_listings >= MAX_GREY_LISTINGS
      restored(p) == Has(greylist_peers, p) /\ ~banned(p)
  IN /\ blacklist_peers' = [p \in Peer |-> IF banned(p) THEN greylist_peers[p]
                                                         ELSE blacklist_peers[p]]
     /\ whitelist_peers' = [p \in Peer |-> IF restored(p) THEN greylist_peers[p]
                                                           ELSE whitelist_peers[p]]
     /\ greylist_peers' = Empty
     /\ UNCHANGED non_squad_peers

\* The greylist timer: every greylisted peer is blacklisted, forgotten (a
\* seed peer) or trusted again.
clear_grey_list ==
  LET banned(p)   == /\ Has(greylist_peers, p)
                     /\ greylist_peers[p].num_grey_listings >= MAX_GREY_LISTINGS
      restored(p) == Has(greylist_peers, p) /\ ~banned(p) /\ p \notin Seed
  IN /\ blacklist_peers' = [p \in Peer |-> IF banned(p) THEN greylist_peers[p]
                                                         ELSE blacklist_peers[p]]
     /\ whitelist_peers' = [p \in Peer |-> IF restored(p) THEN greylist_peers[p]
                                                           ELSE whitelist_peers[p]]
     /\ greylist_peers' = Empty
     /\ UNCHANGED non_squad_peers

\* The blacklist timer: every ban is lifted with a clean record.
clear_black_list ==
  /\ whitelist_peers' = [p \in Peer |-> IF Has(blacklist_peers, p) THEN NewRecord
                                                                   ELSE whitelist_peers[p]]
  /\ blacklist_peers' = Empty
  /\ UNCHANGED <<greylist_peers, non_squad_peers>>

\* Mutant: the counter runs backwards.
move_to_grey_list_backwards(p) ==
  /\ Has(whitelist_peers, p)
  /\ greylist_peers' = Put(greylist_peers, p, [whitelist_peers[p] EXCEPT !.num_grey_listings = @ - 1])
  /\ whitelist_peers' = Remove(whitelist_peers, p)
  /\ UNCHANGED <<blacklist_peers, non_squad_peers>>

\* A failed connection or request, or an invalid gossiped block.
move_to_grey_list(p) ==
  /\ Has(whitelist_peers, p)
  /\ greylist_peers' = Put(greylist_peers, p, [whitelist_peers[p] EXCEPT !.num_grey_listings = @ + 1])
  /\ whitelist_peers' = Remove(whitelist_peers, p)
  /\ UNCHANGED <<blacklist_peers, non_squad_peers>>

\* Mutant: the whitelist entry is copied, not removed.
move_to_blacklist_copying(p) ==
  /\ Has(whitelist_peers, p) \/ Has(greylist_peers, p)
  /\ blacklist_peers' = Put(blacklist_peers, p,
                            IF Has(greylist_peers, p) THEN greylist_peers[p] ELSE whitelist_peers[p])
  /\ greylist_peers' = Remove(greylist_peers, p)
  /\ UNCHANGED <<whitelist_peers, non_squad_peers>>

\* An empty catch-up answer, or invalid synced blocks.  The greylist record
\* wins when both lists hold the peer.
move_to_blacklist(p) ==
  /\ Has(whitelist_peers, p) \/ Has(greylist_peers, p)
  /\ blacklist_peers' = Put(blacklist_peers, p,
                            IF Has(greylist_peers, p) THEN greylist_peers[p] ELSE whitelist_peers[p])
  /\ whitelist_peers' = Remove(whitelist_peers, p)
  /\ greylist_peers' = Remove(greylist_peers, p)
  /\ UNCHANGED non_squad_peers

\* One more catch-up round with p; the caller compares num_catch_ups with the
\* limit first.
add_catch_up_attempt(p) ==
  /\ Has(whitelist_peers, p)
  /\ whitelist_peers[p].catch_up_attempts < MAX_CATCH_UP_ATTEMPTS
  /\ whitelist_peers' = [whitelist_peers EXCEPT ![p].catch_up_attempts = @ + 1]
  /\ UNCHANGED <<greylist_peers, blacklist_peers, non_squad_peers>>

reset_catch_up_attempts(p) ==
  /\ Has(whitelist_peers, p)
  /\ whitelist_peers' = [whitelist_peers EXCEPT ![p].catch_up_attempts = 0]
  /\ UNCHANGED <<greylist_peers, blacklist_peers, non_squad_peers>>

Next ==
  \/ \E p \in Peer : \/ AddNonSquad(p)
                     \/ AddSeed(p)
                     \/ AddSameSquad(p)
                     \/ set_last_ping(p)
                     \/ move_to_grey_list(p)
                     \/ move_to_blacklist(p)
                     \/ add_catch_up_attempt(p)
                     \/ reset_catch_up_attempts(p)
  \/ clear_grey_list
  \/ clear_black_list

Spec == Init /\ [][Next]_vars

-----------------------------------------------------------------------------
(* Properties                                                              *)

Map == [Peer -> Record \cup {NoRecord}]

\* Every list maps known peers to records.
TypeOK ==
  /\ whitelist_peers \in Map
  /\ greylist_peers  \in Map
  /\ blacklist_peers \in Map
  /\ non_squad_peers \in Map

\* A peer that is not a seed is on at most one of the three same-squad lists,
\* so is_blacklisted and peer_type never contradict each other, whatever order
\* announcements, pings, failures and timers come in.
ListsDisjoint ==
  \A p \in Peer \ Seed :
    /\ ~(Has(whitelist_peers, p) /\ Has(greylist_peers, p))
    /\ ~(Has(whitelist_peers, p) /\ Has(blacklist_peers, p))
    /\ ~(Has(greylist_peers, p) /\ Has(blacklist_peers, p))

\* A trusted peer always has fewer than MAX_GREY_LISTINGS failures on record:
\* one that fails that often without a ping in between is caught by the next
\* clear_grey_list and cannot slip back.  So the u64 counter never grows past
\* the limit either.
GreyListingsBounded ==
  \A p \in Peer :
    /\ Has(whitelist_peers, p) => whitelist_peers[p].num_grey_listings < MAX_GREY_LISTINGS
    /\ Has(greylist_peers, p)  => greylist_peers[p].num_grey_listings <= MAX_GREY_LISTINGS
    /\ Has(blacklist_peers, p) => blacklist_peers[p].num_grey_listings <= MAX_GREY_LISTINGS

\* A ban of a peer that is not a seed ends only when the blacklist timer lifts
\* every ban: no announcement and no ping can end it.
BansOnlyExpire ==
  [][\A p \in Peer \ Seed :
       Has(blacklist_peers, p) /\ ~Has(blacklist_peers', p) => blacklist_peers' = Empty]_vars

KnownSameSquad(p) ==
  Has(whitelist_peers, p) \/ Has(greylist_peers, p) \/ Has(blacklist_peers, p)

\* A peer that is not a seed is never forgotten once it was met.
PeersNeverForgotten ==
  [][\A p \in Peer \ Seed : KnownSameSquad(p) => KnownSameSquad(p)']_vars

\* Although a ping, or the end of a ban, puts a seed peer on the whitelist, where
\* the code does not want seeds, its failures never add up there: the greylist
\* timer forgets a seed instead of restoring it, and so never bans one.
SeedsForgiven ==
  MAX_GREY_LISTINGS > 1 =>
    \A p \in Seed :
      /\ Has(whitelist_peers, p) => whitelist_peers[p].num_grey_listings = 0
      /\ Has(greylist_peers, p)  => greylist_peers[p].num_grey_listings <= 1

-----------------------------------------------------------------------------
(* The lists without their counters                                        *)

Lists == INSTANCE PeerLists WITH
  white     <- {p \in Peer : Has(whitelist_peers, p)},
  grey      <- {p \in Peer : Has(greylist_peers, p)},
  black     <- {p \in Peer : Has(blacklist_peers, p)},
  non_squad <- {p \in Peer : Has(non_squad_peers, p)}

\* The store moves peers between its lists as the network service that uses it
\* is modelled to expect.
ImplementsPeerLists == Lists!Spec
=============================================================================
