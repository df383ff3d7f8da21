------------------------------ MODULE PeerLists ------------------------------
(***************************************************************************)
(* What the peer store promises to the rest of the network service: which  *)
(* of its four lists a peer is on and how it moves between them.  How often*)
(* a peer failed is left open, so clearing the greylist may ban any of the *)
(* peers on it.  PeerStore implements this specification with counters;    *)
(* PeerNetwork uses it.                                                    *)
(***************************************************************************)
CONSTANTS Peer, Seed

VARIABLES white, grey, black, non_squad

list_vars == <<white, grey, black, non_squad>>

InitLists == white = {} /\ grey = {} /\ black = {} /\ non_squad = {}

KnownSquad == white \cup grey \cup black

\* A peer was announced, as one of our squad or not.
Add(p, ours) ==
  /\ non_squad' = IF ours THEN non_squad ELSE non_squad \cup {p}
  /\ grey' = IF ours /\ p \in Seed THEN grey \cup {p} ELSE grey
  /\ white' = IF ours /\ p \notin Seed \cup KnownSquad THEN white \cup {p} ELSE white
  /\ UNCHANGED black

\* A ping of a greylisted peer.
Restore(p) ==
  /\ p \in grey
  /\ white' = white \cup {p}
  /\ grey' = grey \ {p}
  /\ UNCHANGED <<black, non_squad>>

Fail(p) ==
  /\ p \in white
  /\ grey' = grey \cup {p}
  /\ white' = white \ {p}
  /\ UNCHANGED <<black, non_squad>>

Ban(p) ==
  /\ p \in white \cup grey
  /\ black' = black \cup {p}
  /\ white' = white \ {p}
  /\ grey' = grey \ {p}
  /\ UNCHANGED non_squad

\* Mutant: the greylist timer bans, and restores nobody.
ClearGrey_staying(banned) ==
  /\ banned \subseteq grey
  /\ black' = black \cup banned
  /\ grey' = grey \ banned
  /\ UNCHANGED <<white, non_squad>>

\* The greylist timer bans the peers that failed too often, forgets the seeds
\* and restores the others.
ClearGrey(banned) ==
  /\ banned \subseteq grey
  /\ black' = black \cup banned
  /\ white' = white \cup (grey \ (banned \cup Seed))
  /\ grey' = {}
  /\ UNCHANGED non_squad

\* The blacklist timer lifts every ban.
ClearBlack ==
  /\ white' = white \cup black
  /\ black' = {}
  /\ UNCHANGED <<grey, non_squad>>

Next ==
  \/ \E p \in Peer : \/ \E ours \in BOOLEAN : Add(p, ours)
                     \/ Restore(p) \/ Fail(p) \/ Ban(p)
  \/ \E banned \in SUBSET Peer : ClearGrey(banned)
  \/ ClearBlack

Spec == InitLists /\ [][Next]_list_vars
=============================================================================
