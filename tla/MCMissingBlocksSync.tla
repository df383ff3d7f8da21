------------------------- MODULE MCMissingBlocksSync -------------------------
(***************************************************************************)
(* The last digit of a block is its height.                                *)
(*    0 - 1 - 2 - 13         has the uncle 12                              *)
(*            2 - 3          has it too, and fails a check                 *)
(*        1 - 12                                                           *)
(* full has every good block.  other has 12, in its main chain, and the    *)
(* bad block, but not what is below them, and it is known as a peer that   *)
(* is far behind, so it is not asked for what starts at height 2.          *)
(***************************************************************************)
EXTENDS MissingBlocksSync

CONSTANTS full, other

MCheight == [b \in Block |-> b % 10]
MCprev   == [b \in Block |-> CASE b = 0 -> Zero [] b = 12 -> 1 [] b = 13 -> 2 [] OTHER -> b - 1]
MCuncles == [b \in Block |-> IF b \in {3, 13} THEN {12} ELSE {}]

MCHas  == [p \in Peer |-> IF p = full THEN Block \ Bad ELSE {12, 3}]
MCmain == [p \in Peer |-> [h \in 0 .. 3 |-> CASE h = 3 /\ p = full -> 13
                                              [] h = 2 /\ p # full -> 12
                                              [] p # full -> Zero
                                              [] OTHER -> h]]
MCpeer_height == [p \in Peer |-> IF p = full THEN 3 ELSE 0]
=============================================================================
