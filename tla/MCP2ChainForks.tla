--------------------------- MODULE MCP2ChainForks ---------------------------
(***************************************************************************)
(* A tree of honest and of dishonest blocks; each configuration picks its  *)
(* blocks from it.  The last digit of a block is its height.               *)
(*    0 - 1 - 2 - 3 - 4 - 5 - 6 - 7  the honest chain                      *)
(*            2 - 13 - 14            13 is heavier than 4, 14 has uncle 3   *)
(*            2 - 23 - 24            23 has a wrong coinbase split, 24 is  *)
(*                                   too early                             *)
(*            2 - 33                 has a wrong target and claims too     *)
(*                                   much accumulated work                 *)
(*                3 - 44             claims its ancestor 2 as an uncle     *)
(*                        5 - 56     is heavier than 7                     *)
(*        1 - 12                                                           *)
(*                3 - 54             has uncle 12, two levels below        *)
(*    10                             names 2 as its parent, and height 0   *)
(***************************************************************************)
EXTENDS P2Chain

MCheight == [b \in Block |-> b % 10]

MCprev == [b \in Block |-> CASE b = 0 -> Zero
                             [] b \in {10, 13, 23, 33} -> 2
                             [] b = 12 -> 1
                             [] b \in {44, 54} -> 3
                             [] b = 56 -> 5
                             [] OTHER -> b - 1]

MCuncles == [b \in Block |-> CASE b = 14 -> {3} [] b = 44 -> {2} [] b = 54 -> {12}
                                 [] OTHER -> {}]

MCanc == LET up[i \in 0 .. MaxHeight] ==
               IF i = 0 THEN [b \in Block |-> b]
               ELSE [b \in Block |-> IF i <= MCheight[b] THEN MCprev[up[i - 1][b]] ELSE Zero]
         IN [b \in Block |-> [i \in 0 .. MCheight[b] |-> up[i][b]]]

MCtarget == [b \in Block |-> CASE b = 10 -> 2 [] b \in {13, 56} -> 3 [] OTHER -> 1]

MCtotal_pow == [b \in Block |-> MCheight[b] + 1 + CASE b \in {10, 44, 54} -> 1
                                                    [] b \in {13, 56} -> 2
                                                    [] b \in {14, 33} -> 3
                                                    [] OTHER -> 0]

MCtimestamp == [b \in Block |-> 0]
=============================================================================
