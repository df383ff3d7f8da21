--------------------------- MODULE MCP2ChainReload ---------------------------
(***************************************************************************)
(* A chain longer than the levels the node keeps, with a fork longer than  *)
(* the share window, whose first block may never come:                     *)
(*    0 - 1 - 2 - 3 - 4                                                    *)
(*        1 - 12 - 13 - 14 - 15 - 16        14 has uncle 2                   *)
(*    10                                    names 1, and height 0          *)
(* Blocks arrive some levels above the tip, the node prunes, stops at any  *)
(* point and reloads what is young enough.                                 *)
(***************************************************************************)
EXTENDS P2Chain

MCBlock == 0 .. 4 \cup {10} \cup 12 .. 16

MCheight == [b \in MCBlock |-> b % 10]

MCprev == [b \in MCBlock |-> CASE b = 0 -> Zero [] b \in {10, 12} -> 1 [] OTHER -> b - 1]

MCuncles == [b \in MCBlock |-> IF b = 14 THEN {2} ELSE {}]

MCanc == [b \in MCBlock |-> [i \in 0 .. MCheight[b] |->
            IF b <= 10 THEN b - i ELSE IF b - i >= 12 THEN b - i ELSE b - 10 - i]]

MCtarget == [b \in MCBlock |-> IF b = 10 THEN 2 ELSE 1]

MCtotal_pow == [b \in MCBlock |-> MCheight[b] + 1 + IF b = 10 \/ b >= 14 THEN 1 ELSE 0]

MCtimestamp == MCheight
=============================================================================
