------------------------------ MODULE BlockCache ------------------------------
(***************************************************************************)
(* What the share chain expects of its block cache (the trait BlockCache   *)
(* of sharechain/lmdb_block_storage.rs): a map from hash to block that     *)
(* survives until the node stops.  An insert that returns has stored its   *)
(* block; a delete that returns has removed it, or left it where it was    *)
(* (the error is only logged).  A call takes effect at one instant, so a   *)
(* stop of the node never leaves half of one behind.                       *)
(***************************************************************************)
CONSTANTS Hash,     \* block hashes
          Version,  \* contents a block with a given hash can have: its flags grow
          NoBlock   \* absent from the map

VARIABLES cache,    \* the map
          call,     \* the insert or delete under way, or NoCall
          running   \* the node is up

cache_vars == <<cache, call, running>>

NoCall == [op |-> "none"]

Call == {NoCall} \cup [op : {"insert"}, hash : Hash, block : Version]
                 \cup [op : {"delete"}, hash : Hash]

Nothing == [h \in Hash |-> NoBlock]

Init ==
  /\ cache = Nothing
  /\ call = NoCall
  /\ running = TRUE

Begin ==
  /\ running /\ call = NoCall
  /\ call' \in Call \ {NoCall}
  /\ UNCHANGED <<cache, running>>

EndInsert ==
  /\ call.op = "insert"
  /\ cache' = [cache EXCEPT ![call.hash] = call.block]
  /\ call' = NoCall
  /\ UNCHANGED running

EndDelete ==
  /\ call.op = "delete"
  /\ cache' \in {cache, [cache EXCEPT ![call.hash] = NoBlock]}
  /\ call' = NoCall
  /\ UNCHANGED running

Stop ==
  /\ running
  /\ running' = FALSE
  /\ call' = NoCall
  /\ UNCHANGED cache

\* A start moves the old map away and begins with an empty one.
Start ==
  /\ ~running
  /\ running' = TRUE
  /\ cache' = Nothing
  /\ UNCHANGED call

Next == Begin \/ EndInsert \/ EndDelete \/ Stop \/ Start

Spec == Init /\ [][Next]_cache_vars
=============================================================================
