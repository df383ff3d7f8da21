--------------------------- MODULE LmdbBlockStorage ---------------------------
(***************************************************************************)
(* The block storage of one share chain (sharechain/lmdb_block_storage.rs) *)
(* under the levels that use it (sharechain/p2chain_level.rs).  A level    *)
(* keeps the headers of its blocks in memory and writes every block        *)
(* through to LMDB, whose map has a fixed size: an insert that meets a     *)
(* full map gives its transaction up, doubles the map and tries again.     *)
(*                                                                         *)
(* Inserts and deletes happen under the write lock of the share chain and  *)
(* reads under its read lock (in_memory.rs); the lock of the environment   *)
(* itself is only ever taken for reading and excludes nobody.              *)
(***************************************************************************)
EXTENDS Integers

CONSTANTS Hash, Version, NoBlock,
          Reader,       \* tasks that read blocks
          Size,         \* Size[h]: bytes of the block with hash h
          Space,        \* Space[S]: bytes the committed blocks of S take
          Overhead,     \* bytes a commit needs besides (LMDB copies its pages)
          InitialSize,  \* size of a new map
          Attempts      \* attempts of insert, 10 in the code

\* More blocks take no less space, and all the blocks the node ever keeps fit,
\* with one of them written anew beside its old version, in a map that was
\* doubled before every attempt but the first.
ASSUME StorageAssumption ==
  /\ NoBlock \notin Version
  /\ Size \in [Hash -> Nat]
  /\ Space \in [SUBSET Hash -> Nat]
  /\ \A S, T \in SUBSET Hash : S \subseteq T => Space[S] <= Space[T]
  /\ Overhead \in Nat /\ InitialSize \in Nat \ {0} /\ Attempts \in Nat \ {0}
  /\ \A h \in Hash : Space[Hash] + Size[h] + Overhead <= InitialSize * 2 ^ (Attempts - 1)

\* What doubling does (no prover here knows the powers of two).
ASSUME DoublingAssumption ==
  2 ^ 0 = 1 /\ \A n \in 0 .. Attempts : 2 ^ n \in Nat /\ 2 ^ (n + 1) = 2 * 2 ^ n

VARIABLES disk,        \* what is committed in "block_cache_v2"
          map_size,    \* size of the LMDB map
          headers,     \* block_headers of the levels
          call,        \* the insert or delete under way
          retry,       \* loop counter of insert
          next_resize, \* the last attempt met a full map
          txn,         \* the write transaction: "none", "open", "put" or "deleted"
          readers,     \* tasks with an open read transaction
          running,     \* the node is up
          panicked     \* an unwrap failed

insert_vars == <<retry, next_resize, txn>>
vars == <<disk, map_size, headers, call, insert_vars, readers, running, panicked>>

Cache == INSTANCE BlockCache WITH cache <- disk

NoCall == Cache!NoCall
Nothing == Cache!Nothing

\* Bytes taken by the committed blocks.
Used == Space[{h \in Hash : disk[h] # NoBlock}]

Init ==
  /\ disk = Nothing /\ headers = Nothing
  /\ map_size = InitialSize
  /\ call = NoCall
  /\ retry = 0 /\ next_resize = FALSE /\ txn = "none"
  /\ readers = {}
  /\ running = TRUE /\ panicked = FALSE

-----------------------------------------------------------------------------
(* The levels: each call holds the write lock of the chain.                *)

HasWriteLock == running /\ call = NoCall /\ readers = {}

\* Mutant: a block whose hash the level has already is not written again.
AddBlock_once(h, v) ==
  /\ HasWriteLock
  /\ headers' = [headers EXCEPT ![h] = v]
  /\ call' = IF headers[h] = NoBlock THEN [op |-> "insert", hash |-> h, block |-> v] ELSE NoCall
  /\ retry' = 0 /\ next_resize' = FALSE
  /\ UNCHANGED <<disk, map_size, txn, readers, running, panicked>>

\* A new block, or a block whose flags changed: first the header, then the
\* block itself.
AddBlock(h, v) ==
  /\ HasWriteLock
  /\ headers' = [headers EXCEPT ![h] = v]
  /\ call' = [op |-> "insert", hash |-> h, block |-> v]
  /\ retry' = 0 /\ next_resize' = FALSE
  /\ UNCHANGED <<disk, map_size, txn, readers, running, panicked>>

\* cleanup_chain takes a level off the chain and deletes its blocks one by one.
CleanUp(h) ==
  /\ HasWriteLock
  /\ headers[h] # NoBlock
  /\ headers' = [headers EXCEPT ![h] = NoBlock]
  /\ call' = [op |-> "delete", hash |-> h]
  /\ UNCHANGED <<disk, map_size, insert_vars, readers, running, panicked>>

-----------------------------------------------------------------------------
(* insert: attempts, each in a transaction of its own.                     *)

\* Mutant: one attempt only.
Exhausted_first(n) == n = 1

\* The loop of insert ends after this many attempts.
Exhausted(n) == n = Attempts

resize_db(size) == 2 * size

\* One more attempt: the map is doubled if the last one met a full map.
BeginAttempt ==
  /\ call.op = "insert" /\ txn = "none"
  /\ map_size' = IF next_resize THEN resize_db(map_size) ELSE map_size
  /\ txn' = "open"
  /\ UNCHANGED <<disk, headers, call, retry, next_resize, readers, running, panicked>>

\* Mutant: the map is doubled while the transaction is still open.
MapFull_resizing ==
  /\ map_size' = resize_db(map_size)
  /\ retry' = retry + 1
  /\ UNCHANGED <<disk, headers, call, txn, next_resize, readers, running, panicked>>

\* The attempt ends and its transaction is dropped with the environment's
\* lock.  After the last one insert returns as if it had stored the block.
MapFull ==
  /\ retry' = retry + 1
  /\ next_resize' = TRUE
  /\ txn' = "none"
  /\ call' = IF Exhausted(retry + 1) THEN NoCall ELSE call
  /\ UNCHANGED <<disk, map_size, headers, readers, running, panicked>>

Fits(bytes) == Used + bytes <= map_size

Put ==
  /\ call.op = "insert" /\ txn = "open"
  /\ Fits(Size[call.hash])
  /\ txn' = "put"
  /\ UNCHANGED <<disk, map_size, headers, call, retry, next_resize, readers, running, panicked>>

PutFails ==
  /\ call.op = "insert" /\ txn = "open"
  /\ ~Fits(Size[call.hash])
  /\ MapFull

\* Mutant: the transaction outlives the call.
Commit_open ==
  /\ txn = "put"
  /\ Fits(Size[call.hash] + Overhead)
  /\ disk' = [disk EXCEPT ![call.hash] = call.block]
  /\ call' = NoCall
  /\ UNCHANGED <<map_size, headers, insert_vars, readers, running, panicked>>

Commit ==
  /\ txn = "put"
  /\ Fits(Size[call.hash] + Overhead)
  /\ disk' = [disk EXCEPT ![call.hash] = call.block]
  /\ call' = NoCall
  /\ txn' = "none"
  /\ UNCHANGED <<map_size, headers, retry, next_resize, readers, running, panicked>>

CommitFails ==
  /\ txn = "put"
  /\ ~Fits(Size[call.hash] + Overhead)
  /\ MapFull

-----------------------------------------------------------------------------
(* delete                                                                  *)

\* A key that is not there is an error, and it is unwrapped.
Delete ==
  /\ call.op = "delete" /\ txn = "none"
  /\ IF disk[call.hash] = NoBlock THEN panicked' = TRUE /\ UNCHANGED txn
                                  ELSE txn' = "deleted" /\ UNCHANGED panicked
  /\ ~panicked
  /\ UNCHANGED <<disk, map_size, headers, call, retry, next_resize, readers, running>>

\* The commit of a delete may fail: the error is logged, and the block stays.
CommitDelete ==
  /\ txn = "deleted"
  /\ disk' \in {disk, [disk EXCEPT ![call.hash] = NoBlock]}
  /\ call' = NoCall
  /\ txn' = "none"
  /\ UNCHANGED <<map_size, headers, retry, next_resize, readers, running, panicked>>

-----------------------------------------------------------------------------
(* Readers, stops and starts.                                              *)

\* get and all_blocks read in a transaction, under the chain's read lock.
BeginRead(r) ==
  /\ running /\ call = NoCall
  /\ readers' = readers \cup {r}
  /\ UNCHANGED <<disk, map_size, headers, call, insert_vars, running, panicked>>

EndRead(r) ==
  /\ r \in readers
  /\ readers' = readers \ {r}
  /\ UNCHANGED <<disk, map_size, headers, call, insert_vars, running, panicked>>

\* The process ends, of itself or because an LMDB error other than a full map
\* panics in insert.  What is not committed is gone.
Stop ==
  /\ running
  /\ running' = FALSE
  /\ headers' = Nothing
  /\ call' = NoCall
  /\ retry' = 0 /\ next_resize' = FALSE /\ txn' = "none"
  /\ readers' = {}
  /\ UNCHANGED <<disk, map_size, panicked>>

\* The old storage is renamed to the backup and an empty one is opened; the
\* blocks that are loaded from the backup are added like any other.
Start ==
  /\ ~running
  /\ running' = TRUE
  /\ disk' = Nothing
  /\ map_size' = InitialSize
  /\ UNCHANGED <<headers, call, insert_vars, readers, panicked>>

Next ==
  \/ \E h \in Hash, v \in Version : AddBlock(h, v)
  \/ \E h \in Hash : CleanUp(h)
  \/ BeginAttempt \/ Put \/ PutFails \/ Commit \/ CommitFails
  \/ Delete \/ CommitDelete
  \/ \E r \in Reader : BeginRead(r) \/ EndRead(r)
  \/ Stop \/ Start

Spec == Init /\ [][Next]_vars

-----------------------------------------------------------------------------
(* Properties                                                              *)

\* The state is well formed, and one write transaction at most is open, only
\* inside a call.
TypeOK ==
  /\ disk \in [Hash -> Version \cup {NoBlock}]
  /\ headers \in [Hash -> Version \cup {NoBlock}]
  /\ call \in Cache!Call
  /\ retry \in 0 .. Attempts /\ next_resize \in BOOLEAN
  /\ txn \in {"none", "open", "put", "deleted"} /\ (txn # "none" => call # NoCall)
  /\ readers \subseteq Reader
  /\ running \in BOOLEAN /\ panicked \in BOOLEAN
  /\ map_size \in Nat

\* Whenever nobody writes, every header the levels hold is backed by the very
\* same block in the storage, flags included: get_block_in_main_chain never
\* finds a header without its block, and no delete panics for want of its
\* block, whatever map sizes, retries, failed deletes and restarts came before.
HeadersBacked ==
  /\ running /\ call = NoCall => \A h \in Hash : headers[h] # NoBlock => disk[h] = headers[h]
  /\ ~panicked

\* The map is never resized while a transaction of this process is open,
\* which LMDB forbids and does not check: neither insert's own nor a reader's.
ResizeAlone ==
  [][map_size' # map_size => txn = "none" /\ readers = {}]_vars

\* The storage is a block cache: calls are atomic, and one that returns has
\* taken effect.
IsBlockCache == Cache!Spec
=============================================================================
