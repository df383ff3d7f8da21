------------------------ MODULE LmdbBlockStorageProofs ------------------------
(***************************************************************************)
(* Proofs about LmdbBlockStorage: the storage implements the block cache   *)
(* the share chain expects, its levels never hold a header without its     *)
(* block, and the map is never resized under a transaction, for any blocks *)
(* that fit in a map doubled before every attempt but the first.           *)
(***************************************************************************)
EXTENDS LmdbBlockStorage, TLAPS

-----------------------------------------------------------------------------
(* The inductive invariant.                                                *)

\* A transaction belongs to the call it is for, and calls exclude readers.
TxnsOwned ==
  /\ txn \in {"open", "put"} => call.op = "insert"
  /\ txn = "deleted" => call.op = "delete"
  /\ call # NoCall => readers = {}
  /\ ~running => call = NoCall /\ txn = "none" /\ readers = {} /\ headers = Nothing

\* How often an insert has doubled the map by now: before each attempt but its
\* first.
MapGrown ==
  call.op = "insert" =>
    /\ retry < Attempts
    /\ txn = "none" => /\ (next_resize <=> retry > 0)
                       /\ retry > 0 => map_size >= InitialSize * 2 ^ (retry - 1)
    /\ txn # "none" => map_size >= InitialSize * 2 ^ retry

\* Headers and blocks, with the call under way in mind.
Backed ==
  /\ \A h \in Hash : headers[h] # NoBlock => disk[h] = headers[h] \/ (call.op = "insert" /\ call.hash = h)
  /\ call.op = "insert" => headers[call.hash] = call.block
  /\ call.op = "delete" => headers[call.hash] = NoBlock /\ disk[call.hash] # NoBlock
  /\ ~panicked

StorageInv == TypeOK /\ TxnsOwned /\ map_size >= InitialSize /\ MapGrown /\ Backed

LEMMA CallTypes ==
  ASSUME NEW c \in Cache!Call
  PROVE  /\ c = NoCall \/ c.op \in {"insert", "delete"}
         /\ c.op = "insert" => c.hash \in Hash /\ c.block \in Version /\ c # NoCall
         /\ c.op = "delete" => c.hash \in Hash /\ c # NoCall
         /\ NoCall.op = "none"
BY DEF Cache!Call, NoCall, Cache!NoCall

LEMMA CallKinds ==
  ASSUME NEW h \in Hash, NEW v \in Version
  PROVE  /\ [op |-> "insert", hash |-> h, block |-> v] \in Cache!Call \ {NoCall}
         /\ [op |-> "delete", hash |-> h] \in Cache!Call \ {NoCall}
         /\ NoCall \in Cache!Call
BY DEF Cache!Call, NoCall, Cache!NoCall

\* The map after one doubling more.
LEMMA Doubled ==
  ASSUME NEW n \in 0 .. Attempts, NEW size \in Nat, size >= InitialSize * 2 ^ n
  PROVE  2 * size >= InitialSize * 2 ^ (n + 1)
<1>1. 2 ^ n \in Nat /\ 2 ^ (n + 1) = 2 * 2 ^ n /\ InitialSize \in Nat
  BY DoublingAssumption, StorageAssumption
<1>2. PICK x \in Nat, y \in Nat : x = 2 ^ n /\ y = 2 ^ (n + 1)
  BY <1>1
<1>3. y = 2 * x /\ InitialSize * y = 2 * (InitialSize * x) /\ InitialSize * x \in Nat
  BY <1>1, <1>2
<1>. QED BY <1>2, <1>3

\* What an attempt can need.
LEMMA EnoughSpace ==
  ASSUME TypeOK, NEW h \in Hash, map_size >= InitialSize * 2 ^ (Attempts - 1)
  PROVE  Fits(Size[h]) /\ Fits(Size[h] + Overhead)
<1>. DEFINE S == {x \in Hash : disk[x] # NoBlock}
<1>1. S \in SUBSET Hash /\ Hash \in SUBSET Hash /\ S \subseteq Hash
  OBVIOUS
<1>. HIDE DEF S
<1>2. Space[S] \in Nat /\ Space[Hash] \in Nat /\ Space[S] <= Space[Hash]
  BY <1>1, StorageAssumption
<1>3. /\ Size[h] \in Nat /\ Overhead \in Nat /\ map_size \in Nat
      /\ Space[Hash] + Size[h] + Overhead <= InitialSize * 2 ^ (Attempts - 1)
  BY StorageAssumption DEF TypeOK
<1>4. InitialSize * 2 ^ (Attempts - 1) \in Nat
  <2>1. Attempts - 1 \in 0 .. Attempts
    BY StorageAssumption
  <2>2. 2 ^ (Attempts - 1) \in Nat /\ InitialSize \in Nat
    BY <2>1, StorageAssumption, DoublingAssumption
  <2>. QED BY <2>2
<1>5. Used = Space[S]
  BY DEF Used, S
<1>6. PICK z \in Nat : z = InitialSize * 2 ^ (Attempts - 1)
  BY <1>4
<1>7. Space[S] + (Size[h] + Overhead) <= map_size /\ Space[S] + Size[h] <= map_size
  BY <1>2, <1>3, <1>6
<1>. QED BY <1>5, <1>7 DEF Fits

LEMMA StorageInit == Init => StorageInv
<1>. SUFFICES ASSUME Init PROVE StorageInv
  OBVIOUS
<1>1. NoCall \in Cache!Call /\ NoCall.op = "none"
  BY DEF Cache!Call, NoCall, Cache!NoCall
<1>2. Nothing \in [Hash -> Version \cup {NoBlock}] /\ \A h \in Hash : Nothing[h] = NoBlock
  BY DEF Nothing, Cache!Nothing
<1>3. TypeOK
  <2>1. running \in BOOLEAN /\ panicked \in BOOLEAN /\ next_resize \in BOOLEAN
    BY DEF Init
  <2>2. /\ call \in Cache!Call /\ map_size \in Nat /\ retry \in 0 .. Attempts
        /\ readers \subseteq Reader
        /\ txn \in {"none", "open", "put", "deleted"} /\ txn = "none"
    BY <1>1, StorageAssumption DEF Init
  <2>3. disk \in [Hash -> Version \cup {NoBlock}] /\ headers \in [Hash -> Version \cup {NoBlock}]
    BY <1>2 DEF Init
  <2>. QED BY <2>1, <2>2, <2>3 DEF TypeOK
<1>. QED BY <1>1, <1>2, <1>3, StorageAssumption DEF Init, StorageInv, TxnsOwned, MapGrown, Backed

-----------------------------------------------------------------------------
(* Every step keeps the invariant.                                         *)

LEMMA AddBlockStep ==
  ASSUME StorageInv, NEW h \in Hash, NEW v \in Version, AddBlock(h, v)
  PROVE  StorageInv'
<1>. DEFINE c == [op |-> "insert", hash |-> h, block |-> v]
<1>1. /\ call = NoCall /\ running /\ readers = {} /\ txn = "none"
      /\ call' = c /\ headers' = [headers EXCEPT ![h] = v] /\ retry' = 0 /\ next_resize' = FALSE
      /\ UNCHANGED <<disk, map_size, txn, readers, running, panicked>>
  BY DEF AddBlock, HasWriteLock, StorageInv, TypeOK
<1>2. c \in Cache!Call /\ c # NoCall /\ c.op = "insert" /\ c.hash = h /\ c.block = v
  BY CallKinds
<1>. HIDE DEF c
<1>3. NoCall.op = "none"
  BY DEF NoCall, Cache!NoCall
<1>4. TypeOK'
  <2>1. headers' \in [Hash -> Version \cup {NoBlock}]
    BY <1>1 DEF StorageInv, TypeOK
  <2>2. next_resize' \in BOOLEAN
    BY <1>1
  <2>3. retry' \in 0 .. Attempts
    BY <1>1, StorageAssumption
  <2>. QED BY <1>1, <1>2, <2>1, <2>2, <2>3 DEF StorageInv, TypeOK
<1>5. TxnsOwned'
  BY <1>1 DEF TxnsOwned
<1>6. MapGrown'
  <2>1. ~next_resize'
    BY <1>1
  <2>2. retry' = 0 /\ Attempts \in Nat \ {0} /\ txn' = "none"
    BY <1>1, StorageAssumption
  <2>. QED BY <2>1, <2>2 DEF MapGrown
<1>7. Backed'
  <2>1. headers'[h] = v /\ \A x \in Hash : x # h => headers'[x] = headers[x]
    BY <1>1 DEF StorageInv, TypeOK
  <2>2. \A x \in Hash : headers[x] # NoBlock => disk[x] = headers[x]
    BY <1>1, <1>3 DEF StorageInv, Backed
  <2>. QED BY <1>1, <1>2, <2>1, <2>2 DEF StorageInv, Backed
<1>. QED BY <1>1, <1>4, <1>5, <1>6, <1>7 DEF StorageInv

LEMMA CleanUpStep ==
  ASSUME StorageInv, NEW h \in Hash, CleanUp(h)
  PROVE  StorageInv'
<1>. DEFINE c == [op |-> "delete", hash |-> h]
<1>1. /\ call = NoCall /\ running /\ readers = {} /\ txn = "none" /\ headers[h] # NoBlock
      /\ call' = c /\ headers' = [headers EXCEPT ![h] = NoBlock]
      /\ UNCHANGED <<disk, map_size, retry, next_resize, txn, readers, running, panicked>>
  BY DEF CleanUp, HasWriteLock, StorageInv, TypeOK, insert_vars
<1>2. c \in Cache!Call /\ c # NoCall /\ c.op = "delete" /\ c.hash = h
  <2>1. c \in Cache!Call
    BY DEF Cache!Call
  <2>2. NoCall.op = "none"
    BY DEF NoCall, Cache!NoCall
  <2>. QED BY <2>1, <2>2
<1>. HIDE DEF c
<1>3. NoCall.op = "none"
  BY DEF NoCall, Cache!NoCall
<1>4. TypeOK'
  <2>1. headers' \in [Hash -> Version \cup {NoBlock}]
    BY <1>1 DEF StorageInv, TypeOK
  <2>. QED BY <1>1, <1>2, <2>1 DEF StorageInv, TypeOK
<1>5. TxnsOwned'
  BY <1>1 DEF TxnsOwned
<1>6. MapGrown'
  BY <1>1, <1>2 DEF MapGrown
<1>7. Backed'
  <2>1. headers'[h] = NoBlock /\ \A x \in Hash : x # h => headers'[x] = headers[x]
    BY <1>1 DEF StorageInv, TypeOK
  <2>2. \A x \in Hash : headers[x] # NoBlock => disk[x] = headers[x]
    BY <1>1, <1>3 DEF StorageInv, Backed
  <2>. QED BY <1>1, <1>2, <2>1, <2>2 DEF StorageInv, Backed
<1>. QED BY <1>1, <1>4, <1>5, <1>6, <1>7 DEF StorageInv

LEMMA BeginAttemptStep ==
  ASSUME StorageInv, BeginAttempt
  PROVE  StorageInv'
<1>1. /\ call.op = "insert" /\ txn = "none" /\ txn' = "open"
      /\ map_size' = IF next_resize THEN resize_db(map_size) ELSE map_size
      /\ UNCHANGED <<disk, headers, call, retry, next_resize, readers, running, panicked>>
  BY DEF BeginAttempt
<1>2. /\ map_size \in Nat /\ retry \in 0 .. Attempts /\ retry < Attempts /\ map_size >= InitialSize
      /\ (next_resize <=> retry > 0) /\ (retry > 0 => map_size >= InitialSize * 2 ^ (retry - 1))
      /\ call \in Cache!Call /\ InitialSize \in Nat /\ Attempts \in Nat
  BY <1>1, StorageAssumption DEF StorageInv, TypeOK, MapGrown
<1>3. map_size' \in Nat /\ map_size' >= InitialSize /\ map_size' >= InitialSize * 2 ^ retry
  <2>1. CASE retry > 0
    <3>1. map_size' = 2 * map_size
      BY <1>1, <1>2, <2>1 DEF resize_db
    <3>2. retry - 1 \in 0 .. Attempts /\ (retry - 1) + 1 = retry
      BY <1>2, <2>1
    <3>3. 2 * map_size >= InitialSize * 2 ^ ((retry - 1) + 1)
      BY <1>2, <2>1, <3>2, Doubled
    <3>. QED BY <1>2, <3>1, <3>2, <3>3
  <2>2. CASE retry = 0
    <3>1. map_size' = map_size
      BY <1>1, <1>2, <2>2
    <3>2. InitialSize * 2 ^ 0 = InitialSize
      BY <1>2, DoublingAssumption
    <3>. QED BY <1>2, <2>2, <3>1, <3>2
  <2>. QED BY <1>2, <2>1, <2>2
<1>4. call # NoCall
  BY <1>1 DEF NoCall, Cache!NoCall
<1>5. TypeOK'
  BY <1>1, <1>3, <1>4 DEF StorageInv, TypeOK
<1>6. TxnsOwned'
  BY <1>1, <1>4 DEF StorageInv, TxnsOwned
<1>7. MapGrown'
  BY <1>1, <1>2, <1>3 DEF MapGrown
<1>8. Backed'
  BY <1>1 DEF StorageInv, Backed
<1>. QED BY <1>1, <1>3, <1>5, <1>6, <1>7, <1>8, StorageAssumption DEF StorageInv

\* An attempt that meets a full map is never the last one.
LEMMA NeverExhausted ==
  ASSUME StorageInv, call.op = "insert", txn # "none",
         ~Fits(Size[call.hash]) \/ ~Fits(Size[call.hash] + Overhead)
  PROVE  ~Exhausted(retry + 1) /\ retry + 1 < Attempts
<1>1. /\ retry \in 0 .. Attempts /\ retry < Attempts /\ map_size >= InitialSize * 2 ^ retry
      /\ call.hash \in Hash /\ Attempts \in Nat
  BY CallTypes, StorageAssumption DEF StorageInv, TypeOK, MapGrown
<1>2. ASSUME retry + 1 = Attempts PROVE FALSE
  <2>1. retry = Attempts - 1
    BY <1>1, <1>2
  <2>2. map_size >= InitialSize * 2 ^ (Attempts - 1)
    BY <1>1, <2>1
  <2>. QED BY <1>1, <2>2, EnoughSpace DEF StorageInv
<1>. QED BY <1>1, <1>2 DEF Exhausted

LEMMA MapFullStep ==
  ASSUME StorageInv, call.op = "insert", txn # "none", MapFull,
         ~Fits(Size[call.hash]) \/ ~Fits(Size[call.hash] + Overhead)
  PROVE  StorageInv' /\ UNCHANGED <<disk, call, running>>
<1>1. ~Exhausted(retry + 1) /\ retry + 1 < Attempts
  BY NeverExhausted
<1>2. /\ retry' = retry + 1 /\ next_resize' = TRUE /\ txn' = "none" /\ call' = call
      /\ UNCHANGED <<disk, map_size, headers, readers, running, panicked>>
  BY <1>1 DEF MapFull
<1>3. /\ retry \in 0 .. Attempts /\ map_size >= InitialSize * 2 ^ retry /\ Attempts \in Nat
  BY StorageAssumption DEF StorageInv, TypeOK, MapGrown
<1>4. TypeOK'
  <2>1. retry' \in 0 .. Attempts /\ next_resize' \in BOOLEAN
    BY <1>1, <1>2, <1>3
  <2>. QED BY <1>2, <2>1 DEF StorageInv, TypeOK
<1>5. TxnsOwned'
  BY <1>2 DEF StorageInv, TxnsOwned
<1>6. MapGrown'
  <2>1. retry' > 0 /\ retry' - 1 = retry /\ retry' < Attempts
    BY <1>1, <1>2, <1>3
  <2>2. next_resize' <=> retry' > 0
    BY <1>2, <2>1
  <2>. QED BY <1>2, <1>3, <2>1, <2>2 DEF MapGrown
<1>7. Backed'
  BY <1>2 DEF StorageInv, Backed
<1>. QED BY <1>2, <1>4, <1>5, <1>6, <1>7 DEF StorageInv

LEMMA PutStep ==
  ASSUME StorageInv, Put
  PROVE  StorageInv'
<1>1. /\ call.op = "insert" /\ txn = "open" /\ txn' = "put"
      /\ UNCHANGED <<disk, map_size, headers, call, retry, next_resize, readers, running, panicked>>
  BY DEF Put
<1>. QED BY <1>1 DEF StorageInv, TypeOK, TxnsOwned, MapGrown, Backed

LEMMA CommitStep ==
  ASSUME StorageInv, Commit
  PROVE  StorageInv'
<1>1. /\ txn = "put" /\ call.op = "insert" /\ call' = NoCall /\ txn' = "none"
      /\ disk' = [disk EXCEPT ![call.hash] = call.block]
      /\ UNCHANGED <<map_size, headers, retry, next_resize, readers, running, panicked>>
  BY DEF Commit, StorageInv, TxnsOwned
<1>2. call.hash \in Hash /\ call.block \in Version /\ call # NoCall /\ NoCall.op = "none"
  BY <1>1, CallTypes DEF StorageInv, TypeOK
<1>3. NoCall \in Cache!Call
  BY DEF Cache!Call, NoCall
<1>4. TypeOK'
  BY <1>1, <1>2, <1>3 DEF StorageInv, TypeOK
<1>5. TxnsOwned'
  BY <1>1, <1>2 DEF StorageInv, TxnsOwned
<1>6. MapGrown'
  BY <1>1, <1>2 DEF MapGrown
<1>7. Backed'
  BY <1>1, <1>2 DEF StorageInv, Backed, TypeOK
<1>. QED BY <1>1, <1>4, <1>5, <1>6, <1>7 DEF StorageInv

LEMMA DeleteStep ==
  ASSUME StorageInv, Delete
  PROVE  StorageInv'
<1>1. /\ call.op = "delete" /\ txn' = "deleted"
      /\ UNCHANGED <<disk, map_size, headers, call, retry, next_resize, readers, running, panicked>>
  BY DEF Delete, StorageInv, Backed
<1>2. call # NoCall
  BY <1>1 DEF NoCall, Cache!NoCall
<1>. QED BY <1>1, <1>2 DEF StorageInv, TypeOK, TxnsOwned, MapGrown, Backed

LEMMA CommitDeleteStep ==
  ASSUME StorageInv, CommitDelete
  PROVE  StorageInv'
<1>1. /\ txn = "deleted" /\ call.op = "delete" /\ call' = NoCall /\ txn' = "none"
      /\ disk' \in {disk, [disk EXCEPT ![call.hash] = NoBlock]}
      /\ UNCHANGED <<map_size, headers, retry, next_resize, readers, running, panicked>>
  BY DEF CommitDelete, StorageInv, TxnsOwned
<1>2. call.hash \in Hash /\ call # NoCall /\ NoCall.op = "none"
  BY <1>1, CallTypes DEF StorageInv, TypeOK
<1>3. NoCall \in Cache!Call
  BY DEF Cache!Call, NoCall
<1>4. TypeOK'
  BY <1>1, <1>2, <1>3 DEF StorageInv, TypeOK
<1>5. TxnsOwned'
  BY <1>1, <1>2 DEF StorageInv, TxnsOwned
<1>6. MapGrown'
  BY <1>1, <1>2 DEF MapGrown
<1>7. Backed'
  BY <1>1, <1>2 DEF StorageInv, Backed, TypeOK
<1>. QED BY <1>1, <1>4, <1>5, <1>6, <1>7 DEF StorageInv

LEMMA ReadStep ==
  ASSUME StorageInv, NEW r \in Reader, BeginRead(r) \/ EndRead(r)
  PROVE  StorageInv'
<1>1. /\ readers' \subseteq Reader /\ (call # NoCall \/ ~running => readers' = {})
      /\ UNCHANGED <<disk, map_size, headers, call, retry, next_resize, txn, running, panicked>>
  BY DEF BeginRead, EndRead, insert_vars, StorageInv, TypeOK, TxnsOwned
<1>. QED BY <1>1 DEF StorageInv, TypeOK, TxnsOwned, MapGrown, Backed

LEMMA StopStep ==
  ASSUME StorageInv, Stop \/ Start
  PROVE  StorageInv'
<1>1. NoCall \in Cache!Call /\ NoCall.op = "none"
  BY DEF Cache!Call, NoCall, Cache!NoCall
<1>2. Nothing \in [Hash -> Version \cup {NoBlock}] /\ \A h \in Hash : Nothing[h] = NoBlock
  BY DEF Nothing, Cache!Nothing
<1>3. CASE Stop
  <2>1. /\ running' = FALSE /\ headers' = Nothing /\ call' = NoCall /\ retry' = 0
        /\ next_resize' = FALSE /\ txn' = "none" /\ readers' = {} /\ UNCHANGED <<disk, map_size, panicked>>
    BY <1>3 DEF Stop
  <2>2. running' \in BOOLEAN /\ next_resize' \in BOOLEAN /\ retry' \in 0 .. Attempts
    <3>1. running' \in BOOLEAN /\ next_resize' \in BOOLEAN
      BY <2>1
    <3>2. retry' \in 0 .. Attempts
      BY <2>1, StorageAssumption
    <3>. QED BY <3>1, <3>2
  <2>3. TypeOK'
    BY <1>1, <1>2, <2>1, <2>2 DEF StorageInv, TypeOK
  <2>. QED BY <1>1, <1>2, <2>1, <2>3 DEF StorageInv, TxnsOwned, MapGrown, Backed
<1>4. CASE Start
  <2>1. /\ running' = TRUE /\ disk' = Nothing /\ map_size' = InitialSize /\ ~running
        /\ UNCHANGED <<headers, call, retry, next_resize, txn, readers, panicked>>
    BY <1>4 DEF Start, insert_vars
  <2>2. call = NoCall /\ headers = Nothing /\ txn = "none" /\ readers = {}
    BY <2>1 DEF StorageInv, TxnsOwned
  <2>3. running' \in BOOLEAN /\ map_size' \in Nat /\ map_size' >= InitialSize
    BY <2>1, StorageAssumption
  <2>4. TypeOK'
    BY <1>1, <1>2, <2>1, <2>2, <2>3 DEF StorageInv, TypeOK
  <2>. QED BY <1>1, <1>2, <2>1, <2>2, <2>3, <2>4 DEF StorageInv, TxnsOwned, MapGrown, Backed
<1>. QED BY <1>3, <1>4

LEMMA StorageStep == StorageInv /\ [Next]_vars => StorageInv'
<1>. SUFFICES ASSUME StorageInv, [Next]_vars PROVE StorageInv'
  OBVIOUS
<1>1. CASE UNCHANGED vars
  BY <1>1 DEF vars, insert_vars, StorageInv, TypeOK, TxnsOwned, MapGrown, Backed
<1>2. ASSUME NEW h \in Hash, NEW v \in Version, AddBlock(h, v) PROVE StorageInv'
  BY <1>2, AddBlockStep
<1>3. ASSUME NEW h \in Hash, CleanUp(h) PROVE StorageInv'
  BY <1>3, CleanUpStep
<1>4. CASE BeginAttempt
  BY <1>4, BeginAttemptStep
<1>5. CASE Put
  BY <1>5, PutStep
<1>6. CASE PutFails
  BY <1>6, MapFullStep DEF PutFails
<1>7. CASE Commit
  BY <1>7, CommitStep
<1>8. CASE CommitFails
  BY <1>8, MapFullStep DEF CommitFails, StorageInv, TxnsOwned
<1>9. CASE Delete \/ CommitDelete
  BY <1>9, DeleteStep, CommitDeleteStep
<1>10. ASSUME NEW r \in Reader, BeginRead(r) \/ EndRead(r) PROVE StorageInv'
  BY <1>10, ReadStep
<1>11. CASE Stop \/ Start
  BY <1>11, StopStep
<1>. QED BY <1>1, <1>2, <1>3, <1>4, <1>5, <1>6, <1>7, <1>8, <1>9, <1>10, <1>11 DEF Next

LEMMA StorageInvariant == Spec => []StorageInv
BY StorageInit, StorageStep, PTL DEF Spec

-----------------------------------------------------------------------------
(* The theorems.                                                           *)

\* The state of the storage is well formed, and a write transaction is open only
\* inside a call.
THEOREM StorageTypeCorrectness == Spec => []TypeOK
<1>1. StorageInv => TypeOK
  BY DEF StorageInv
<1>. QED BY <1>1, StorageInvariant, PTL

\* Every header the levels hold is backed by the same block in the storage, and
\* no delete panics, after any sequence of inserts, full maps, failed deletes,
\* stops and starts.
THEOREM EveryHeaderBacked == Spec => []HeadersBacked
<1>1. StorageInv => HeadersBacked
  <2>1. NoCall.op = "none"
    BY DEF NoCall, Cache!NoCall
  <2>. QED BY <2>1 DEF StorageInv, Backed, HeadersBacked
<1>. QED BY <1>1, StorageInvariant, PTL

\* The map is resized only between the attempts of an insert or by a start, when
\* neither insert's transaction nor a reader's is open.
THEOREM ResizesAlone == Spec => ResizeAlone
<1>1. StorageInv /\ [Next]_vars => [map_size' # map_size => txn = "none" /\ readers = {}]_vars
  <2>. SUFFICES ASSUME StorageInv, Next, map_size' # map_size PROVE txn = "none" /\ readers = {}
    OBVIOUS
  <2>1. CASE BeginAttempt
    <3>1. txn = "none" /\ call.op = "insert" /\ NoCall.op = "none"
      BY <2>1 DEF BeginAttempt, NoCall, Cache!NoCall
    <3>. QED BY <3>1 DEF StorageInv, TxnsOwned
  <2>2. CASE Start
    BY <2>2 DEF Start, StorageInv, TxnsOwned
  <2>3. CASE ~(BeginAttempt \/ Start)
    BY <2>3 DEF Next, AddBlock, CleanUp, Put, PutFails, Commit, CommitFails, MapFull, Delete,
                CommitDelete, BeginRead, EndRead, Stop
  <2>. QED BY <2>1, <2>2, <2>3
<1>. QED BY <1>1, StorageInvariant, PTL DEF Spec, ResizeAlone

\* The storage implements the block cache: each of its steps is a step of
\* BlockCache or changes nothing the share chain can see.
LEMMA CacheStep == StorageInv /\ [Next]_vars => [Cache!Next]_(Cache!cache_vars)
<1>. SUFFICES ASSUME StorageInv, [Next]_vars
              PROVE  Cache!Next \/ UNCHANGED <<disk, call, running>>
  BY DEF Cache!cache_vars
<1>1. CASE UNCHANGED vars
  BY <1>1 DEF vars
<1>2. ASSUME NEW h \in Hash, NEW v \in Version, AddBlock(h, v) PROVE Cache!Next
  <2>1. [op |-> "insert", hash |-> h, block |-> v] \in Cache!Call \ {NoCall}
    BY CallKinds
  <2>. QED BY <1>2, <2>1 DEF AddBlock, HasWriteLock, NoCall, Cache!Begin, Cache!Next
<1>3. ASSUME NEW h \in Hash, CleanUp(h) PROVE Cache!Next
  <2>1. [op |-> "delete", hash |-> h] \in Cache!Call \ {NoCall}
    BY DEF Cache!Call, NoCall, Cache!NoCall
  <2>. QED BY <1>3, <2>1 DEF CleanUp, HasWriteLock, NoCall, Cache!Begin, Cache!Next
<1>4. CASE BeginAttempt \/ Put \/ Delete
  BY <1>4 DEF BeginAttempt, Put, Delete
<1>5. CASE PutFails \/ CommitFails
  BY <1>5, MapFullStep DEF PutFails, CommitFails, StorageInv, TxnsOwned
<1>6. CASE Commit
  <2>1. call.op = "insert"
    BY <1>6 DEF Commit, StorageInv, TxnsOwned
  <2>. QED BY <1>6, <2>1 DEF Commit, NoCall, Cache!EndInsert, Cache!Next
<1>7. CASE CommitDelete
  <2>1. call.op = "delete"
    BY <1>7 DEF CommitDelete, StorageInv, TxnsOwned
  <2>. QED BY <1>7, <2>1 DEF CommitDelete, NoCall, Cache!EndDelete, Cache!Next
<1>8. ASSUME NEW r \in Reader, BeginRead(r) \/ EndRead(r) PROVE UNCHANGED <<disk, call, running>>
  BY <1>8 DEF BeginRead, EndRead
<1>9. CASE Stop
  BY <1>9 DEF Stop, NoCall, Cache!Stop, Cache!Next
<1>10. CASE Start
  BY <1>10 DEF Start, Nothing, Cache!Start, Cache!Next
<1>. QED BY <1>1, <1>2, <1>3, <1>4, <1>5, <1>6, <1>7, <1>8, <1>9, <1>10 DEF Next

\* A call of the share chain takes effect at one instant and one that returns has
\* taken effect, although insert runs several transactions, gives them up on a
\* full map and resizes between them.
THEOREM ImplementsBlockCache == Spec => IsBlockCache
<1>1. Init => Cache!Init
  BY DEF Init, Cache!Init, Nothing, NoCall
<1>. QED BY <1>1, CacheStep, StorageInvariant, PTL DEF Spec, IsBlockCache, Cache!Spec
=============================================================================
