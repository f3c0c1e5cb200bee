---------------------------- MODULE ReleaseBatch ----------------------------
(***************************************************************************)
(* ReleaseIPs for more than two addresses (libcalico-go/lib/ipam/ipam.go). *)
(*                                                                         *)
(* It lists all handles first, then starts a goroutine per block, and each *)
(* goroutine's decrementHandle begins with the listed copy of the handle   *)
(* in place of a read.  The goroutines share these copies: decrementBlock  *)
(* changes the one object in place, and what a goroutine writes is the     *)
(* object as the others have left it.  Everything else they do is          *)
(* HandleAccounting's ReleaseIPs.                                          *)
(*                                                                         *)
(* This is the Kubernetes datastore, whose Update leaves the object it is  *)
(* given alone.  The etcd client's Update also stores the new revision in  *)
(* it, so that there two writes of the copy would have to be in flight     *)
(* together to conflict.                                                   *)
(***************************************************************************)
EXTENDS HandleAccounting, FiniteSetsExt

VARIABLES
  batch,      \* the goroutines of the ReleaseIPs call, {} if none runs
  cache,      \* handle -> the listed copy, as changed by the goroutines since
  cacheCur,   \* the handles whose listed copy still has the row's revision
  tried,      \* goroutine -> handles it has decremented in the listed copy
  writing     \* goroutines between decrementBlock and the write of the copy

batchVars == <<batch, cache, cacheCur, tried, writing>>
allVars == <<vars, batchVars>>

BatchInit ==
  /\ Init /\ batch = {} /\ writing = {}
  /\ cache = [h \in Handles |-> NoHandle] /\ cacheCur = {}
  /\ tried = [p \in Procs |-> {}]

(* More than two addresses, grouped by block, a goroutine for each block.  *)
BeginBatch ==
  /\ batch = {}
  /\ \E G \in SUBSET {p \in Procs : At(p, "idle")} :
       /\ G # {} /\ batch' = G
       /\ pc' = [p \in Procs |-> IF p \in G THEN "relQuery" ELSE pc[p]]
       /\ op' = [p \in Procs |-> IF p \in G THEN "ReleaseIPs" ELSE op[p]]
       /\ \E bs \in [G -> Blocks] :
            /\ \A p, q \in G : p # q => bs[p] # bs[q]
            /\ blk' = [p \in Procs |-> IF p \in G THEN bs[p] ELSE blk[p]]
       /\ \E ss \in [G -> SUBSET Ordinals \ {{}}] :
            /\ MapThenSumSet(LAMBDA p : Cardinality(ss[p]), G) > 2
            /\ take' = [p \in Procs |-> IF p \in G THEN ss[p] ELSE take[p]]
  /\ cache' = handle
  /\ cacheCur' = {h \in Handles : handle[h] # NoHandle}
  /\ UNCHANGED <<stores, hdl, num, want, obj, hobj, due, ret, left, tried, writing>>

(* The first iteration of decrementHandle, with a copy: decrementBlock on  *)
(* the shared object ...                                                   *)
CachedDecrement(p) ==
  /\ p \in batch \ writing /\ At(p, "decQuery")
  /\ \E h \in Owing(p) \ tried[p] :
       /\ cache[h] # NoHandle
       /\ tried' = Set(tried, p, tried[p] \cup {h})
       /\ IF cache[h][blk[p]] < due[p][h]
          THEN Settled(p, h) /\ UNCHANGED <<hdl, cache, writing>>
          ELSE /\ cache' = Set(cache, h, decrementBlock(cache[h], blk[p], due[p][h]))
               /\ writing' = writing \cup {p}
               /\ hdl' = Set(hdl, p, h) /\ UNCHANGED <<pc, due>>
  /\ UNCHANGED <<stores, op, blk, num, want, take, obj, hobj, ret, left, batch, cacheCur>>

(* ... and the write of that object.  After a conflict decrementHandle     *)
(* reads the row and goes on with a copy of its own.                       *)
CachedWrite(p) ==
  LET h == hdl[p] IN
  /\ p \in writing /\ writing' = writing \ {p}
  /\ IF h \in cacheCur
     THEN /\ handle' = Set(handle, h, IF cache[h] = NewRow THEN NoHandle ELSE cache[h])
          /\ hdlCur' = Set(hdlCur, h, {}) /\ cacheCur' = cacheCur \ {h}
          /\ Settled(p, h)
     ELSE /\ IF handle[h] = NoHandle THEN Settled(p, h) ELSE UNCHANGED <<pc, due>>
          /\ SameHandles /\ UNCHANGED cacheCur
  /\ SameBlocks
  /\ UNCHANGED <<op, hdl, blk, num, want, take, obj, hobj, ret, left, batch, cache, tried>>

(* A decrement without a listed copy, or a retry, is HandleAccounting's;   *)
(* so is every step of other operations.                                   *)
OwnSteps(p) ==
  /\ p \notin writing
  /\ p \in batch /\ At(p, "decQuery") => \A h \in Owing(p) : h \in tried[p] \/ cache[h] = NoHandle
  /\ Step(p)
  /\ batch' = {q \in batch : pc'[q] # "idle"}
  /\ tried' = [q \in Procs |-> IF q \in batch' THEN tried[q] ELSE {}]
  /\ cache' = IF batch' = {} THEN [h \in Handles |-> NoHandle] ELSE cache
  /\ cacheCur' = {h \in cacheCur : handle'[h] = handle[h] /\ batch' # {}}
  /\ UNCHANGED writing

Affinities ==
  /\ \E b \in Blocks : ClaimBlock(b) \/ ReleaseAffinity(b)
  /\ UNCHANGED batchVars

BatchNext ==
  \/ BeginBatch \/ Affinities
  \/ \E p \in Procs : CachedDecrement(p) \/ CachedWrite(p) \/ OwnSteps(p)

BatchSpec == BatchInit /\ [][BatchNext]_allVars

=============================================================================
