-------------------------- MODULE AffinityProtocol --------------------------
(***************************************************************************)
(* How hosts claim, use, give up and take over IPAM blocks                 *)
(* (libcalico-go/lib/ipam/ipam_block_reader_writer.go and ipam.go).        *)
(*                                                                         *)
(* A block is shared by all hosts and lives in one datastore row; that a   *)
(* host owns it is recorded in a second row, the block affinity            *)
(* (pending, confirmed, pendingDeletion).  No operation locks anything:    *)
(* each is a sequence of reads and compare-and-swap writes of the two      *)
(* rows, interleaved with those of every other process, on the same host   *)
(* or another, and any process may die between two of them.  Every action  *)
(* below is one datastore call with the code between it and the next call. *)
(***************************************************************************)
EXTENDS Naturals, FiniteSets

CONSTANTS
  Hosts, Blocks, Ordinals,   \* nodes, block CIDRs, addresses in a block
  Procs,                     \* running operations (CNI plugins, controllers, calicoctl)
  NoHost, NoBlock, NoAff,    \* no affinity / no such row
  Strict,                    \* IPAMConfig.StrictAffinity
  Ops                        \* the operations the processes of this instance perform

AllOps == {"AutoAssign", "AssignIP", "ClaimAffinity", "ReleaseAffinity", "ReleaseIPs", "Crash"}

ASSUME ConstantsAssumption ==
  /\ Blocks # {} /\ Ordinals # {} /\ NoHost \notin Hosts
  /\ Strict \in BOOLEAN
  /\ Ops \subseteq AllOps

AffStates == {"pending", "confirmed", "pendingDeletion"}

BlockRows == [aff : Hosts \cup {NoHost}, ips : SUBSET Ordinals]

ASSUME RowsAssumption == NoBlock \notin BlockRows /\ NoAff \notin AffStates

VARIABLES
  block, blkCur,      \* block rows, and who holds a current copy
  affinity, affCur,   \* affinity rows, keyed by <<host, block>>, likewise
  aged,               \* block -> its AffinityClaimTime is EmptyBlockMinReclaimAge ago
  listed,             \* block -> who listed it at its present sequence number
  pc,                 \* process -> its next datastore call
  op,                 \* process -> the operation that makes it, see below
  host, owner,        \* process -> the host it works for; whose affinity it releases
  blk, ord,           \* process -> block and (AssignIP, ReleaseIPs) address in hand
  obj,                \* process -> its copy of the block
  todo, victims       \* process -> blocks still to try; <<block, host>> to reclaim

storeVars == <<block, blkCur, affinity, affCur, aged, listed>>
args == <<op, host, owner, blk, ord, todo, victims>>
vars == <<storeVars, pc, args, obj>>

Blk == INSTANCE CASStore WITH Keys <- Blocks, Values <- BlockRows, Clients <- Procs,
                              Absent <- NoBlock, rows <- block, current <- blkCur
Aff == INSTANCE CASStore WITH Keys <- Hosts \X Blocks, Values <- AffStates, Clients <- Procs,
                              Absent <- NoAff, rows <- affinity, current <- affCur

(* AutoAssign works through the host's affine blocks (op "affine"), claims *)
(* a new one ("claim"), takes one from another host ("reclaim"), or        *)
(* borrows an address from any block ("borrow"); "ReleaseEmpty" is         *)
(* ReleaseAffinity with mustBeEmpty.  The other operations have one op.    *)

Labels ==
  {"idle", "done", "nextAffine", "queryAffinity", "find", "reclaim", "borrow", "borrowQuery",
   "gbQueryBlock", "gbQueryConfirmed", "gbPend", "gbDropStale", "gbRepend", "gbRewrite", "gbConfirm",
   "createAffinity", "readAffinity", "pendAffinity",
   "createBlock", "readWinner", "dropAffinity", "confirm", "recheck", "recheckGone",
   "assign", "requery", "assignQueryBlock",
   "relQueryAff", "relQueryBlock", "relDropStale", "relMark", "relBlock", "relDropAff",
   "releaseQuery", "releaseUpdate"}

OpNames == {"none", "affine", "claim", "reclaim", "borrow", "AssignIP", "ClaimAffinity",
            "ReleaseAffinity", "ReleaseEmpty", "ReleaseIPs"}

ReleaseLabels == {"relQueryAff", "relQueryBlock", "relDropStale", "relMark", "relBlock", "relDropAff"}

HostlessLabels == ReleaseLabels \cup {"idle", "done", "releaseQuery", "releaseUpdate"}

(* Labels between a read of the block and the write that depends on it.    *)
CopyLabels == {"gbDropStale", "gbRepend", "gbRewrite", "gbConfirm", "confirm", "recheck", "recheckGone",
               "assign", "relDropStale", "relMark", "relBlock", "releaseUpdate"}

BlocksOK ==
  /\ Blk!StoreTypeOK
  /\ aged \in [Blocks -> BOOLEAN] /\ listed \in [Blocks -> SUBSET Procs]
  /\ obj \in [Procs -> BlockRows \cup {NoBlock}]

LocalsOK ==
  /\ pc \in [Procs -> Labels] /\ op \in [Procs -> OpNames]
  /\ host \in [Procs -> Hosts \cup {NoHost}] /\ owner \in [Procs -> Hosts \cup {NoHost}]
  /\ blk \in [Procs -> Blocks] /\ ord \in [Procs -> Ordinals]
  /\ todo \in [Procs -> SUBSET Blocks] /\ victims \in [Procs -> SUBSET (Blocks \X Hosts)]

InHand ==
  \A p \in Procs :
    /\ pc[p] \in ReleaseLabels => owner[p] \in Hosts
    /\ pc[p] \notin HostlessLabels \/ op[p] = "reclaim" => host[p] \in Hosts
    /\ pc[p] \in CopyLabels => obj[p] \in BlockRows

(* Every variable has its type; releaseBlockAffinity never runs without    *)
(* the host it releases (it would refuse the empty hostname), a claim      *)
(* never without the host it is for, and no write of a block without a     *)
(* block that was read.                                                    *)
TypeOK == BlocksOK /\ Aff!StoreTypeOK /\ LocalsOK /\ InHand

AnyBlock == CHOOSE b \in Blocks : TRUE
AnyOrdinal == CHOOSE o \in Ordinals : TRUE

Init ==
  /\ Blk!StoreInit /\ Aff!StoreInit
  /\ aged = [b \in Blocks |-> FALSE] /\ listed = [b \in Blocks |-> {}]
  /\ pc = [p \in Procs |-> "idle"] /\ op = [p \in Procs |-> "none"]
  /\ host = [p \in Procs |-> NoHost] /\ owner = [p \in Procs |-> NoHost]
  /\ blk = [p \in Procs |-> AnyBlock] /\ ord = [p \in Procs |-> AnyOrdinal]
  /\ obj = [p \in Procs |-> NoBlock]
  /\ todo = [p \in Procs |-> {}] /\ victims = [p \in Procs |-> {}]

-----------------------------------------------------------------------------
(* Shorthands.                                                             *)

OwnRow(p) == <<host[p], blk[p]>>
RelRow(p) == <<owner[p], blk[p]>>

At(p, l) == pc[p] = l
Goto(p, l) == pc' = [pc EXCEPT ![p] = l]

SameBlocks == UNCHANGED <<block, blkCur, aged, listed>>
SameAffinities == UNCHANGED <<affinity, affCur>>

(* Reads; what a process learns from an affinity row is in where it goes.  *)
queryBlock(p) ==
  /\ Blk!Get(p, blk[p])
  /\ obj' = [obj EXCEPT ![p] = block[blk[p]]]
  /\ UNCHANGED <<aged, listed>>

queryAffinity(p, k) == Aff!Get(p, k) /\ UNCHANGED obj

NoSuchBlock(p) == Blk!DoesNotExist(blk[p]) /\ UNCHANGED <<aged, listed, obj>>
BlockExists(p) == Blk!AlreadyExists(blk[p]) /\ UNCHANGED <<aged, listed, obj>>
NoSuchAffinity(k) == Aff!DoesNotExist(k) /\ UNCHANGED obj
BlockConflict(p) == Blk!UpdateConflict(p, blk[p]) /\ UNCHANGED <<aged, listed, obj>>
AffinityConflict(p, k) == Aff!UpdateConflict(p, k) /\ UNCHANGED obj

(* Every write of a block row moves its SequenceNumber on.                 *)
createBlock(p, v) ==
  /\ Blk!Create(p, blk[p], v)
  /\ obj' = [obj EXCEPT ![p] = v]
  /\ listed' = [listed EXCEPT ![blk[p]] = {}]
  /\ UNCHANGED aged

\* Mutant: the revision of the copy is not compared.
updateBlockBlind(p, v) ==
  /\ block[blk[p]] # NoBlock
  /\ block' = [block EXCEPT ![blk[p]] = v]
  /\ blkCur' = [blkCur EXCEPT ![blk[p]] = {p}]
  /\ obj' = [obj EXCEPT ![p] = v]
  /\ listed' = [listed EXCEPT ![blk[p]] = {}]
  /\ UNCHANGED aged

updateBlock(p, v) ==
  /\ Blk!Update(p, blk[p], v)
  /\ obj' = [obj EXCEPT ![p] = v]
  /\ listed' = [listed EXCEPT ![blk[p]] = {}]
  /\ UNCHANGED aged

deleteBlock(p) ==
  /\ Blk!Delete(p, blk[p])
  /\ listed' = [listed EXCEPT ![blk[p]] = {}]
  /\ aged' = [aged EXCEPT ![blk[p]] = FALSE]
  /\ UNCHANGED obj

updateAffinity(p, k, s) == Aff!Update(p, k, s) /\ UNCHANGED obj

deleteAffinity(p, k) == Aff!Delete(p, k) /\ UNCHANGED obj

(* Where a claim goes on when a call it made failed: with a conflict (the  *)
(* retry loops), because the block is another host's (errBlockClaimConflict*)
(* and errStaleAffinity), or because the row is gone (any other error).    *)
AfterConflict(p) ==
  IF op[p] = "affine" THEN "queryAffinity"
  ELSE IF op[p] = "AssignIP" THEN "assignQueryBlock" ELSE "createAffinity"

AfterTaken(p) ==
  IF op[p] = "affine" THEN "nextAffine" ELSE IF op[p] = "claim" THEN "find" ELSE "done"

AfterGone(p) == IF op[p] = "affine" THEN "nextAffine" ELSE "done"

(* The claim has its block, copied as row.                                 *)
AfterClaim(p, row) ==
  IF op[p] # "ClaimAffinity" /\ (op[p] = "AssignIP" \/ row.ips # Ordinals)
  THEN "assign" ELSE AfterGone(p)

-----------------------------------------------------------------------------
(* AutoAssign: the host's affine blocks first (findOrClaimBlock).          *)

BeginAutoAssign(p, h) ==
  /\ "AutoAssign" \in Ops /\ At(p, "idle") /\ Goto(p, "nextAffine")
  /\ op' = [op EXCEPT ![p] = "affine"]
  /\ host' = [host EXCEPT ![p] = h]
  /\ todo' = [todo EXCEPT ![p] = {b \in Blocks : affinity[<<h, b>>] # NoAff}]
  /\ UNCHANGED <<storeVars, obj, owner, blk, ord, victims>>

(* getBlockFromAffinity remembers whether its copy of the affinity was     *)
(* confirmed when it starts with loading the block.                        *)
LoadBlock(state) == IF state = "confirmed" THEN "gbQueryConfirmed" ELSE "gbQueryBlock"

LookUpAffinity(p, b) ==
  /\ blk' = [blk EXCEPT ![p] = b]
  /\ \/ queryAffinity(p, <<host[p], b>>) /\ Goto(p, LoadBlock(affinity[<<host[p], b>>]))
     \/ NoSuchAffinity(<<host[p], b>>) /\ Goto(p, "nextAffine")
  /\ SameBlocks
  /\ UNCHANGED <<op, host, owner, ord, victims>>

NextAffine(p) ==
  /\ At(p, "nextAffine")
  /\ \E b \in todo[p] : LookUpAffinity(p, b) /\ todo' = [todo EXCEPT ![p] = @ \ {b}]

RetryAffine(p) ==
  /\ At(p, "queryAffinity")
  /\ LookUpAffinity(p, blk[p])
  /\ UNCHANGED todo

(* findUsableBlock lists all blocks once, and takes a CIDR nobody has a    *)
(* block for or a block of its own with space.  When there is neither it   *)
(* tries to release the affinity of blocks that were empty in the list.    *)
Usable(h, b) == block[b] # NoBlock => block[b].aff = h /\ block[b].ips # Ordinals

Reclaimable == {b \in Blocks : block[b] # NoBlock /\ block[b].ips = {} /\ block[b].aff # NoHost}

Looking(p) == At(p, "find") \/ (At(p, "nextAffine") /\ todo[p] = {})

FindFree(p) ==
  /\ Looking(p)
  /\ \E b \in Blocks : Usable(host[p], b) /\ blk' = [blk EXCEPT ![p] = b]
  /\ op' = [op EXCEPT ![p] = "claim"]
  /\ Goto(p, "createAffinity")
  /\ UNCHANGED <<storeVars, obj, host, owner, ord, todo, victims>>

ListReclaimable(p) ==
  /\ victims' = [victims EXCEPT ![p] = {<<b, block[b].aff>> : b \in Reclaimable}]
  /\ listed' = [b \in Blocks |-> IF b \in Reclaimable THEN listed[b] \cup {p} ELSE listed[b] \ {p}]
  /\ UNCHANGED <<block, blkCur, aged, obj>>

FindReclaimable(p) ==
  /\ Looking(p)
  /\ \A b \in Blocks : ~Usable(host[p], b)
  /\ op' = [op EXCEPT ![p] = "reclaim"]
  /\ ListReclaimable(p)
  /\ Goto(p, "reclaim")
  /\ SameAffinities /\ UNCHANGED <<host, owner, blk, ord, todo>>

\* Mutant: a block is reclaimed however lately it was claimed.
ReclaimNextAnyAge(p) ==
  /\ At(p, "reclaim")
  /\ \E v \in victims[p] :
       /\ victims' = [victims EXCEPT ![p] = @ \ {v}]
       /\ blk' = [blk EXCEPT ![p] = v[1]]
       /\ owner' = [owner EXCEPT ![p] = v[2]]
       /\ Goto(p, "relQueryAff")
  /\ UNCHANGED <<storeVars, obj, op, host, ord, todo>>

(* The listed copy's AffinityClaimTime decides; once the block has changed *)
(* under the copy that may be the time of an earlier claim.                *)
ReclaimNext(p) ==
  /\ At(p, "reclaim")
  /\ \E v \in victims[p] :
       /\ victims' = [victims EXCEPT ![p] = @ \ {v}]
       /\ \/ /\ aged[v[1]] \/ p \notin listed[v[1]]
             /\ blk' = [blk EXCEPT ![p] = v[1]]
             /\ owner' = [owner EXCEPT ![p] = v[2]]
             /\ Goto(p, "relQueryAff")
          \/ /\ ~aged[v[1]] \/ p \notin listed[v[1]]
             /\ UNCHANGED <<pc, blk, owner>>
  /\ UNCHANGED <<storeVars, obj, op, host, ord, todo>>

(* noFreeBlocksError: without StrictAffinity, any block with space will do *)
NoFreeBlocks(p) ==
  /\ At(p, "reclaim") /\ victims[p] = {}
  /\ IF Strict
     THEN Goto(p, "done") /\ UNCHANGED <<op, todo>>
     ELSE /\ Goto(p, "borrow")
          /\ op' = [op EXCEPT ![p] = "borrow"]
          /\ todo' = [todo EXCEPT ![p] = Blocks]
  /\ UNCHANGED <<storeVars, obj, host, owner, blk, ord, victims>>

-----------------------------------------------------------------------------
(* getBlockFromAffinity                                                    *)

UpdateOwnAffinity(p, s, next) ==
  /\ \/ updateAffinity(p, OwnRow(p), s) /\ Goto(p, next)
     \/ AffinityConflict(p, OwnRow(p)) /\ Goto(p, AfterConflict(p))
     \/ NoSuchAffinity(OwnRow(p)) /\ Goto(p, AfterGone(p))
  /\ SameBlocks /\ UNCHANGED args

\* Mutant: a block that does not exist is taken for one that was read.
GbQueryBlockMissing(p) ==
  LET mismatch == block[blk[p]].aff # host[p]
  IN
  /\ At(p, "gbQueryBlock") \/ At(p, "gbQueryConfirmed")
  /\ \/ NoSuchBlock(p) /\ Goto(p, "gbRepend")
     \/ queryBlock(p) /\ mismatch /\ Goto(p, "gbDropStale")
     \/ queryBlock(p) /\ ~mismatch /\ At(p, "gbQueryBlock") /\ Goto(p, "gbRepend")
     \/ /\ queryBlock(p) /\ ~mismatch /\ At(p, "gbQueryConfirmed")
        /\ Goto(p, AfterClaim(p, block[blk[p]]))
  /\ SameAffinities /\ UNCHANGED args

GbQueryBlock(p) ==
  LET mismatch == block[blk[p]].aff # host[p]
  IN
  /\ At(p, "gbQueryBlock") \/ At(p, "gbQueryConfirmed")
  /\ \/ NoSuchBlock(p) /\ Goto(p, "gbPend")
     \/ queryBlock(p) /\ mismatch /\ Goto(p, "gbDropStale")
     \/ queryBlock(p) /\ ~mismatch /\ At(p, "gbQueryBlock") /\ Goto(p, "gbRepend")
     \/ /\ queryBlock(p) /\ ~mismatch /\ At(p, "gbQueryConfirmed")
        /\ Goto(p, AfterClaim(p, block[blk[p]]))
  /\ SameAffinities /\ UNCHANGED args

GbPend(p) == At(p, "gbPend") /\ UpdateOwnAffinity(p, "pending", "createBlock")

GbDropStale(p) ==
  /\ At(p, "gbDropStale")
  /\ \/ deleteAffinity(p, OwnRow(p)) /\ Goto(p, AfterTaken(p))
     \/ AffinityConflict(p, OwnRow(p)) /\ Goto(p, AfterConflict(p))
     \/ NoSuchAffinity(OwnRow(p)) /\ Goto(p, AfterGone(p))
  /\ SameBlocks /\ UNCHANGED args

GbRepend(p) == At(p, "gbRepend") /\ UpdateOwnAffinity(p, "pending", "gbRewrite")

\* Mutant: the block is not rewritten before the affinity is confirmed.
GbRewriteSkipped(p) ==
  /\ At(p, "gbRewrite") /\ Goto(p, "gbConfirm")
  /\ UNCHANGED <<storeVars, args, obj>>

GbRewrite(p) ==
  /\ At(p, "gbRewrite")
  /\ \/ updateBlock(p, obj[p]) /\ Goto(p, "gbConfirm")
     \/ BlockConflict(p) /\ Goto(p, AfterConflict(p))
     \/ NoSuchBlock(p) /\ Goto(p, AfterGone(p))
  /\ SameAffinities /\ UNCHANGED args

GbConfirm(p) ==
  At(p, "gbConfirm") /\ UpdateOwnAffinity(p, "confirmed", AfterClaim(p, obj[p]))

-----------------------------------------------------------------------------
(* getPendingAffinity.  AutoAssign goes on with getBlockFromAffinity,      *)
(* AssignIP and ClaimAffinity straight with claimAffineBlock.              *)

AfterPending(p, state) == IF op[p] = "claim" THEN LoadBlock(state) ELSE "createBlock"

CreatePendingAffinity(p) ==
  /\ At(p, "createAffinity")
  /\ \/ Aff!Create(p, OwnRow(p), "pending") /\ Goto(p, AfterPending(p, "pending"))
     \/ Aff!AlreadyExists(OwnRow(p)) /\ Goto(p, "readAffinity")
  /\ SameBlocks /\ UNCHANGED <<args, obj>>

ReadAffinity(p) ==
  /\ At(p, "readAffinity")
  /\ \/ /\ queryAffinity(p, OwnRow(p))
        /\ Goto(p, IF affinity[OwnRow(p)] = "confirmed"
                   THEN AfterPending(p, "confirmed") ELSE "pendAffinity")
     \/ NoSuchAffinity(OwnRow(p)) /\ Goto(p, "done")
  /\ SameBlocks /\ UNCHANGED args

PendAffinity(p) == At(p, "pendAffinity") /\ UpdateOwnAffinity(p, "pending", AfterPending(p, "pending"))

-----------------------------------------------------------------------------
(* claimAffineBlock, confirmAffinity                                       *)

NewBlock(h) == [aff |-> h, ips |-> {}]

CreateBlock(p) ==
  /\ At(p, "createBlock")
  /\ \/ createBlock(p, NewBlock(host[p])) /\ Goto(p, "confirm")
     \/ BlockExists(p) /\ Goto(p, "readWinner")
  /\ SameAffinities /\ UNCHANGED args

ReadWinner(p) ==
  /\ At(p, "readWinner")
  /\ \/ /\ queryBlock(p)
        /\ Goto(p, IF block[blk[p]].aff = host[p] THEN "confirm" ELSE "dropAffinity")
     \/ NoSuchBlock(p) /\ Goto(p, AfterGone(p))
  /\ SameAffinities /\ UNCHANGED args

DropAffinity(p) ==
  /\ At(p, "dropAffinity") /\ Goto(p, AfterTaken(p))
  /\ \/ deleteAffinity(p, OwnRow(p))
     \/ AffinityConflict(p, OwnRow(p))
     \/ NoSuchAffinity(OwnRow(p))
  /\ SameBlocks /\ UNCHANGED args

Confirm(p) ==
  /\ At(p, "confirm")
  /\ \/ updateAffinity(p, OwnRow(p), "confirmed") /\ Goto(p, AfterClaim(p, obj[p]))
     \/ AffinityConflict(p, OwnRow(p)) /\ Goto(p, "recheck")
     \/ NoSuchAffinity(OwnRow(p)) /\ Goto(p, "recheckGone")
  /\ SameBlocks /\ UNCHANGED args

Recheck(p) ==
  LET failed == IF At(p, "recheck") THEN AfterConflict(p) ELSE AfterGone(p)
  IN
  /\ At(p, "recheck") \/ At(p, "recheckGone")
  /\ \/ /\ queryAffinity(p, OwnRow(p))
        /\ Goto(p, IF affinity[OwnRow(p)] = "confirmed" THEN AfterClaim(p, obj[p]) ELSE failed)
     \/ NoSuchAffinity(OwnRow(p)) /\ Goto(p, failed)
  /\ SameBlocks /\ UNCHANGED args

-----------------------------------------------------------------------------
(* assignFromExistingBlock, for one address.  A block that cannot serve    *)
(* the request sends AutoAssign to its next block.                         *)

Refused(p) ==
  \/ Strict /\ obj[p].aff # host[p]
  \/ obj[p].ips = Ordinals

TryNextBlock(p) ==
  IF op[p] = "borrow"
  THEN Goto(p, "borrow") /\ UNCHANGED op
  ELSE Goto(p, "nextAffine") /\ op' = [op EXCEPT ![p] = "affine"]

AssignFromBlock(p) ==
  /\ At(p, "assign") /\ op[p] # "AssignIP"
  /\ \/ Refused(p) /\ TryNextBlock(p) /\ UNCHANGED <<block, blkCur, aged, listed, obj>>
     \/ /\ ~Refused(p)
        /\ \/ /\ \E o \in Ordinals \ obj[p].ips :
                   updateBlock(p, [obj[p] EXCEPT !.ips = @ \cup {o}])
              /\ Goto(p, "done") /\ UNCHANGED op
           \/ /\ BlockConflict(p)
              /\ Goto(p, IF op[p] = "borrow" THEN "borrowQuery" ELSE "requery")
              /\ UNCHANGED op
           \/ NoSuchBlock(p) /\ TryNextBlock(p)
  /\ SameAffinities /\ UNCHANGED <<host, owner, blk, ord, todo, victims>>

Requery(p) ==
  /\ At(p, "requery") \/ At(p, "borrowQuery")
  /\ \/ queryBlock(p) /\ Goto(p, "assign") /\ UNCHANGED op
     \/ NoSuchBlock(p) /\ TryNextBlock(p)
  /\ SameAffinities /\ UNCHANGED <<host, owner, blk, ord, todo, victims>>

(* The search of all pools for any block with a free address.              *)
Borrow(p) ==
  /\ At(p, "borrow")
  /\ \E b \in todo[p] :
       /\ todo' = [todo EXCEPT ![p] = @ \ {b}]
       /\ blk' = [blk EXCEPT ![p] = b]
       /\ Goto(p, "borrowQuery")
  /\ UNCHANGED <<storeVars, obj, op, host, owner, ord, victims>>

BorrowFailed(p) ==
  /\ At(p, "borrow") /\ todo[p] = {} /\ Goto(p, "done")
  /\ UNCHANGED <<storeVars, obj, args>>

-----------------------------------------------------------------------------
(* AssignIP and ClaimAffinity                                              *)

BeginAssignIP(p, h, b, o) ==
  /\ "AssignIP" \in Ops /\ At(p, "idle") /\ Goto(p, "assignQueryBlock")
  /\ op' = [op EXCEPT ![p] = "AssignIP"]
  /\ host' = [host EXCEPT ![p] = h]
  /\ blk' = [blk EXCEPT ![p] = b]
  /\ ord' = [ord EXCEPT ![p] = o]
  /\ UNCHANGED <<storeVars, obj, owner, todo, victims>>

AssignQueryBlock(p) ==
  /\ At(p, "assignQueryBlock")
  /\ \/ queryBlock(p) /\ Goto(p, "assign")
     \/ NoSuchBlock(p) /\ Goto(p, "createAffinity")
  /\ SameAffinities /\ UNCHANGED args

AssignAddress(p) ==
  LET refused == (Strict /\ obj[p].aff # host[p]) \/ ord[p] \in obj[p].ips
  IN
  /\ At(p, "assign") /\ op[p] = "AssignIP"
  /\ \/ refused /\ Goto(p, "done") /\ UNCHANGED <<block, blkCur, aged, listed, obj>>
     \/ /\ ~refused
        /\ \/ updateBlock(p, [obj[p] EXCEPT !.ips = @ \cup {ord[p]}]) /\ Goto(p, "done")
           \/ BlockConflict(p) /\ Goto(p, "assignQueryBlock")
           \/ NoSuchBlock(p) /\ Goto(p, "done")
  /\ SameAffinities /\ UNCHANGED args

BeginClaimAffinity(p, h, b) ==
  /\ "ClaimAffinity" \in Ops /\ At(p, "idle") /\ Goto(p, "createAffinity")
  /\ op' = [op EXCEPT ![p] = "ClaimAffinity"]
  /\ host' = [host EXCEPT ![p] = h]
  /\ blk' = [blk EXCEPT ![p] = b]
  /\ UNCHANGED <<storeVars, obj, owner, ord, todo, victims>>

-----------------------------------------------------------------------------
(* releaseBlockAffinity, from ReleaseAffinity, from findUsableBlock and    *)
(* from ReleaseIPs (ensureConsistentAffinity).                             *)

BeginReleaseAffinity(p, h, b) ==
  /\ "ReleaseAffinity" \in Ops /\ At(p, "idle") /\ Goto(p, "relQueryAff")
  /\ \E o \in {"ReleaseAffinity", "ReleaseEmpty"} : op' = [op EXCEPT ![p] = o]
  /\ owner' = [owner EXCEPT ![p] = h]
  /\ blk' = [blk EXCEPT ![p] = b]
  /\ UNCHANGED <<storeVars, obj, host, ord, todo, victims>>

RequireEmpty(p) == op[p] # "ReleaseAffinity"

(* The caller's reaction: ReleaseAffinity retries a conflict, the reclaim  *)
(* loop moves to its next candidate after any error.                       *)
ReleaseFailed(p) == Goto(p, IF op[p] = "reclaim" THEN "reclaim" ELSE "done")
ReleaseConflict(p) ==
  IF op[p] \in {"ReleaseAffinity", "ReleaseEmpty"} THEN Goto(p, "relQueryAff") ELSE ReleaseFailed(p)

RelQueryAff(p) ==
  /\ At(p, "relQueryAff")
  /\ \/ queryAffinity(p, RelRow(p)) /\ Goto(p, "relQueryBlock")
     \/ NoSuchAffinity(RelRow(p)) /\ ReleaseFailed(p)
  /\ SameBlocks /\ UNCHANGED args

\* Mutant: the sequence number of the listed block is not required.
RelQueryBlockAnySeq(p) ==
  LET b == block[blk[p]]
      mismatch == b.aff \notin {NoHost, owner[p]}
      inUse == RequireEmpty(p) /\ b.ips # {}
  IN
  /\ At(p, "relQueryBlock")
  /\ \/ NoSuchBlock(p) /\ ReleaseFailed(p)
     \/ queryBlock(p) /\ mismatch /\ Goto(p, "relDropStale")
     \/ queryBlock(p) /\ ~mismatch /\ inUse /\ ReleaseFailed(p)
     \/ queryBlock(p) /\ ~mismatch /\ ~inUse /\ Goto(p, "relMark")
  /\ SameAffinities /\ UNCHANGED args

RelQueryBlock(p) ==
  LET b == block[blk[p]]
      stale == op[p] = "reclaim" /\ p \notin listed[blk[p]]
      mismatch == b.aff \notin {NoHost, owner[p]}
      inUse == RequireEmpty(p) /\ b.ips # {}
  IN
  /\ At(p, "relQueryBlock")
  /\ \/ NoSuchBlock(p) /\ ReleaseFailed(p)
     \/ queryBlock(p) /\ stale /\ ReleaseFailed(p)
     \/ queryBlock(p) /\ ~stale /\ mismatch /\ Goto(p, "relDropStale")
     \/ queryBlock(p) /\ ~stale /\ ~mismatch /\ inUse /\ ReleaseFailed(p)
     \/ queryBlock(p) /\ ~stale /\ ~mismatch /\ ~inUse /\ Goto(p, "relMark")
  /\ SameAffinities /\ UNCHANGED args

RelDropStale(p) ==
  /\ At(p, "relDropStale") /\ ReleaseFailed(p)
  /\ \/ deleteAffinity(p, RelRow(p))
     \/ AffinityConflict(p, RelRow(p))
     \/ NoSuchAffinity(RelRow(p))
  /\ SameBlocks /\ UNCHANGED args

\* Mutant: the affinity is not marked as pendingDeletion.
RelMarkSkipped(p) == At(p, "relMark") /\ Goto(p, "relBlock") /\ UNCHANGED <<storeVars, args, obj>>

RelMark(p) ==
  /\ At(p, "relMark")
  /\ \/ updateAffinity(p, RelRow(p), "pendingDeletion") /\ Goto(p, "relBlock")
     \/ AffinityConflict(p, RelRow(p)) /\ ReleaseConflict(p)
     \/ NoSuchAffinity(RelRow(p)) /\ ReleaseFailed(p)
  /\ SameBlocks /\ UNCHANGED args

\* Mutant: an empty block is deleted whatever its revision is by now.
RelBlockBlind(p) ==
  /\ At(p, "relBlock") /\ Goto(p, "relDropAff")
  /\ block' = [block EXCEPT ![blk[p]] = IF obj[p].ips = {} THEN NoBlock ELSE @]
  /\ blkCur' = [blkCur EXCEPT ![blk[p]] = {}]
  /\ SameAffinities /\ UNCHANGED <<args, obj, aged, listed>>

RelBlock(p) ==
  /\ At(p, "relBlock")
  /\ \/ obj[p].ips = {} /\ deleteBlock(p) /\ Goto(p, "relDropAff")
     \/ obj[p].ips # {} /\ updateBlock(p, [obj[p] EXCEPT !.aff = NoHost]) /\ Goto(p, "relDropAff")
     \/ BlockConflict(p) /\ ReleaseConflict(p)
     \/ obj[p].ips = {} /\ NoSuchBlock(p) /\ Goto(p, "relDropAff")
     \/ obj[p].ips # {} /\ NoSuchBlock(p) /\ ReleaseFailed(p)
  /\ SameAffinities /\ UNCHANGED args

RelDropAff(p) ==
  LET released == /\ Goto(p, IF op[p] = "reclaim" THEN "createAffinity" ELSE "done")
                  /\ op' = [op EXCEPT ![p] = IF @ = "reclaim" THEN "claim" ELSE @]
  IN
  /\ At(p, "relDropAff")
  /\ \/ deleteAffinity(p, RelRow(p)) /\ released
     \/ NoSuchAffinity(RelRow(p)) /\ released
     \/ AffinityConflict(p, RelRow(p)) /\ ReleaseConflict(p) /\ UNCHANGED op
  /\ SameBlocks /\ UNCHANGED <<host, owner, blk, ord, todo, victims>>

-----------------------------------------------------------------------------
(* ReleaseIPs (releaseIPsFromBlock), for one address.                      *)

BeginReleaseIPs(p, b, o) ==
  /\ "ReleaseIPs" \in Ops /\ At(p, "idle") /\ Goto(p, "releaseQuery")
  /\ op' = [op EXCEPT ![p] = "ReleaseIPs"]
  /\ blk' = [blk EXCEPT ![p] = b]
  /\ ord' = [ord EXCEPT ![p] = o]
  /\ UNCHANGED <<storeVars, obj, host, owner, todo, victims>>

ReleaseQuery(p) ==
  /\ At(p, "releaseQuery")
  /\ \/ queryBlock(p) /\ Goto(p, IF ord[p] \in block[blk[p]].ips THEN "releaseUpdate" ELSE "done")
     \/ NoSuchBlock(p) /\ Goto(p, "done")
  /\ SameAffinities /\ UNCHANGED args

(* ensureConsistentAffinity gives the block up if its pool does not select *)
(* the node any more, which may be the case at any time.                   *)
EnsureConsistentAffinity(p) ==
  \/ Goto(p, "done") /\ UNCHANGED owner
  \/ /\ obj[p].aff # NoHost
     /\ owner' = [owner EXCEPT ![p] = obj[p].aff]
     /\ Goto(p, "relQueryAff")

ReleaseUpdate(p) ==
  LET b == [obj[p] EXCEPT !.ips = @ \ {ord[p]}]
      deletes == b.ips = {} /\ b.aff = NoHost
  IN
  /\ At(p, "releaseUpdate")
  /\ \/ deletes /\ deleteBlock(p) /\ EnsureConsistentAffinity(p)
     \/ ~deletes /\ updateBlock(p, b) /\ EnsureConsistentAffinity(p)
     \/ BlockConflict(p) /\ Goto(p, "releaseQuery") /\ UNCHANGED owner
     \/ NoSuchBlock(p) /\ Goto(p, "done") /\ UNCHANGED owner
  /\ SameAffinities /\ UNCHANGED <<op, host, blk, ord, todo, victims>>

-----------------------------------------------------------------------------
(* The operation returns; or its process dies, at any point of it.         *)
Return(p) ==
  /\ Goto(p, "idle")
  /\ Blk!Forget(p) /\ Aff!Forget(p)
  /\ listed' = [b \in Blocks |-> listed[b] \ {p}]
  /\ op' = [op EXCEPT ![p] = "none"]
  /\ host' = [host EXCEPT ![p] = NoHost] /\ owner' = [owner EXCEPT ![p] = NoHost]
  /\ blk' = [blk EXCEPT ![p] = AnyBlock] /\ ord' = [ord EXCEPT ![p] = AnyOrdinal]
  /\ obj' = [obj EXCEPT ![p] = NoBlock]
  /\ todo' = [todo EXCEPT ![p] = {}] /\ victims' = [victims EXCEPT ![p] = {}]
  /\ UNCHANGED <<block, affinity, aged>>

Done(p) == At(p, "done") /\ Return(p)

Crash(p) == "Crash" \in Ops /\ pc[p] \notin {"idle", "done"} /\ Return(p)

(* EmptyBlockMinReclaimAge passes since the block was claimed.             *)
AgeBlock(b) ==
  /\ block[b] # NoBlock /\ ~aged[b]
  /\ aged' = [aged EXCEPT ![b] = TRUE]
  /\ UNCHANGED <<block, blkCur, affinity, affCur, listed, pc, args, obj>>

-----------------------------------------------------------------------------
Begin(p) ==
  \/ \E h \in Hosts : BeginAutoAssign(p, h)
  \/ \E h \in Hosts, b \in Blocks, o \in Ordinals : BeginAssignIP(p, h, b, o)
  \/ \E h \in Hosts, b \in Blocks : BeginClaimAffinity(p, h, b)
  \/ \E h \in Hosts, b \in Blocks : BeginReleaseAffinity(p, h, b)
  \/ \E b \in Blocks, o \in Ordinals : BeginReleaseIPs(p, b, o)

Step(p) ==
  \/ NextAffine(p) \/ RetryAffine(p) \/ FindFree(p) \/ FindReclaimable(p)
  \/ ReclaimNext(p) \/ NoFreeBlocks(p)
  \/ GbQueryBlock(p) \/ GbPend(p) \/ GbDropStale(p)
  \/ GbRepend(p) \/ GbRewrite(p) \/ GbConfirm(p)
  \/ CreatePendingAffinity(p) \/ ReadAffinity(p) \/ PendAffinity(p)
  \/ CreateBlock(p) \/ ReadWinner(p) \/ DropAffinity(p) \/ Confirm(p) \/ Recheck(p)
  \/ AssignFromBlock(p) \/ Requery(p) \/ Borrow(p) \/ BorrowFailed(p)
  \/ AssignQueryBlock(p) \/ AssignAddress(p)
  \/ RelQueryAff(p) \/ RelQueryBlock(p) \/ RelDropStale(p)
  \/ RelMark(p) \/ RelBlock(p) \/ RelDropAff(p)
  \/ ReleaseQuery(p) \/ ReleaseUpdate(p) \/ Done(p)

Next ==
  \/ \E p \in Procs : Begin(p) \/ Step(p) \/ Crash(p)
  \/ \E b \in Blocks : AgeBlock(b)

Spec == Init /\ [][Next]_vars

-----------------------------------------------------------------------------
(* A confirmed affinity is the truth: the block exists and carries the     *)
(* same host (confirmAffinity is only reached with the block in hand; the  *)
(* host's BGP daemon advertises the block's route on the strength of it).  *)
ConfirmedOwned ==
  \A h \in Hosts, b \in Blocks :
    affinity[<<h, b>>] = "confirmed" => block[b] # NoBlock /\ block[b].aff = h

(* An address in use goes out of use only by the ReleaseIPs that names it: *)
(* no release, reclaim or claim of a block loses an allocation.            *)
AllocationsKept ==
  [][\A b \in Blocks : \A o \in Ordinals :
       /\ block[b] # NoBlock /\ o \in block[b].ips
       /\ ~(block'[b] # NoBlock /\ o \in block'[b].ips)
       => \E p \in Procs : pc[p] = "releaseUpdate" /\ blk[p] = b /\ ord[p] = o /\ pc'[p] # pc[p]]_vars

(* An assignment that succeeds adds one address that nobody had, and under *)
(* StrictAffinity it takes it from a block of the host's own: two          *)
(* processes that chose it from equal copies do not both get it.           *)
AddressesGrantedOnce ==
  [][\A p \in Procs : pc[p] = "assign" /\ pc'[p] = "done" /\ obj'[p] # obj[p] =>
       LET b == blk[p] IN
       /\ \E o \in Ordinals \ block[b].ips : block' = [block EXCEPT ![b].ips = @ \cup {o}]
       /\ Strict => block[b].aff = host[p]]_vars

(* While a host is giving a block up (pendingDeletion), no other host      *)
(* claims it.                                                              *)
NotReclaimedWhileGivenUp ==
  \A h \in Hosts, b \in Blocks :
    affinity[<<h, b>>] = "pendingDeletion" /\ block[b] # NoBlock => block[b].aff \in {h, NoHost}

(* findUsableBlock takes a block from another host only in the very        *)
(* version it listed (RequiredBlockSequenceNumber): never one that has     *)
(* been claimed afresh, or used, since.                                    *)
ReclaimsWhatItListed ==
  [][\A p \in Procs :
       pc[p] = "relBlock" /\ op[p] = "reclaim" /\ block'[blk[p]] # block[blk[p]] /\ pc'[p] # pc[p]
         => p \in listed[blk[p]] /\ block[blk[p]].ips = {} /\ aged[blk[p]]]_vars

(* Operations that get in each other's way do not do so for ever: while    *)
(* one is under way, one comes to an end.                                  *)
SomeOperationEnds ==
  (\E p \in Procs : pc[p] # "idle") ~> (\E p \in Procs : pc[p] = "done")

-----------------------------------------------------------------------------
(* Why ConfirmedOwned holds: the inductive invariant, in parts.  It needs  *)
(* DirectClaims, the two operations that go from getPendingAffinity        *)
(* straight to claimAffineBlock, to be left out of Ops.                    *)

DirectClaims == {"AssignIP", "ClaimAffinity"}

NoDirectClaims == Ops \cap DirectClaims = {}

(* Which operation a process can be in at which of its calls.              *)
ClaimPhase ==
  {"gbQueryBlock", "gbQueryConfirmed", "gbPend", "gbDropStale", "gbRepend", "gbRewrite", "gbConfirm",
   "createAffinity", "readAffinity", "pendAffinity",
   "createBlock", "readWinner", "dropAffinity", "confirm", "recheck", "recheckGone"}

OpsInPlace(p) ==
  /\ op[p] \in DirectClaims => op[p] \in Ops
  /\ pc[p] \in {"nextAffine", "queryAffinity"} => op[p] = "affine"
  /\ pc[p] = "assignQueryBlock" => op[p] = "AssignIP"
  /\ pc[p] \in {"createAffinity", "readAffinity", "pendAffinity"} => op[p] \in {"claim"} \cup DirectClaims
  /\ pc[p] \in ClaimPhase => op[p] \in {"affine", "claim"} \cup DirectClaims

(* A copy that would pass the compare-and-swap is the row.                 *)
CopyIsRow(p) == pc[p] \in CopyLabels /\ p \in blkCur[blk[p]] => obj[p] = block[blk[p]]

(* What was checked of the copy on the way.                                *)
CopyChecked(p) ==
  /\ pc[p] \in {"gbRepend", "gbRewrite", "gbConfirm", "confirm"} => obj[p].aff = host[p]
  /\ pc[p] \in {"relMark", "relBlock"} => obj[p].aff \in {owner[p], NoHost}
  /\ pc[p] \in {"relMark", "relBlock"} /\ op[p] # "ReleaseAffinity" => obj[p].ips = {}

(* A reclaim that can still delete the block has it in the version listed. *)
ReclaimsFresh(p) ==
  op[p] = "reclaim" =>
    /\ pc[p] \in ReleaseLabels /\ p \in listed[blk[p]] => aged[blk[p]]
    /\ pc[p] \in {"relMark", "relBlock"} /\ p \in blkCur[blk[p]] => p \in listed[blk[p]]

Reliable(p) == OpsInPlace(p) /\ CopyIsRow(p) /\ CopyChecked(p) /\ ReclaimsFresh(p)

AbsentUnheld ==
  /\ \A b \in Blocks : block[b] = NoBlock => blkCur[b] = {} /\ listed[b] = {}
  /\ \A k \in Hosts \X Blocks : affinity[k] = NoAff => affCur[k] = {}

(* The two writes of a releaser: the affinity is marked before the block   *)
(* is touched, so a releaser that can still change the block and a claimer *)
(* that can still confirm the affinity exclude each other.                 *)
CanDisown(p, h, b) ==
  pc[p] = "relBlock" /\ owner[p] = h /\ blk[p] = b /\ p \in blkCur[b]

ReleasesMarked ==
  \A p \in Procs, h \in Hosts, b \in Blocks :
    CanDisown(p, h, b) => affinity[<<h, b>>] # "confirmed"

ClaimLabels == {"gbPend", "createBlock", "readWinner", "confirm", "gbConfirm"}

ClaimsUndisturbed ==
  \A p \in Procs : pc[p] \in ClaimLabels /\ p \in affCur[OwnRow(p)] =>
    /\ \A q \in Procs : ~CanDisown(q, host[p], blk[p])
    /\ pc[p] \in {"confirm", "gbConfirm"} =>
         block[blk[p]] # NoBlock /\ block[blk[p]].aff = host[p]

(* Every process between two datastore calls can rely on what it has read: *)
(* the conjunction that is preserved by every step.                        *)
ProtocolInv ==
  /\ TypeOK /\ AbsentUnheld /\ \A p \in Procs : Reliable(p)
  /\ ReleasesMarked /\ ClaimsUndisturbed /\ ConfirmedOwned

=============================================================================
