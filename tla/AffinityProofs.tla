--------------------------- MODULE AffinityProofs ---------------------------
(***************************************************************************)
(* Type correctness of AffinityProtocol: every datastore call keeps the    *)
(* types (one lemma per call), every step of an operation is made of such  *)
(* calls, and so TypeOK is an invariant for any number of hosts, blocks,   *)
(* addresses and processes.  Then what a step does to the two rows and to  *)
(* the other processes (Moves), and that the datastore calls do no more    *)
(* than that.                                                              *)
(* Every step of every operation is one of those moves, and leaves the     *)
(* process that takes it with a copy it can rely on.  So ProtocolInv is    *)
(* inductive while blocks are claimed only by AutoAssign, and with it a    *)
(* confirmed affinity is the truth and a reclaim takes only what it        *)
(* listed.  The parts of the invariant that relate two processes follow    *)
(* from the summaries of the moves alone.  The last section is about all   *)
(* operations: the copies that can pass a compare-and-swap are current     *)
(* (CopiesCurrent), so no allocation is lost and no address granted twice. *)
(***************************************************************************)
EXTENDS AffinityProtocol, TLAPS

-----------------------------------------------------------------------------
(* The datastore calls keep the types.                                     *)

(* What the operations write back to a block row is again a block row.     *)
LEMMA RowTypes ==
  ASSUME NEW r \in BlockRows, NEW o \in Ordinals
  PROVE  /\ r.aff \in Hosts \cup {NoHost}
         /\ [r EXCEPT !.ips = @ \cup {o}] \in BlockRows
         /\ [r EXCEPT !.ips = @ \ {o}] \in BlockRows
         /\ [r EXCEPT !.aff = NoHost] \in BlockRows
  BY Zenon DEF BlockRows

(* So is the row claimAffineBlock creates.                                 *)
LEMMA NewRowTypes ==
  \A h \in Hosts : NewBlock(h) \in BlockRows
  BY Zenon DEF BlockRows, NewBlock

OthersCopies(p) == \A q \in Procs \ {p} : obj'[q] = obj[q]

(* queryBlock keeps the types, and gives only its caller a new copy.       *)
LEMMA BlockReadTypes ==
  ASSUME BlocksOK, LocalsOK, NEW p \in Procs, queryBlock(p)
  PROVE  BlocksOK' /\ obj'[p] \in BlockRows /\ OthersCopies(p)
<1>1. blk[p] \in Blocks /\ block[blk[p]] \in BlockRows
  BY Zenon DEF queryBlock, Blk!Get, BlocksOK, Blk!StoreTypeOK, LocalsOK
<1>2. Blk!StoreTypeOK'
  BY <1>1, Zenon DEF queryBlock, Blk!Get, BlocksOK, Blk!StoreTypeOK
<1> QED
  BY <1>1, <1>2, Zenon DEF queryBlock, BlocksOK, OthersCopies

(* So do updateBlock and the creation of a block.                          *)
LEMMA BlockWriteTypes ==
  ASSUME BlocksOK, LocalsOK, NEW p \in Procs, NEW v \in BlockRows, updateBlock(p, v) \/ createBlock(p, v)
  PROVE  BlocksOK' /\ obj'[p] \in BlockRows /\ OthersCopies(p)
<1>1. blk[p] \in Blocks
  BY Zenon DEF LocalsOK
<1>2. Blk!StoreTypeOK'
  BY <1>1 DEF updateBlock, createBlock, Blk!Update, Blk!Create, BlocksOK, Blk!StoreTypeOK
<1>3. /\ obj' = [obj EXCEPT ![p] = v]
      /\ listed' = [listed EXCEPT ![blk[p]] = {}]
      /\ aged' = aged
  BY Zenon DEF updateBlock, createBlock
<1> QED
  BY <1>1, <1>2, <1>3, Zenon DEF BlocksOK, OthersCopies

(* deleteBlock keeps the types and all the copies.                         *)
LEMMA BlockDeleteTypes ==
  ASSUME BlocksOK, LocalsOK, NEW p \in Procs, deleteBlock(p)
  PROVE  BlocksOK' /\ obj' = obj
<1>1. blk[p] \in Blocks
  BY Zenon DEF LocalsOK
<1>2. Blk!StoreTypeOK'
  BY <1>1, Zenon DEF deleteBlock, Blk!Delete, BlocksOK, Blk!StoreTypeOK
<1> QED
  BY <1>1, <1>2, Zenon DEF deleteBlock, BlocksOK

(* So does a block call that answers with an error.                        *)
LEMMA BlockMissTypes ==
  ASSUME BlocksOK, NEW p \in Procs,
         NoSuchBlock(p) \/ BlockConflict(p) \/ BlockExists(p) \/ (SameBlocks /\ UNCHANGED obj)
  PROVE  BlocksOK' /\ obj' = obj
  BY Zenon DEF NoSuchBlock, BlockConflict, BlockExists, SameBlocks, Blk!AlreadyExists, Blk!DoesNotExist,
         Blk!UpdateConflict, Blk!storeVars, BlocksOK, Blk!StoreTypeOK

(* The list of reclaimable blocks pairs each of them with the host that    *)
(* holds it.                                                               *)
LEMMA ListTypes ==
  ASSUME BlocksOK, LocalsOK, NEW p \in Procs, ListReclaimable(p)
  PROVE  BlocksOK' /\ obj' = obj /\ victims' \in [Procs -> SUBSET (Blocks \X Hosts)]
<1>1. ASSUME NEW b \in Reclaimable PROVE <<b, block[b].aff>> \in Blocks \X Hosts
  <2>1. b \in Blocks /\ block[b] \in BlockRows /\ block[b].aff # NoHost
    BY <1>1, Zenon DEF Reclaimable, BlocksOK, Blk!StoreTypeOK
  <2> QED
    BY <2>1, Zenon DEF BlockRows
<1>2. {<<b, block[b].aff>> : b \in Reclaimable} \in SUBSET (Blocks \X Hosts)
  BY <1>1, Zenon
<1>3. victims' \in [Procs -> SUBSET (Blocks \X Hosts)]
  BY <1>2, Zenon DEF ListReclaimable, LocalsOK
<1>4. listed' \in [Blocks -> SUBSET Procs]
  BY Zenon DEF ListReclaimable, BlocksOK
<1> QED
  BY <1>3, <1>4, Zenon DEF ListReclaimable, BlocksOK, Blk!StoreTypeOK

(* An operation that returns, or dies, leaves its process with well-typed  *)
(* locals.                                                                 *)
LEMMA ReturnTypes ==
  ASSUME TypeOK, NEW p \in Procs, Return(p)
  PROVE  TypeOK'
<1>1. blk' \in [Procs -> Blocks] /\ ord' \in [Procs -> Ordinals]
  BY Zenon DEF TypeOK, LocalsOK, Return, AnyBlock, AnyOrdinal
<1>2. BlocksOK' /\ OthersCopies(p)
  BY Zenon DEF TypeOK, BlocksOK, Return, Blk!StoreTypeOK, Blk!Forget, OthersCopies
<1>3. Aff!StoreTypeOK'
  BY Zenon DEF TypeOK, Return, Aff!StoreTypeOK, Aff!Forget
<1>4. LocalsOK'
  BY <1>1, Zenon DEF TypeOK, LocalsOK, Return, Goto, Labels, OpNames
<1>5. InHand'
  BY <1>2, Zenon DEF TypeOK, LocalsOK, InHand, Return, Goto, HostlessLabels, ReleaseLabels, CopyLabels, OthersCopies
<1> QED
  BY <1>2, <1>3, <1>4, <1>5, Zenon DEF TypeOK

(* Every call on an affinity row keeps the types of those rows.            *)
LEMMA AffinityCallTypes ==
  ASSUME Aff!StoreTypeOK, NEW p \in Procs, NEW k \in Hosts \X Blocks, NEW s \in AffStates,
         \/ queryAffinity(p, k) \/ updateAffinity(p, k, s) \/ deleteAffinity(p, k)
         \/ NoSuchAffinity(k) \/ AffinityConflict(p, k)
         \/ Aff!Create(p, k, s) \/ Aff!AlreadyExists(k)
  PROVE  Aff!StoreTypeOK'
<1> USE DEF Aff!StoreTypeOK
<1>1. CASE Aff!Get(p, k)
  BY <1>1, Zenon DEF Aff!Get
<1>2. CASE Aff!Update(p, k, s) \/ Aff!Create(p, k, s)
  BY <1>2 DEF Aff!Update, Aff!Create
<1>3. CASE Aff!Delete(p, k)
  BY <1>3, Zenon DEF Aff!Delete
<1>4. CASE UNCHANGED Aff!storeVars
  BY <1>4, Zenon DEF Aff!storeVars
<1> QED
  BY <1>1, <1>2, <1>3, <1>4, Zenon DEF queryAffinity, updateAffinity, deleteAffinity, NoSuchAffinity, AffinityConflict,
     Aff!DoesNotExist, Aff!UpdateConflict, Aff!AlreadyExists

(* The three states of an affinity row (model/block_affinity.go).          *)
LEMMA StateNames ==
  "pending" \in AffStates /\ "confirmed" \in AffStates /\ "pendingDeletion" \in AffStates
  BY Zenon DEF AffStates

(* A step that changes neither host nor owner leaves the process with what *)
(* its next call needs if it is so of that process.                        *)
LEMMA HandsKept ==
  ASSUME InHand, NEW p \in Procs, UNCHANGED <<host, owner>>,
         \A q \in Procs \ {p} : pc'[q] = pc[q] /\ op'[q] = op[q],
         OthersCopies(p), pc'[p] \in CopyLabels => obj'[p] \in BlockRows,
         pc'[p] \in ReleaseLabels => owner[p] \in Hosts,
         host[p] \in Hosts \/ (pc'[p] \in HostlessLabels /\ op'[p] # "reclaim")
  PROVE  InHand'
  BY Zenon DEF InHand, OthersCopies

(* Every step of an operation keeps the types.                             *)
LEMMA StepTypes ==
  ASSUME TypeOK, NEW p \in Procs, Step(p)
  PROVE  TypeOK'
<1> USE ConstantsAssumption DEF TypeOK, At, Goto, args, SameBlocks, SameAffinities, OwnRow, RelRow, storeVars
<1>1. CASE NextAffine(p)
  <2>1. BlocksOK' /\ OthersCopies(p) /\ (pc'[p] \in CopyLabels => obj'[p] \in BlockRows)
    BY <1>1, BlockMissTypes DEF NextAffine, LookUpAffinity, queryAffinity, LoadBlock,
       NoSuchAffinity, LocalsOK, InHand, CopyLabels, HostlessLabels, OthersCopies
  <2>2. Aff!StoreTypeOK'
    BY <1>1, AffinityCallTypes, StateNames, Zenon DEF NextAffine, LookUpAffinity, LoadBlock, LocalsOK,
       InHand, HostlessLabels, ReleaseLabels
  <2>3. LocalsOK'
    BY <1>1 DEF NextAffine, LookUpAffinity, LoadBlock, LocalsOK, InHand, CopyLabels, Labels, OpNames
  <2>4. InHand'
    BY <1>1, <2>1 DEF NextAffine, LookUpAffinity, LoadBlock, LocalsOK, InHand, HostlessLabels,
       ReleaseLabels, CopyLabels, OthersCopies
  <2> QED
    BY <2>1, <2>2, <2>3, <2>4, Zenon
<1>2. CASE RetryAffine(p)
  <2>1. BlocksOK' /\ OthersCopies(p) /\ (pc'[p] \in CopyLabels => obj'[p] \in BlockRows)
    BY <1>2, BlockMissTypes, Zenon DEF RetryAffine, LookUpAffinity, queryAffinity, LoadBlock,
       NoSuchAffinity, LocalsOK, InHand, CopyLabels, HostlessLabels, OthersCopies
  <2>2. Aff!StoreTypeOK'
    BY <1>2, AffinityCallTypes, StateNames, Zenon DEF RetryAffine, LookUpAffinity, LoadBlock, LocalsOK,
       InHand, HostlessLabels, ReleaseLabels
  <2>3. LocalsOK'
    BY <1>2, ZenonT(30) DEF RetryAffine, LookUpAffinity, LoadBlock, LocalsOK, InHand, CopyLabels, Labels,
       OpNames
  <2>4. InHand'
    BY <1>2, <2>1 DEF RetryAffine, LookUpAffinity, LoadBlock, LocalsOK, InHand, HostlessLabels,
       ReleaseLabels, CopyLabels, OthersCopies
  <2> QED
    BY <2>1, <2>2, <2>3, <2>4, Zenon
<1>3. CASE FindFree(p)
  <2>1. BlocksOK' /\ OthersCopies(p) /\ (pc'[p] \in CopyLabels => obj'[p] \in BlockRows)
    BY <1>3, BlockMissTypes, Zenon DEF FindFree, Looking, Usable, LocalsOK, InHand, CopyLabels,
       HostlessLabels, OthersCopies
  <2>2. Aff!StoreTypeOK'
    BY <1>3, Zenon DEF FindFree, Looking, Usable, LocalsOK, InHand, HostlessLabels, ReleaseLabels,
       Aff!StoreTypeOK
  <2>3. LocalsOK'
    BY <1>3, RowTypes DEF FindFree, Looking, Usable, LocalsOK, InHand, CopyLabels, Labels, OpNames
  <2>4. InHand'
    BY <1>3, <2>1, ZenonT(30) DEF FindFree, Looking, Usable, LocalsOK, InHand, HostlessLabels, ReleaseLabels,
       CopyLabels, OthersCopies
  <2> QED
    BY <2>1, <2>2, <2>3, <2>4, Zenon
<1>4. CASE FindReclaimable(p)
  <2>1. BlocksOK' /\ OthersCopies(p) /\ (pc'[p] \in CopyLabels => obj'[p] \in BlockRows)
    BY <1>4, ListTypes, Zenon DEF FindReclaimable, Looking, Usable, LocalsOK, InHand, CopyLabels,
       HostlessLabels, OthersCopies
  <2>2. Aff!StoreTypeOK'
    BY <1>4, Zenon DEF FindReclaimable, Looking, Usable, LocalsOK, InHand, HostlessLabels, ReleaseLabels,
       Aff!StoreTypeOK
  <2>3. LocalsOK'
    BY <1>4, ListTypes, RowTypes, Zenon DEF FindReclaimable, Looking, Usable, LocalsOK, InHand, CopyLabels,
       Labels, OpNames
  <2>4. InHand'
    BY <1>4, <2>1, Zenon DEF FindReclaimable, Looking, Usable, LocalsOK, InHand, HostlessLabels,
       ReleaseLabels, CopyLabels, OthersCopies
  <2> QED
    BY <2>1, <2>2, <2>3, <2>4, Zenon
<1>5. CASE ReclaimNext(p)
  <2>1. BlocksOK' /\ OthersCopies(p) /\ (pc'[p] \in CopyLabels => obj'[p] \in BlockRows)
    BY <1>5, BlockMissTypes, Zenon DEF ReclaimNext, LocalsOK, InHand, CopyLabels, HostlessLabels,
       OthersCopies
  <2>2. Aff!StoreTypeOK'
    BY <1>5, Zenon DEF ReclaimNext, LocalsOK, InHand, HostlessLabels, ReleaseLabels, Aff!StoreTypeOK
  <2>3. LocalsOK'
    BY <1>5, RowTypes DEF ReclaimNext, LocalsOK, InHand, CopyLabels, Labels, OpNames
  <2>4. InHand'
    BY <1>5, <2>1 DEF ReclaimNext, LocalsOK, InHand, HostlessLabels, ReleaseLabels, CopyLabels,
       OthersCopies
  <2> QED
    BY <2>1, <2>2, <2>3, <2>4, Zenon
<1>6. CASE NoFreeBlocks(p)
  <2>1. BlocksOK' /\ OthersCopies(p) /\ (pc'[p] \in CopyLabels => obj'[p] \in BlockRows)
    BY <1>6, BlockMissTypes DEF NoFreeBlocks, LocalsOK, InHand, CopyLabels, HostlessLabels,
       OthersCopies
  <2>2. Aff!StoreTypeOK'
    BY <1>6, Zenon DEF NoFreeBlocks, LocalsOK, InHand, HostlessLabels, ReleaseLabels, Aff!StoreTypeOK
  <2>3. LocalsOK'
    BY <1>6, RowTypes DEF NoFreeBlocks, LocalsOK, InHand, CopyLabels, Labels, OpNames
  <2>4. InHand'
    BY <1>6, <2>1 DEF NoFreeBlocks, LocalsOK, InHand, HostlessLabels, ReleaseLabels, CopyLabels,
       OthersCopies
  <2> QED
    BY <2>1, <2>2, <2>3, <2>4, Zenon
<1>7. CASE GbQueryBlock(p)
  <2>1. BlocksOK' /\ OthersCopies(p) /\ (pc'[p] \in CopyLabels => obj'[p] \in BlockRows)
    BY <1>7, BlockReadTypes, BlockMissTypes, Zenon DEF GbQueryBlock, AfterClaim, AfterGone, LocalsOK,
       InHand, CopyLabels, HostlessLabels, OthersCopies
  <2>2. Aff!StoreTypeOK'
    BY <1>7, Zenon DEF GbQueryBlock, AfterClaim, AfterGone, LocalsOK, InHand, HostlessLabels,
       ReleaseLabels, Aff!StoreTypeOK
  <2>3. LocalsOK'
    BY <1>7 DEF GbQueryBlock, AfterClaim, AfterGone, LocalsOK, InHand, CopyLabels, Labels, OpNames
  <2>4. InHand'
    BY <1>7, <2>1 DEF GbQueryBlock, AfterClaim, AfterGone, LocalsOK, InHand, HostlessLabels,
       ReleaseLabels, CopyLabels, OthersCopies
  <2> QED
    BY <2>1, <2>2, <2>3, <2>4, Zenon
<1>8. CASE GbPend(p)
  <2>1. BlocksOK' /\ OthersCopies(p) /\ (pc'[p] \in CopyLabels => obj'[p] \in BlockRows)
    BY <1>8, BlockMissTypes DEF GbPend, UpdateOwnAffinity, updateAffinity, AffinityConflict,
       AfterConflict, NoSuchAffinity, AfterGone, LocalsOK, InHand, CopyLabels, HostlessLabels,
       OthersCopies
  <2>2. Aff!StoreTypeOK'
    BY <1>8, AffinityCallTypes, StateNames, Zenon DEF GbPend, UpdateOwnAffinity, AfterConflict, AfterGone,
       LocalsOK, InHand, HostlessLabels, ReleaseLabels
  <2>3. LocalsOK'
    BY <1>8 DEF GbPend, UpdateOwnAffinity, AfterConflict, AfterGone, LocalsOK, InHand, CopyLabels,
       Labels, OpNames
  <2>4. InHand'
    BY <1>8, <2>1 DEF GbPend, UpdateOwnAffinity, AfterConflict, AfterGone, LocalsOK, InHand,
       HostlessLabels, ReleaseLabels, CopyLabels, OthersCopies
  <2> QED
    BY <2>1, <2>2, <2>3, <2>4, Zenon
<1>9. CASE GbDropStale(p)
  <2>1. BlocksOK' /\ OthersCopies(p) /\ (pc'[p] \in CopyLabels => obj'[p] \in BlockRows)
    BY <1>9, BlockMissTypes, Zenon DEF GbDropStale, deleteAffinity, AfterTaken, AffinityConflict,
       AfterConflict, NoSuchAffinity, AfterGone, LocalsOK, InHand, CopyLabels, HostlessLabels,
       OthersCopies
  <2>2. Aff!StoreTypeOK'
    BY <1>9, AffinityCallTypes, StateNames, Zenon DEF GbDropStale, AfterTaken, AfterConflict, AfterGone,
       LocalsOK, InHand, HostlessLabels, ReleaseLabels
  <2>3. LocalsOK'
    BY <1>9 DEF GbDropStale, AfterTaken, AfterConflict, AfterGone, LocalsOK, InHand, CopyLabels,
       Labels, OpNames
  <2>4. InHand'
    <3>1. host[p] \in Hosts /\ UNCHANGED <<op, host, owner>>
      BY <1>9, Zenon DEF GbDropStale, InHand, HostlessLabels, ReleaseLabels
    <3>2. pc'[p] \notin ReleaseLabels /\ \A q \in Procs \ {p} : pc'[q] = pc[q]
      BY <1>9 DEF GbDropStale, AfterTaken, AfterConflict, AfterGone, LocalsOK, ReleaseLabels
    <3> QED
      BY <2>1, <3>1, <3>2, HandsKept, Zenon
  <2> QED
    BY <2>1, <2>2, <2>3, <2>4, Zenon
<1>10. CASE GbRepend(p)
  <2>1. BlocksOK' /\ OthersCopies(p) /\ (pc'[p] \in CopyLabels => obj'[p] \in BlockRows)
    BY <1>10, BlockMissTypes, Zenon DEF GbRepend, UpdateOwnAffinity, updateAffinity, AffinityConflict,
       AfterConflict, NoSuchAffinity, AfterGone, LocalsOK, InHand, CopyLabels, HostlessLabels,
       OthersCopies
  <2>2. Aff!StoreTypeOK'
    BY <1>10, AffinityCallTypes, StateNames, Zenon DEF GbRepend, UpdateOwnAffinity, AfterConflict,
       AfterGone, LocalsOK, InHand, HostlessLabels, ReleaseLabels
  <2>3. LocalsOK'
    BY <1>10 DEF GbRepend, UpdateOwnAffinity, AfterConflict, AfterGone, LocalsOK, InHand,
       CopyLabels, Labels, OpNames
  <2>4. InHand'
    BY <1>10, <2>1 DEF GbRepend, UpdateOwnAffinity, AfterConflict, AfterGone, LocalsOK, InHand,
       HostlessLabels, ReleaseLabels, CopyLabels, OthersCopies
  <2> QED
    BY <2>1, <2>2, <2>3, <2>4, Zenon
<1>11. CASE GbRewrite(p)
  <2>1. BlocksOK' /\ OthersCopies(p) /\ (pc'[p] \in CopyLabels => obj'[p] \in BlockRows)
    BY <1>11, BlockWriteTypes, RowTypes, BlockMissTypes, Zenon DEF GbRewrite, AfterConflict, AfterGone,
       LocalsOK, InHand, CopyLabels, HostlessLabels, OthersCopies
  <2>2. Aff!StoreTypeOK'
    BY <1>11, Zenon DEF GbRewrite, AfterConflict, AfterGone, LocalsOK, InHand, HostlessLabels,
       ReleaseLabels, Aff!StoreTypeOK
  <2>3. LocalsOK'
    BY <1>11 DEF GbRewrite, AfterConflict, AfterGone, LocalsOK, InHand, CopyLabels, Labels, OpNames
  <2>4. InHand'
    BY <1>11, <2>1 DEF GbRewrite, AfterConflict, AfterGone, LocalsOK, InHand, HostlessLabels,
       ReleaseLabels, CopyLabels, OthersCopies
  <2> QED
    BY <2>1, <2>2, <2>3, <2>4, Zenon
<1>12. CASE GbConfirm(p)
  <2>1. BlocksOK' /\ OthersCopies(p) /\ (pc'[p] \in CopyLabels => obj'[p] \in BlockRows)
    BY <1>12, BlockMissTypes, Zenon DEF GbConfirm, UpdateOwnAffinity, updateAffinity, AffinityConflict,
       AfterConflict, NoSuchAffinity, AfterGone, AfterClaim, LocalsOK, InHand, CopyLabels,
       HostlessLabels, OthersCopies
  <2>2. Aff!StoreTypeOK'
    BY <1>12, AffinityCallTypes, StateNames, Zenon DEF GbConfirm, UpdateOwnAffinity, AfterConflict,
       AfterGone, AfterClaim, LocalsOK, InHand, HostlessLabels, ReleaseLabels
  <2>3. LocalsOK'
    BY <1>12 DEF GbConfirm, UpdateOwnAffinity, AfterConflict, AfterGone, AfterClaim, LocalsOK,
       InHand, CopyLabels, Labels, OpNames
  <2>4. InHand'
    BY <1>12, <2>1, SMTT(30) DEF GbConfirm, UpdateOwnAffinity, AfterConflict, AfterGone, AfterClaim, LocalsOK,
       InHand, HostlessLabels, ReleaseLabels, CopyLabels, OthersCopies
  <2> QED
    BY <2>1, <2>2, <2>3, <2>4, Zenon
<1>13. CASE CreatePendingAffinity(p)
  <2>1. BlocksOK' /\ OthersCopies(p) /\ (pc'[p] \in CopyLabels => obj'[p] \in BlockRows)
    BY <1>13, BlockMissTypes, ZenonT(30) DEF CreatePendingAffinity, AfterPending, LoadBlock, LocalsOK, InHand,
       CopyLabels, HostlessLabels, OthersCopies
  <2>2. Aff!StoreTypeOK'
    BY <1>13, AffinityCallTypes, StateNames, Zenon DEF CreatePendingAffinity, AfterPending, LoadBlock,
       LocalsOK, InHand, HostlessLabels, ReleaseLabels
  <2>3. LocalsOK'
    BY <1>13, ZenonT(30) DEF CreatePendingAffinity, AfterPending, LoadBlock, LocalsOK, InHand, CopyLabels,
       Labels, OpNames
  <2>4. InHand'
    BY <1>13, <2>1 DEF CreatePendingAffinity, AfterPending, LoadBlock, LocalsOK, InHand,
       HostlessLabels, ReleaseLabels, CopyLabels, OthersCopies
  <2> QED
    BY <2>1, <2>2, <2>3, <2>4, Zenon
<1>14. CASE ReadAffinity(p)
  <2>1. BlocksOK' /\ OthersCopies(p) /\ (pc'[p] \in CopyLabels => obj'[p] \in BlockRows)
    BY <1>14, BlockMissTypes, ZenonT(30) DEF ReadAffinity, queryAffinity, AfterPending, LoadBlock,
       NoSuchAffinity, LocalsOK, InHand, CopyLabels, HostlessLabels, OthersCopies
  <2>2. Aff!StoreTypeOK'
    BY <1>14, AffinityCallTypes, StateNames, Zenon DEF ReadAffinity, AfterPending, LoadBlock, LocalsOK,
       InHand, HostlessLabels, ReleaseLabels
  <2>3. LocalsOK'
    BY <1>14 DEF ReadAffinity, AfterPending, LoadBlock, LocalsOK, InHand, CopyLabels, Labels,
       OpNames
  <2>4. InHand'
    <3>1. host[p] \in Hosts /\ UNCHANGED <<op, host, owner>>
      BY <1>14, Zenon DEF ReadAffinity, InHand, HostlessLabels, ReleaseLabels
    <3>2. pc'[p] \notin ReleaseLabels /\ \A q \in Procs \ {p} : pc'[q] = pc[q]
      BY <1>14, Zenon DEF ReadAffinity, AfterPending, LoadBlock, LocalsOK, ReleaseLabels
    <3> QED
      BY <2>1, <3>1, <3>2, HandsKept, Zenon
  <2> QED
    BY <2>1, <2>2, <2>3, <2>4, Zenon
<1>15. CASE PendAffinity(p)
  <2>1. BlocksOK' /\ OthersCopies(p) /\ (pc'[p] \in CopyLabels => obj'[p] \in BlockRows)
    BY <1>15, BlockMissTypes DEF PendAffinity, UpdateOwnAffinity, updateAffinity, AffinityConflict,
       AfterConflict, NoSuchAffinity, AfterGone, AfterPending, LoadBlock, LocalsOK, InHand,
       CopyLabels, HostlessLabels, OthersCopies
  <2>2. Aff!StoreTypeOK'
    BY <1>15, AffinityCallTypes, StateNames, Zenon DEF PendAffinity, UpdateOwnAffinity, AfterConflict,
       AfterGone, AfterPending, LoadBlock, LocalsOK, InHand, HostlessLabels, ReleaseLabels
  <2>3. LocalsOK'
    BY <1>15 DEF PendAffinity, UpdateOwnAffinity, AfterConflict, AfterGone, AfterPending, LoadBlock,
       LocalsOK, InHand, CopyLabels, Labels, OpNames
  <2>4. InHand'
    <3>1. host[p] \in Hosts /\ UNCHANGED <<op, host, owner>>
      BY <1>15, Zenon DEF PendAffinity, UpdateOwnAffinity, InHand, HostlessLabels, ReleaseLabels
    <3>2. pc'[p] \notin ReleaseLabels /\ \A q \in Procs \ {p} : pc'[q] = pc[q]
      BY <1>15, ZenonT(30) DEF PendAffinity, UpdateOwnAffinity, AfterConflict, AfterGone, AfterPending, LoadBlock, LocalsOK, ReleaseLabels
    <3> QED
      BY <2>1, <3>1, <3>2, HandsKept, Zenon
  <2> QED
    BY <2>1, <2>2, <2>3, <2>4, Zenon
<1>16. CASE CreateBlock(p)
  <2>5. NewBlock(host[p]) \in BlockRows
    BY <1>16, NewRowTypes, Zenon DEF CreateBlock, InHand, HostlessLabels, ReleaseLabels
  <2>1. BlocksOK' /\ OthersCopies(p) /\ (pc'[p] \in CopyLabels => obj'[p] \in BlockRows)
    BY <1>16, <2>5, BlockWriteTypes, BlockMissTypes, Zenon DEF CreateBlock, LocalsOK, InHand,
       CopyLabels, HostlessLabels, OthersCopies
  <2>2. Aff!StoreTypeOK'
    BY <1>16, Zenon DEF CreateBlock, LocalsOK, InHand, HostlessLabels, ReleaseLabels, Aff!StoreTypeOK
  <2>3. LocalsOK'
    BY <1>16 DEF CreateBlock, LocalsOK, InHand, CopyLabels, Labels, OpNames
  <2>4. InHand'
    BY <1>16, <2>1 DEF CreateBlock, LocalsOK, InHand, HostlessLabels, ReleaseLabels, CopyLabels,
       OthersCopies
  <2> QED
    BY <2>1, <2>2, <2>3, <2>4, Zenon
<1>17. CASE ReadWinner(p)
  <2>1. BlocksOK' /\ OthersCopies(p) /\ (pc'[p] \in CopyLabels => obj'[p] \in BlockRows)
    BY <1>17, BlockReadTypes, BlockMissTypes, Zenon DEF ReadWinner, AfterGone, LocalsOK, InHand,
       CopyLabels, HostlessLabels, OthersCopies
  <2>2. Aff!StoreTypeOK'
    BY <1>17, Zenon DEF ReadWinner, AfterGone, LocalsOK, InHand, HostlessLabels, ReleaseLabels,
       Aff!StoreTypeOK
  <2>3. LocalsOK'
    BY <1>17 DEF ReadWinner, AfterGone, LocalsOK, InHand, CopyLabels, Labels, OpNames
  <2>4. InHand'
    BY <1>17, <2>1 DEF ReadWinner, AfterGone, LocalsOK, InHand, HostlessLabels, ReleaseLabels,
       CopyLabels, OthersCopies
  <2> QED
    BY <2>1, <2>2, <2>3, <2>4, Zenon
<1>18. CASE DropAffinity(p)
  <2>1. BlocksOK' /\ OthersCopies(p) /\ (pc'[p] \in CopyLabels => obj'[p] \in BlockRows)
    BY <1>18, BlockMissTypes, Zenon DEF DropAffinity, AfterTaken, deleteAffinity, AffinityConflict,
       NoSuchAffinity, LocalsOK, InHand, CopyLabels, HostlessLabels, OthersCopies
  <2>2. Aff!StoreTypeOK'
    BY <1>18, AffinityCallTypes, StateNames, Zenon DEF DropAffinity, AfterTaken, LocalsOK, InHand,
       HostlessLabels, ReleaseLabels
  <2>3. LocalsOK'
    BY <1>18, Zenon DEF DropAffinity, AfterTaken, LocalsOK, InHand, CopyLabels, Labels, OpNames
  <2>4. InHand'
    BY <1>18, <2>1, Zenon DEF DropAffinity, AfterTaken, LocalsOK, InHand, HostlessLabels, ReleaseLabels,
       CopyLabels, OthersCopies
  <2> QED
    BY <2>1, <2>2, <2>3, <2>4, Zenon
<1>19. CASE Confirm(p)
  <2>1. BlocksOK' /\ OthersCopies(p) /\ (pc'[p] \in CopyLabels => obj'[p] \in BlockRows)
    BY <1>19, BlockMissTypes, Zenon DEF Confirm, updateAffinity, AfterClaim, AfterGone, AffinityConflict,
       NoSuchAffinity, LocalsOK, InHand, CopyLabels, HostlessLabels, OthersCopies
  <2>2. Aff!StoreTypeOK'
    BY <1>19, AffinityCallTypes, StateNames, Zenon DEF Confirm, AfterClaim, AfterGone, LocalsOK, InHand,
       HostlessLabels, ReleaseLabels
  <2>3. LocalsOK'
    BY <1>19 DEF Confirm, AfterClaim, AfterGone, LocalsOK, InHand, CopyLabels, Labels, OpNames
  <2>4. InHand'
    <3>1. host[p] \in Hosts /\ UNCHANGED <<op, host, owner>>
      BY <1>19, Zenon DEF Confirm, InHand, HostlessLabels, ReleaseLabels
    <3>2. pc'[p] \notin ReleaseLabels /\ \A q \in Procs \ {p} : pc'[q] = pc[q]
      BY <1>19, Zenon DEF Confirm, AfterClaim, AfterGone, LocalsOK, ReleaseLabels
    <3> QED
      BY <2>1, <3>1, <3>2, HandsKept, Zenon
  <2> QED
    BY <2>1, <2>2, <2>3, <2>4, Zenon
<1>20. CASE Recheck(p)
  <2>1. BlocksOK' /\ OthersCopies(p) /\ (pc'[p] \in CopyLabels => obj'[p] \in BlockRows)
    BY <1>20, BlockMissTypes, Zenon DEF Recheck, AfterConflict, AfterGone, queryAffinity, AfterClaim,
       NoSuchAffinity, LocalsOK, InHand, CopyLabels, HostlessLabels, OthersCopies
  <2>2. Aff!StoreTypeOK'
    BY <1>20, AffinityCallTypes, StateNames, Zenon DEF Recheck, AfterConflict, AfterGone, AfterClaim,
       LocalsOK, InHand, HostlessLabels, ReleaseLabels
  <2>3. LocalsOK'
    BY <1>20, SMTT(30) DEF Recheck, AfterConflict, AfterGone, AfterClaim, LocalsOK, InHand, CopyLabels,
       Labels, OpNames
  <2>4. InHand'
    <3>1. host[p] \in Hosts /\ UNCHANGED <<op, host, owner>>
      BY <1>20, Zenon DEF Recheck, InHand, HostlessLabels, ReleaseLabels
    <3>2. pc'[p] \notin ReleaseLabels /\ \A q \in Procs \ {p} : pc'[q] = pc[q]
      BY <1>20, Zenon DEF Recheck, AfterConflict, AfterGone, AfterClaim, LocalsOK, ReleaseLabels
    <3> QED
      BY <2>1, <3>1, <3>2, HandsKept, Zenon
  <2> QED
    BY <2>1, <2>2, <2>3, <2>4, Zenon
<1>21. CASE AssignFromBlock(p)
  <2>1. BlocksOK' /\ OthersCopies(p) /\ (pc'[p] \in CopyLabels => obj'[p] \in BlockRows)
    BY <1>21, BlockWriteTypes, RowTypes, BlockMissTypes, Zenon DEF AssignFromBlock, Refused, TryNextBlock,
       LocalsOK, InHand, CopyLabels, HostlessLabels, OthersCopies
  <2>2. Aff!StoreTypeOK'
    BY <1>21, Zenon DEF AssignFromBlock, Refused, TryNextBlock, LocalsOK, InHand, HostlessLabels,
       ReleaseLabels, Aff!StoreTypeOK
  <2>3. LocalsOK'
    BY <1>21, RowTypes DEF AssignFromBlock, Refused, TryNextBlock, LocalsOK, InHand, CopyLabels,
       Labels, OpNames
  <2>4. InHand'
    BY <1>21, <2>1 DEF AssignFromBlock, Refused, TryNextBlock, LocalsOK, InHand, HostlessLabels,
       ReleaseLabels, CopyLabels, OthersCopies
  <2> QED
    BY <2>1, <2>2, <2>3, <2>4, Zenon
<1>22. CASE Requery(p)
  <2>1. BlocksOK' /\ OthersCopies(p) /\ (pc'[p] \in CopyLabels => obj'[p] \in BlockRows)
    BY <1>22, BlockReadTypes, BlockMissTypes DEF Requery, TryNextBlock, LocalsOK, InHand,
       CopyLabels, HostlessLabels, OthersCopies
  <2>2. Aff!StoreTypeOK'
    BY <1>22, Zenon DEF Requery, TryNextBlock, LocalsOK, InHand, HostlessLabels, ReleaseLabels,
       Aff!StoreTypeOK
  <2>3. LocalsOK'
    BY <1>22, RowTypes DEF Requery, TryNextBlock, LocalsOK, InHand, CopyLabels, Labels, OpNames
  <2>4. InHand'
    BY <1>22, <2>1 DEF Requery, TryNextBlock, LocalsOK, InHand, HostlessLabels, ReleaseLabels,
       CopyLabels, OthersCopies
  <2> QED
    BY <2>1, <2>2, <2>3, <2>4, Zenon
<1>23. CASE Borrow(p)
  <2>1. BlocksOK' /\ OthersCopies(p) /\ (pc'[p] \in CopyLabels => obj'[p] \in BlockRows)
    BY <1>23, BlockMissTypes, Zenon DEF Borrow, LocalsOK, InHand, CopyLabels, HostlessLabels, OthersCopies
  <2>2. Aff!StoreTypeOK'
    BY <1>23, Zenon DEF Borrow, LocalsOK, InHand, HostlessLabels, ReleaseLabels, Aff!StoreTypeOK
  <2>3. LocalsOK'
    BY <1>23, RowTypes DEF Borrow, LocalsOK, InHand, CopyLabels, Labels, OpNames
  <2>4. InHand'
    BY <1>23, <2>1, ZenonT(30) DEF Borrow, LocalsOK, InHand, HostlessLabels, ReleaseLabels, CopyLabels,
       OthersCopies
  <2> QED
    BY <2>1, <2>2, <2>3, <2>4, Zenon
<1>24. CASE BorrowFailed(p)
  <2>1. BlocksOK' /\ OthersCopies(p) /\ (pc'[p] \in CopyLabels => obj'[p] \in BlockRows)
    BY <1>24, BlockMissTypes, Zenon DEF BorrowFailed, LocalsOK, InHand, CopyLabels, HostlessLabels,
       OthersCopies
  <2>2. Aff!StoreTypeOK'
    BY <1>24, Zenon DEF BorrowFailed, LocalsOK, InHand, HostlessLabels, ReleaseLabels, Aff!StoreTypeOK
  <2>3. LocalsOK'
    BY <1>24, Zenon DEF BorrowFailed, LocalsOK, InHand, CopyLabels, Labels, OpNames
  <2>4. InHand'
    BY <1>24, <2>1, Zenon DEF BorrowFailed, LocalsOK, InHand, HostlessLabels, ReleaseLabels, CopyLabels,
       OthersCopies
  <2> QED
    BY <2>1, <2>2, <2>3, <2>4, Zenon
<1>25. CASE AssignQueryBlock(p)
  <2>1. BlocksOK' /\ OthersCopies(p) /\ (pc'[p] \in CopyLabels => obj'[p] \in BlockRows)
    BY <1>25, BlockReadTypes, BlockMissTypes, Zenon DEF AssignQueryBlock, LocalsOK, InHand, CopyLabels,
       HostlessLabels, OthersCopies
  <2>2. Aff!StoreTypeOK'
    BY <1>25, Zenon DEF AssignQueryBlock, LocalsOK, InHand, HostlessLabels, ReleaseLabels, Aff!StoreTypeOK
  <2>3. LocalsOK'
    BY <1>25, Zenon DEF AssignQueryBlock, LocalsOK, InHand, CopyLabels, Labels, OpNames
  <2>4. InHand'
    BY <1>25, <2>1, SMTT(30) DEF AssignQueryBlock, LocalsOK, InHand, HostlessLabels, ReleaseLabels,
       CopyLabels, OthersCopies
  <2> QED
    BY <2>1, <2>2, <2>3, <2>4, Zenon
<1>26. CASE AssignAddress(p)
  <2>1. BlocksOK' /\ OthersCopies(p) /\ (pc'[p] \in CopyLabels => obj'[p] \in BlockRows)
    BY <1>26, BlockWriteTypes, RowTypes, BlockMissTypes, Zenon DEF AssignAddress, LocalsOK, InHand,
       CopyLabels, HostlessLabels, OthersCopies
  <2>2. Aff!StoreTypeOK'
    BY <1>26, Zenon DEF AssignAddress, LocalsOK, InHand, HostlessLabels, ReleaseLabels, Aff!StoreTypeOK
  <2>3. LocalsOK'
    BY <1>26, ZenonT(30) DEF AssignAddress, LocalsOK, InHand, CopyLabels, Labels, OpNames
  <2>4. InHand'
    BY <1>26, <2>1 DEF AssignAddress, LocalsOK, InHand, HostlessLabels, ReleaseLabels, CopyLabels,
       OthersCopies
  <2> QED
    BY <2>1, <2>2, <2>3, <2>4, Zenon
<1>27. CASE RelQueryAff(p)
  <2>1. BlocksOK' /\ OthersCopies(p) /\ (pc'[p] \in CopyLabels => obj'[p] \in BlockRows)
    BY <1>27, BlockMissTypes, Zenon DEF RelQueryAff, queryAffinity, NoSuchAffinity, ReleaseFailed,
       LocalsOK, InHand, CopyLabels, HostlessLabels, OthersCopies
  <2>2. Aff!StoreTypeOK'
    BY <1>27, AffinityCallTypes, StateNames, Zenon DEF RelQueryAff, ReleaseFailed, LocalsOK, InHand,
       HostlessLabels, ReleaseLabels
  <2>3. LocalsOK'
    BY <1>27, ZenonT(30) DEF RelQueryAff, ReleaseFailed, LocalsOK, InHand, CopyLabels, Labels, OpNames
  <2>4. InHand'
    BY <1>27, <2>1 DEF RelQueryAff, ReleaseFailed, LocalsOK, InHand, HostlessLabels, ReleaseLabels,
       CopyLabels, OthersCopies
  <2> QED
    BY <2>1, <2>2, <2>3, <2>4, Zenon
<1>28. CASE RelQueryBlock(p)
  <2>1. BlocksOK' /\ OthersCopies(p) /\ (pc'[p] \in CopyLabels => obj'[p] \in BlockRows)
    BY <1>28, BlockReadTypes, BlockMissTypes, Zenon DEF RelQueryBlock, RequireEmpty, ReleaseFailed,
       LocalsOK, InHand, CopyLabels, HostlessLabels, OthersCopies
  <2>2. Aff!StoreTypeOK'
    BY <1>28, Zenon DEF RelQueryBlock, RequireEmpty, ReleaseFailed, LocalsOK, InHand, HostlessLabels,
       ReleaseLabels, Aff!StoreTypeOK
  <2>3. LocalsOK'
    BY <1>28, RowTypes DEF RelQueryBlock, RequireEmpty, ReleaseFailed, LocalsOK, InHand, CopyLabels,
       Labels, OpNames
  <2>4. InHand'
    <3>1. owner[p] \in Hosts /\ (op[p] = "reclaim" => host[p] \in Hosts)
      BY <1>28, Zenon DEF RelQueryBlock, InHand, ReleaseLabels
    <3>2. UNCHANGED <<host, owner>> /\ op' = op
      BY <1>28, Zenon DEF RelQueryBlock, LocalsOK
    <3>3. pc'[p] \in HostlessLabels \/ op[p] = "reclaim"
      BY <1>28, Zenon DEF RelQueryBlock, RequireEmpty, ReleaseFailed, LocalsOK, HostlessLabels, ReleaseLabels
    <3>4. \A q \in Procs \ {p} : pc'[q] = pc[q] /\ op'[q] = op[q]
      BY <1>28, Zenon DEF RelQueryBlock, RequireEmpty, ReleaseFailed, LocalsOK
    <3> QED
      BY <2>1, <3>1, <3>2, <3>3, <3>4, HandsKept, Zenon
  <2> QED
    BY <2>1, <2>2, <2>3, <2>4, Zenon
<1>29. CASE RelDropStale(p)
  <2>1. BlocksOK' /\ OthersCopies(p) /\ (pc'[p] \in CopyLabels => obj'[p] \in BlockRows)
    BY <1>29, BlockMissTypes, Zenon DEF RelDropStale, ReleaseFailed, deleteAffinity, AffinityConflict,
       NoSuchAffinity, LocalsOK, InHand, CopyLabels, HostlessLabels, OthersCopies
  <2>2. Aff!StoreTypeOK'
    BY <1>29, AffinityCallTypes, StateNames, Zenon DEF RelDropStale, ReleaseFailed, LocalsOK, InHand,
       HostlessLabels, ReleaseLabels
  <2>3. LocalsOK'
    BY <1>29, Zenon DEF RelDropStale, ReleaseFailed, LocalsOK, InHand, CopyLabels, Labels, OpNames
  <2>4. InHand'
    BY <1>29, <2>1, Zenon DEF RelDropStale, ReleaseFailed, LocalsOK, InHand, HostlessLabels, ReleaseLabels,
       CopyLabels, OthersCopies
  <2> QED
    BY <2>1, <2>2, <2>3, <2>4, Zenon
<1>30. CASE RelMark(p)
  <2>1. BlocksOK' /\ OthersCopies(p) /\ (pc'[p] \in CopyLabels => obj'[p] \in BlockRows)
    BY <1>30, BlockMissTypes, Zenon DEF RelMark, updateAffinity, AffinityConflict, ReleaseConflict,
       ReleaseFailed, NoSuchAffinity, LocalsOK, InHand, CopyLabels, HostlessLabels, OthersCopies
  <2>2. Aff!StoreTypeOK'
    BY <1>30, AffinityCallTypes, StateNames, Zenon DEF RelMark, ReleaseConflict, ReleaseFailed, LocalsOK,
       InHand, HostlessLabels, ReleaseLabels
  <2>3. LocalsOK'
    BY <1>30 DEF RelMark, ReleaseConflict, ReleaseFailed, LocalsOK, InHand, CopyLabels, Labels,
       OpNames
  <2>4. InHand'
    BY <1>30, <2>1, ZenonT(30) DEF RelMark, ReleaseConflict, ReleaseFailed, LocalsOK, InHand, HostlessLabels,
       ReleaseLabels, CopyLabels, OthersCopies
  <2> QED
    BY <2>1, <2>2, <2>3, <2>4, Zenon
<1>31. CASE RelBlock(p)
  <2>1. BlocksOK' /\ OthersCopies(p) /\ (pc'[p] \in CopyLabels => obj'[p] \in BlockRows)
    BY <1>31, BlockWriteTypes, RowTypes, BlockDeleteTypes, BlockMissTypes, Zenon DEF RelBlock,
       ReleaseConflict, ReleaseFailed, LocalsOK, InHand, CopyLabels, HostlessLabels, OthersCopies
  <2>2. Aff!StoreTypeOK'
    BY <1>31, Zenon DEF RelBlock, ReleaseConflict, ReleaseFailed, LocalsOK, InHand, HostlessLabels,
       ReleaseLabels, Aff!StoreTypeOK
  <2>3. LocalsOK'
    BY <1>31 DEF RelBlock, ReleaseConflict, ReleaseFailed, LocalsOK, InHand, CopyLabels, Labels,
       OpNames
  <2>4. InHand'
    BY <1>31, <2>1 DEF RelBlock, ReleaseConflict, ReleaseFailed, LocalsOK, InHand, HostlessLabels,
       ReleaseLabels, CopyLabels, OthersCopies
  <2> QED
    BY <2>1, <2>2, <2>3, <2>4, Zenon
<1>32. CASE RelDropAff(p)
  <2>1. BlocksOK' /\ OthersCopies(p) /\ (pc'[p] \in CopyLabels => obj'[p] \in BlockRows)
    BY <1>32, BlockMissTypes, ZenonT(30) DEF RelDropAff, deleteAffinity, NoSuchAffinity, AffinityConflict,
       ReleaseConflict, ReleaseFailed, LocalsOK, InHand, CopyLabels, HostlessLabels, OthersCopies
  <2>2. Aff!StoreTypeOK'
    BY <1>32, AffinityCallTypes, StateNames, Zenon DEF RelDropAff, ReleaseConflict, ReleaseFailed,
       LocalsOK, InHand, HostlessLabels, ReleaseLabels
  <2>3. LocalsOK'
    BY <1>32, RowTypes DEF RelDropAff, ReleaseConflict, ReleaseFailed, LocalsOK, InHand, CopyLabels,
       Labels, OpNames
  <2>4. InHand'
    <3>1. owner[p] \in Hosts /\ (op[p] = "reclaim" => host[p] \in Hosts)
      BY <1>32, Zenon DEF RelDropAff, InHand, ReleaseLabels
    <3>2. UNCHANGED <<host, owner>> /\ (op'[p] = op[p] \/ op[p] = "reclaim")
      BY <1>32, Zenon DEF RelDropAff, LocalsOK
    <3>3. pc'[p] \in HostlessLabels \/ op[p] = "reclaim"
      BY <1>32, Zenon DEF RelDropAff, ReleaseConflict, ReleaseFailed, LocalsOK, HostlessLabels, ReleaseLabels
    <3>4. \A q \in Procs \ {p} : pc'[q] = pc[q] /\ op'[q] = op[q]
      BY <1>32, Zenon DEF RelDropAff, ReleaseConflict, ReleaseFailed, LocalsOK
    <3> QED
      BY <2>1, <3>1, <3>2, <3>3, <3>4, HandsKept, Zenon
  <2> QED
    BY <2>1, <2>2, <2>3, <2>4, Zenon
<1>33. CASE ReleaseQuery(p)
  <2>1. BlocksOK' /\ OthersCopies(p) /\ (pc'[p] \in CopyLabels => obj'[p] \in BlockRows)
    BY <1>33, BlockReadTypes, BlockMissTypes, Zenon DEF ReleaseQuery, LocalsOK, InHand, CopyLabels,
       HostlessLabels, OthersCopies
  <2>2. Aff!StoreTypeOK'
    BY <1>33, Zenon DEF ReleaseQuery, LocalsOK, InHand, HostlessLabels, ReleaseLabels, Aff!StoreTypeOK
  <2>3. LocalsOK'
    BY <1>33, ZenonT(30) DEF ReleaseQuery, LocalsOK, InHand, CopyLabels, Labels, OpNames
  <2>4. InHand'
    <3>1. op[p] = "reclaim" => host[p] \in Hosts
      BY <1>33, Zenon DEF ReleaseQuery, InHand, ReleaseLabels
    <3>2. UNCHANGED <<host, owner>> /\ op' = op
      BY <1>33, Zenon DEF ReleaseQuery, LocalsOK
    <3>3. pc'[p] \in HostlessLabels \ ReleaseLabels
      BY <1>33, Zenon DEF ReleaseQuery, LocalsOK, HostlessLabels, ReleaseLabels
    <3>4. \A q \in Procs \ {p} : pc'[q] = pc[q] /\ op'[q] = op[q]
      BY <1>33, Zenon DEF ReleaseQuery, LocalsOK
    <3> QED
      BY <2>1, <3>1, <3>2, <3>3, <3>4, HandsKept, Zenon
  <2> QED
    BY <2>1, <2>2, <2>3, <2>4, Zenon
<1>34. CASE ReleaseUpdate(p)
  <2>1. BlocksOK' /\ OthersCopies(p) /\ (pc'[p] \in CopyLabels => obj'[p] \in BlockRows)
    BY <1>34, BlockWriteTypes, RowTypes, BlockDeleteTypes, BlockMissTypes, Zenon DEF ReleaseUpdate,
       EnsureConsistentAffinity, LocalsOK, InHand, CopyLabels, HostlessLabels, OthersCopies
  <2>2. Aff!StoreTypeOK'
    BY <1>34, Zenon DEF ReleaseUpdate, EnsureConsistentAffinity, LocalsOK, InHand, HostlessLabels,
       ReleaseLabels, Aff!StoreTypeOK
  <2>5. obj[p].aff \in Hosts \cup {NoHost}
    BY <1>34, RowTypes, Zenon DEF ReleaseUpdate, LocalsOK, InHand, CopyLabels
  <2>3. LocalsOK'
    <3>1. UNCHANGED <<op, host, blk, ord, todo, victims>>
      BY <1>34, Zenon DEF ReleaseUpdate
    <3>2. pc' \in [Procs -> Labels]
      BY <1>34 DEF ReleaseUpdate, EnsureConsistentAffinity, LocalsOK, Labels
    <3>3. owner' \in [Procs -> Hosts \cup {NoHost}]
      BY <1>34, <2>5, Zenon DEF ReleaseUpdate, EnsureConsistentAffinity, LocalsOK
    <3> QED
      BY <3>1, <3>2, <3>3, Zenon DEF LocalsOK
  <2>4. InHand'
    BY <1>34, <2>1, <2>5 DEF ReleaseUpdate, EnsureConsistentAffinity, LocalsOK, InHand,
       HostlessLabels, ReleaseLabels, CopyLabels, OthersCopies
  <2> QED
    BY <2>1, <2>2, <2>3, <2>4, Zenon
<1>35. CASE Done(p)
  BY <1>35, ReturnTypes, Zenon DEF Done
<1> QED
  BY <1>1, <1>2, <1>3, <1>4, <1>5, <1>6, <1>7, <1>8, <1>9, <1>10, <1>11, <1>12, <1>13,
       <1>14, <1>15, <1>16, <1>17, <1>18, <1>19, <1>20, <1>21, <1>22, <1>23, <1>24, <1>25, <1>26,
       <1>27, <1>28, <1>29, <1>30, <1>31, <1>32, <1>33, <1>34, <1>35, Zenon DEF Step

(* So does starting an operation,                                          *)
LEMMA BeginTypes ==
  ASSUME TypeOK, NEW p \in Procs, Begin(p)
  PROVE  TypeOK'
<1> USE DEF At, Goto, storeVars
<1>1. CASE \E h \in Hosts : BeginAutoAssign(p, h)
  BY <1>1, SMTT(30)
     DEF BeginAutoAssign, TypeOK, BlocksOK, Blk!StoreTypeOK, Aff!StoreTypeOK, LocalsOK, Labels, OpNames,
     InHand, HostlessLabels, ReleaseLabels, CopyLabels
<1>2. CASE \E h \in Hosts, b \in Blocks, o \in Ordinals : BeginAssignIP(p, h, b, o)
  BY <1>2, SMTT(30)
     DEF BeginAssignIP, TypeOK, BlocksOK, Blk!StoreTypeOK, Aff!StoreTypeOK, LocalsOK, Labels, OpNames,
     InHand, HostlessLabels, ReleaseLabels, CopyLabels
<1>3. CASE \E h \in Hosts, b \in Blocks : BeginClaimAffinity(p, h, b)
  BY <1>3, SMTT(30)
     DEF BeginClaimAffinity, TypeOK, BlocksOK, Blk!StoreTypeOK, Aff!StoreTypeOK, LocalsOK, Labels, OpNames,
     InHand, HostlessLabels, ReleaseLabels, CopyLabels
<1>4. CASE \E h \in Hosts, b \in Blocks : BeginReleaseAffinity(p, h, b)
  BY <1>4, SMTT(30)
     DEF BeginReleaseAffinity, TypeOK, BlocksOK, Blk!StoreTypeOK, Aff!StoreTypeOK, LocalsOK, Labels, OpNames,
     InHand, HostlessLabels, ReleaseLabels, CopyLabels
<1>5. CASE \E b \in Blocks, o \in Ordinals : BeginReleaseIPs(p, b, o)
  BY <1>5, SMTT(30)
     DEF BeginReleaseIPs, TypeOK, BlocksOK, Blk!StoreTypeOK, Aff!StoreTypeOK, LocalsOK, Labels, OpNames,
     InHand, HostlessLabels, ReleaseLabels, CopyLabels
<1> QED
  BY <1>1, <1>2, <1>3, <1>4, <1>5, Zenon DEF Begin

(* The initial state has the types,                                        *)
LEMMA InitTypes == Init => TypeOK
<1> SUFFICES ASSUME Init PROVE TypeOK
  BY Zenon
<1>1. AnyBlock \in Blocks /\ AnyOrdinal \in Ordinals
  BY ConstantsAssumption, Zenon DEF AnyBlock, AnyOrdinal
<1>2. BlocksOK /\ Aff!StoreTypeOK
  BY Zenon DEF Init, Blk!StoreInit, Aff!StoreInit, BlocksOK, Blk!StoreTypeOK, Aff!StoreTypeOK
<1>3. LocalsOK /\ InHand
  BY <1>1, Zenon DEF Init, LocalsOK, Labels, OpNames, InHand, HostlessLabels, ReleaseLabels, CopyLabels
<1> QED
  BY <1>2, <1>3, Zenon DEF TypeOK

(* and so does everything else.                                            *)
LEMMA NextTypes == TypeOK /\ [Next]_vars => TypeOK'
<1> SUFFICES ASSUME TypeOK, [Next]_vars PROVE TypeOK'
  BY Zenon
<1>1. ASSUME NEW p \in Procs, Begin(p) \/ Step(p) \/ Crash(p) PROVE TypeOK'
  BY <1>1, BeginTypes, StepTypes, ReturnTypes, Zenon DEF Crash
<1>2. ASSUME NEW b \in Blocks, AgeBlock(b) PROVE TypeOK'
  BY <1>2, Zenon DEF AgeBlock, args, TypeOK, BlocksOK, Blk!StoreTypeOK, Aff!StoreTypeOK, LocalsOK, InHand
<1>3. CASE UNCHANGED vars
  BY <1>3, Zenon DEF vars, storeVars, args, TypeOK, BlocksOK, Blk!StoreTypeOK, Aff!StoreTypeOK, LocalsOK, InHand
<1> QED
  BY <1>1, <1>2, <1>3, Zenon DEF Next

(* In every instance of the protocol, whatever the operations, every       *)
(* variable keeps its type, releaseBlockAffinity never runs without the    *)
(* host it releases and no block is written that was not read.             *)
THEOREM TypeCorrect == Spec => []TypeOK
  BY InitTypes, NextTypes, PTL DEF Spec

-----------------------------------------------------------------------------
(* What a step of p may do to the other processes, the blocks and the      *)
(* affinities.                                                             *)

Frame(p) ==
  \A q \in Procs \ {p} :
    /\ pc'[q] = pc[q] /\ op'[q] = op[q] /\ host'[q] = host[q] /\ owner'[q] = owner[q]
    /\ blk'[q] = blk[q] /\ obj'[q] = obj[q]

BlkSame(p) ==
  \A b \in Blocks :
    /\ block'[b] = block[b] /\ aged'[b] = aged[b]
    /\ \A q \in Procs \ {p} : (q \in blkCur'[b] <=> q \in blkCur[b]) /\ (q \in listed'[b] <=> q \in listed[b])
    /\ block[b] = NoBlock => blkCur'[b] \subseteq blkCur[b] /\ listed'[b] \subseteq listed[b]

BlkWrite(p) ==
  /\ \A b \in Blocks \ {blk[p]} :
       block'[b] = block[b] /\ aged'[b] = aged[b] /\ blkCur'[b] = blkCur[b] /\ listed'[b] = listed[b]
  /\ blkCur'[blk[p]] \subseteq {p} /\ listed'[blk[p]] = {}
  /\ block'[blk[p]] = NoBlock => blkCur'[blk[p]] = {}
  /\ block[blk[p]] # NoBlock => pc[p] \in CopyLabels /\ p \in blkCur[blk[p]]
  /\ block[blk[p]] = NoBlock => pc[p] = "createBlock"

(* A block that is replaced keeps its addresses, but for the one that      *)
(* ReleaseIPs names, and its host, but for a release.                      *)
Keeps(p) ==
  block[blk[p]] # NoBlock =>
    /\ pc[p] = "relBlock" \/ obj[p].aff = NoHost \/ (block'[blk[p]] # NoBlock /\ block'[blk[p]].aff = obj[p].aff)
    /\ \A o \in obj[p].ips :
         \/ block'[blk[p]] # NoBlock /\ o \in block'[blk[p]].ips
         \/ pc[p] = "releaseUpdate" /\ o = ord[p] /\ pc'[p] # pc[p]

AffSame(p) ==
  \A k \in Hosts \X Blocks :
    /\ affinity'[k] = affinity[k]
    /\ \A q \in Procs \ {p} : q \in affCur'[k] <=> q \in affCur[k]
    /\ affinity[k] = NoAff => affCur'[k] \subseteq affCur[k]

AffWrite(p, k) ==
  /\ \A j \in (Hosts \X Blocks) \ {k} : affinity'[j] = affinity[j] /\ affCur'[j] = affCur[j]
  /\ affCur'[k] \subseteq {p}
  /\ affinity'[k] = NoAff => affCur'[k] = {}
  /\ affinity'[k] = "confirmed" => pc[p] \in {"confirm", "gbConfirm"} /\ k = OwnRow(p) /\ p \in affCur[k]

Moves(p) ==
  /\ Frame(p)
  /\ \/ BlkSame(p) /\ AffSame(p)
     \/ BlkSame(p) /\ \E k \in Hosts \X Blocks : AffWrite(p, k)
     \/ BlkWrite(p) /\ Keeps(p) /\ AffSame(p)

(* How p gets to where it may delete or disown the block, and to where it  *)
(* may confirm its affinity.                                               *)
Marks(p) ==
  pc'[p] = "relBlock" =>
    pc[p] = "relMark" /\ owner'[p] = owner[p] /\ blk'[p] = blk[p] /\ AffWrite(p, RelRow(p))

Claims(p) ==
  pc'[p] \in ClaimLabels =>
    /\ host'[p] = host[p] /\ blk'[p] = blk[p]
    /\ \/ pc'[p] = "gbPend" /\ BlkSame(p) /\ block[blk[p]] = NoBlock
       \/ pc'[p] = "createBlock" /\ BlkSame(p) /\ pc[p] = "gbPend" /\ p \in affCur[OwnRow(p)]
       \/ pc'[p] = "readWinner" /\ BlkSame(p) /\ AffSame(p) /\ pc[p] = "createBlock"
          /\ affCur' = affCur
       \/ pc'[p] = "confirm" /\ BlkSame(p) /\ pc[p] = "readWinner" /\ affCur' = affCur
          /\ block[blk[p]] # NoBlock /\ block[blk[p]].aff = host[p]
       \/ pc'[p] \in {"confirm", "gbConfirm"} /\ BlkWrite(p)
          /\ block'[blk[p]] # NoBlock /\ block'[blk[p]].aff = host[p]

-----------------------------------------------------------------------------
(* The datastore calls.                                                    *)

(* A read, or a write that fails, changes no row and nobody else's copy.   *)
LEMMA ReadsSame ==
  ASSUME TypeOK, NEW p \in Procs,
         \/ queryBlock(p) \/ NoSuchBlock(p) \/ BlockExists(p) \/ BlockConflict(p)
         \/ SameBlocks \/ ListReclaimable(p)
  PROVE  BlkSame(p)
<1>0. blk[p] \in Blocks /\ block \in [Blocks -> BlockRows \cup {NoBlock}]
      /\ blkCur \in [Blocks -> SUBSET Procs] /\ listed \in [Blocks -> SUBSET Procs]
  BY Zenon DEF TypeOK, LocalsOK, BlocksOK, Blk!StoreTypeOK
<1>1. CASE queryBlock(p)
  BY <1>0, <1>1, Zenon DEF queryBlock, Blk!Get, BlkSame
<1>2. CASE ListReclaimable(p)
  BY <1>0, <1>2, Zenon DEF ListReclaimable, Reclaimable, BlkSame
<1>3. CASE SameBlocks \/ NoSuchBlock(p) \/ BlockExists(p) \/ BlockConflict(p)
  <2>1. block' = block /\ blkCur' = blkCur /\ aged' = aged /\ listed' = listed
    BY <1>3, Zenon DEF SameBlocks, NoSuchBlock, BlockExists, BlockConflict, Blk!DoesNotExist, Blk!AlreadyExists,
       Blk!UpdateConflict, Blk!storeVars
  <2> QED
    BY <2>1, Zenon DEF BlkSame
<1> QED
  BY <1>1, <1>2, <1>3, Zenon

(* A read finds the row as it is, and the copy is then current.            *)
LEMMA ReadCopies ==
  ASSUME TypeOK, NEW p \in Procs, queryBlock(p)
  PROVE  /\ obj'[p] = block[blk[p]] /\ block' = block /\ block[blk[p]] # NoBlock
         /\ listed' = listed /\ aged' = aged
         /\ p \in blkCur'[blk[p]]
  BY Zenon DEF TypeOK, LocalsOK, BlocksOK, Blk!StoreTypeOK, queryBlock, Blk!Get

(* A write puts the writer's copy into the row and makes every other copy  *)
(* stale; it succeeds only on the revision read.                           *)
LEMMA WritesBlock ==
  ASSUME TypeOK, NEW p \in Procs, NEW v \in BlockRows,
         \/ createBlock(p, v) /\ pc[p] = "createBlock"
         \/ updateBlock(p, v) /\ pc[p] \in CopyLabels
  PROVE  BlkWrite(p) /\ block'[blk[p]] = v /\ obj'[p] = v /\ v # NoBlock
<1>0. blk[p] \in Blocks /\ block \in [Blocks -> BlockRows \cup {NoBlock}]
      /\ blkCur \in [Blocks -> SUBSET Procs] /\ listed \in [Blocks -> SUBSET Procs]
      /\ obj \in [Procs -> BlockRows \cup {NoBlock}]
  BY Zenon DEF TypeOK, LocalsOK, BlocksOK, Blk!StoreTypeOK
<1>1. v # NoBlock
  BY RowsAssumption, Zenon
<1> QED
  BY <1>0, <1>1 DEF createBlock, updateBlock, Blk!Create, Blk!Update, BlkWrite

(* A compare-and-delete of a block is a block write that leaves no row and *)
(* the copy as it was.                                                     *)
LEMMA DeletesBlock ==
  ASSUME TypeOK, NEW p \in Procs, deleteBlock(p), pc[p] \in CopyLabels
  PROVE  BlkWrite(p) /\ block'[blk[p]] = NoBlock /\ obj' = obj
<1>0. blk[p] \in Blocks /\ block \in [Blocks -> BlockRows \cup {NoBlock}]
      /\ blkCur \in [Blocks -> SUBSET Procs] /\ listed \in [Blocks -> SUBSET Procs]
      /\ aged \in [Blocks -> BOOLEAN]
  BY Zenon DEF TypeOK, LocalsOK, BlocksOK, Blk!StoreTypeOK
<1> QED
  BY <1>0, Zenon DEF deleteBlock, Blk!Delete, BlkWrite

(* The same of the affinity rows.                                          *)
LEMMA ReadsSameAffinity ==
  ASSUME TypeOK, NEW p \in Procs, NEW k \in Hosts \X Blocks,
         \/ queryAffinity(p, k) \/ NoSuchAffinity(k) \/ AffinityConflict(p, k)
         \/ Aff!AlreadyExists(k)
  PROVE  AffSame(p)
<1>0. affinity \in [Hosts \X Blocks -> AffStates \cup {NoAff}] /\ affCur \in [Hosts \X Blocks -> SUBSET Procs]
  BY Zenon DEF TypeOK, Aff!StoreTypeOK
<1>1. CASE queryAffinity(p, k)
  BY <1>0, <1>1, Zenon DEF queryAffinity, Aff!Get, AffSame
<1>2. CASE NoSuchAffinity(k) \/ AffinityConflict(p, k) \/ Aff!AlreadyExists(k)
  <2>1. affinity' = affinity /\ affCur' = affCur
    BY <1>2, Zenon DEF NoSuchAffinity, AffinityConflict, Aff!DoesNotExist, Aff!UpdateConflict, Aff!AlreadyExists,
       Aff!storeVars
  <2> QED
    BY <2>1, Zenon DEF AffSame
<1> QED
  BY <1>1, <1>2, Zenon

(* A step that makes no affinity call leaves the affinity rows alone.      *)
LEMMA NoAffinityCall ==
  ASSUME SameAffinities, NEW p
  PROVE  AffSame(p)
  BY Zenon DEF SameAffinities, AffSame

(* A write of an affinity row outdates every other copy of it; only the    *)
(* two confirming steps write "confirmed".                                 *)
LEMMA WritesAffinity ==
  ASSUME TypeOK, NEW p \in Procs, NEW k \in Hosts \X Blocks, NEW s \in AffStates,
         updateAffinity(p, k, s) \/ Aff!Create(p, k, s),
         s = "confirmed" => pc[p] \in {"confirm", "gbConfirm"} /\ k = OwnRow(p) /\ updateAffinity(p, k, s)
  PROVE  AffWrite(p, k)
<1>0. affinity \in [Hosts \X Blocks -> AffStates \cup {NoAff}] /\ affCur \in [Hosts \X Blocks -> SUBSET Procs]
  BY Zenon DEF TypeOK, Aff!StoreTypeOK
<1>1. s # NoAff
  BY RowsAssumption, Zenon
<1> QED
  BY <1>0, <1>1, Zenon DEF updateAffinity, Aff!Update, Aff!Create, AffWrite

(* So does a compare-and-delete of an affinity row, which never confirms   *)
(* one.                                                                    *)
LEMMA DeletesAffinity ==
  ASSUME TypeOK, NEW p \in Procs, NEW k \in Hosts \X Blocks, deleteAffinity(p, k)
  PROVE  AffWrite(p, k)
<1>0. affinity \in [Hosts \X Blocks -> AffStates \cup {NoAff}] /\ affCur \in [Hosts \X Blocks -> SUBSET Procs]
  BY Zenon DEF TypeOK, Aff!StoreTypeOK
<1>1. NoAff # "confirmed"
  BY RowsAssumption, Zenon DEF AffStates
<1> QED
  BY <1>0, <1>1, Zenon DEF deleteAffinity, Aff!Delete, AffWrite

-----------------------------------------------------------------------------
(* The steps that read, or search, one by one.                              *)

SearchStep(p) ==
  \/ NextAffine(p) \/ RetryAffine(p) \/ FindFree(p) \/ FindReclaimable(p) \/ ReclaimNext(p) \/ NoFreeBlocks(p)
  \/ Borrow(p) \/ BorrowFailed(p)

(* The search for a block: lists, and reads of affinities.                 *)
LEMMA SearchSteps ==
  ASSUME TypeOK, NEW p \in Procs, Reliable(p), NoDirectClaims, SearchStep(p)
  PROVE  Moves(p) /\ Marks(p) /\ Claims(p) /\ Reliable(p)'
<1> USE ConstantsAssumption DEF TypeOK, At, Goto, args, SameBlocks, OwnRow, RelRow, storeVars
<1>1. CASE NextAffine(p) \/ RetryAffine(p)
  <2>1. PICK b \in Blocks : LookUpAffinity(p, b)
    BY <1>1, Zenon DEF NextAffine, RetryAffine, LocalsOK
  <2>2. host[p] \in Hosts /\ op[p] = "affine"
    BY <1>1, Zenon DEF NextAffine, RetryAffine, LocalsOK, InHand, ReleaseLabels, HostlessLabels, Reliable, OpsInPlace
  <2>3. /\ pc'[p] \in {"gbQueryConfirmed", "gbQueryBlock", "nextAffine"}
        /\ UNCHANGED <<op, host, owner, obj>> /\ \A q \in Procs \ {p} : pc'[q] = pc[q] /\ blk'[q] = blk[q]
    BY <2>1, Zenon DEF LookUpAffinity, queryAffinity, NoSuchAffinity, LoadBlock, LocalsOK
  <2>4. Frame(p)
    BY ONLY <2>3 DEF Frame
  <2>5. BlkSame(p)
    BY <2>1, ReadsSame, Zenon DEF LookUpAffinity
  <2>6. AffSame(p)
    <3>1. <<host[p], b>> \in Hosts \X Blocks
      BY ONLY <2>2
    <3>2. queryAffinity(p, <<host[p], b>>) \/ NoSuchAffinity(<<host[p], b>>)
      BY <2>1, Zenon DEF LookUpAffinity
    <3> QED
      BY ONLY TypeOK, p \in Procs, <3>1, <3>2, ReadsSameAffinity
  <2>7. Reliable(p)'
    BY ONLY <2>2, <2>3 DEF Reliable, OpsInPlace, CopyIsRow, CopyChecked, ReclaimsFresh, DirectClaims, ClaimPhase,
       CopyLabels, ReleaseLabels
  <2>8. Marks(p) /\ Claims(p)
    BY ONLY <2>3 DEF Marks, Claims, ClaimLabels
  <2> QED
    BY <2>4, <2>5, <2>6, <2>7, <2>8, Zenon DEF Moves
<1>3. CASE FindFree(p)
  <2>1. Frame(p)
    BY <1>3, BlockMissTypes, Zenon DEF FindFree, Looking, Usable, LocalsOK, OthersCopies, Frame
  <2>2. BlkSame(p) /\ AffSame(p)
    BY <1>3, ReadsSame, NoAffinityCall, Zenon DEF FindFree, Looking, Usable, SameAffinities
  <2>6. Reliable(p)'
    BY <1>3, Zenon DEF FindFree, Looking, Usable, LocalsOK, Reliable, OpsInPlace, CopyIsRow, CopyChecked,
       ReclaimsFresh, DirectClaims, ClaimPhase, CopyLabels, ReleaseLabels
  <2>7. Marks(p) /\ Claims(p)
    BY <1>3, <2>2, Zenon DEF FindFree, Looking, Usable, LocalsOK, Marks, Claims, ClaimLabels
  <2> QED
    BY <2>1, <2>2, <2>6, <2>7, Zenon DEF Moves
<1>4. CASE FindReclaimable(p)
  <2>1. Frame(p)
    BY <1>4, ListTypes, Zenon DEF FindReclaimable, Looking, Usable, LocalsOK, OthersCopies, Frame
  <2>2. BlkSame(p) /\ AffSame(p)
    BY <1>4, ReadsSame, NoAffinityCall, Zenon DEF FindReclaimable, Looking, Usable, SameAffinities
  <2>6. Reliable(p)'
    BY <1>4, Zenon DEF FindReclaimable, Looking, Usable, ListReclaimable, Reclaimable, LocalsOK, Reliable,
       OpsInPlace, CopyIsRow, CopyChecked, ReclaimsFresh, DirectClaims, ClaimPhase, CopyLabels,
       ReleaseLabels
  <2>7. Marks(p) /\ Claims(p)
    BY <1>4, <2>2, Zenon DEF FindReclaimable, Looking, Usable, LocalsOK, Marks, Claims, ClaimLabels
  <2> QED
    BY <2>1, <2>2, <2>6, <2>7, Zenon DEF Moves
<1>5. CASE ReclaimNext(p)
  <2>1. Frame(p)
    BY <1>5, BlockMissTypes, Zenon DEF ReclaimNext, LocalsOK, OthersCopies, Frame
  <2>2. BlkSame(p) /\ AffSame(p)
    BY <1>5, ReadsSame, NoAffinityCall, Zenon DEF ReclaimNext, SameAffinities
  <2>6. Reliable(p)'
    <3>1. /\ op' = op /\ pc'[p] \in {"reclaim", "relQueryAff"}
          /\ pc'[p] = "relQueryAff" => aged'[blk'[p]] \/ p \notin listed'[blk'[p]]
      BY <1>5, Zenon DEF ReclaimNext, LocalsOK
    <3>2. OpsInPlace(p)
      BY Zenon DEF Reliable
    <3> QED
      BY ONLY <3>1, <3>2 DEF Reliable, OpsInPlace, CopyIsRow, CopyChecked, ReclaimsFresh, DirectClaims, ClaimPhase,
         CopyLabels, ReleaseLabels
  <2>7. Marks(p) /\ Claims(p)
    BY <1>5, <2>2, Zenon DEF ReclaimNext, LocalsOK, Marks, Claims, ClaimLabels
  <2> QED
    BY <2>1, <2>2, <2>6, <2>7, Zenon DEF Moves
<1>6. CASE NoFreeBlocks(p)
  <2>1. Frame(p)
    BY <1>6, BlockMissTypes, Zenon DEF NoFreeBlocks, LocalsOK, OthersCopies, Frame
  <2>2. BlkSame(p) /\ AffSame(p)
    BY <1>6, ReadsSame, NoAffinityCall, Zenon DEF NoFreeBlocks, SameAffinities
  <2>4. /\ pc'[p] \in {"done", "borrow"} /\ op'[p] \in {op[p], "borrow"}
        /\ host'[p] = host[p] /\ owner'[p] = owner[p] /\ blk'[p] = blk[p]
    BY <1>6, Zenon DEF NoFreeBlocks, LocalsOK, Reliable, OpsInPlace, DirectClaims, NoDirectClaims,
       ClaimPhase
  <2>6. Reliable(p)'
    <3>1. OpsInPlace(p)' /\ CopyChecked(p)'
      BY <2>4, Zenon DEF Reliable, OpsInPlace, CopyChecked, DirectClaims, ClaimPhase
    <3>2. CopyIsRow(p)'
      BY <2>4, Zenon DEF CopyIsRow, CopyLabels
    <3>3. ReclaimsFresh(p)'
      BY <2>4, Zenon DEF Reliable, ReclaimsFresh, ReleaseLabels
    <3> QED
      BY <3>1, <3>2, <3>3, Zenon DEF Reliable
  <2>7. Marks(p) /\ Claims(p)
    BY <2>2, <2>4, Zenon DEF Marks, Claims, ClaimLabels
  <2> QED
    BY <2>1, <2>2, <2>6, <2>7, Zenon DEF Moves
<1>7. CASE Borrow(p)
  <2>1. Frame(p)
    BY <1>7, BlockMissTypes, Zenon DEF Borrow, LocalsOK, OthersCopies, Frame
  <2>2. BlkSame(p) /\ AffSame(p)
    BY <1>7, ReadsSame, NoAffinityCall, Zenon DEF Borrow, SameAffinities
  <2>6. Reliable(p)'
    <3>1. op' = op /\ pc'[p] = "borrowQuery"
      BY <1>7, Zenon DEF Borrow, LocalsOK
    <3>2. OpsInPlace(p)
      BY Zenon DEF Reliable
    <3> QED
      BY ONLY <3>1, <3>2 DEF Reliable, OpsInPlace, CopyIsRow, CopyChecked, ReclaimsFresh, DirectClaims, ClaimPhase,
         CopyLabels, ReleaseLabels
  <2>7. Marks(p) /\ Claims(p)
    BY <1>7, <2>2, Zenon DEF Borrow, LocalsOK, Marks, Claims, ClaimLabels
  <2> QED
    BY <2>1, <2>2, <2>6, <2>7, Zenon DEF Moves
<1>8. CASE BorrowFailed(p)
  <2>1. Frame(p)
    BY <1>8, BlockMissTypes, Zenon DEF BorrowFailed, LocalsOK, OthersCopies, Frame
  <2>2. BlkSame(p) /\ AffSame(p)
    BY <1>8, ReadsSame, NoAffinityCall, Zenon DEF BorrowFailed, SameAffinities
  <2>6. Reliable(p)'
    BY <1>8, Zenon DEF BorrowFailed, LocalsOK, Reliable, OpsInPlace, CopyIsRow, CopyChecked, ReclaimsFresh,
       DirectClaims, ClaimPhase, CopyLabels, ReleaseLabels
  <2>7. Marks(p) /\ Claims(p)
    BY <1>8, <2>2, Zenon DEF BorrowFailed, LocalsOK, Marks, Claims, ClaimLabels
  <2> QED
    BY <2>1, <2>2, <2>6, <2>7, Zenon DEF Moves
<1> QED
  BY <1>1, <1>3, <1>4, <1>5, <1>6, <1>7, <1>8, Zenon DEF SearchStep

ReadStep(p) ==
  \/ GbQueryBlock(p) \/ ReadAffinity(p) \/ ReadWinner(p) \/ Recheck(p) \/ Requery(p) \/ AssignQueryBlock(p)

(* The reads of a claim.                                                   *)
LEMMA ReadSteps ==
  ASSUME TypeOK, NEW p \in Procs, Reliable(p), NoDirectClaims, ReadStep(p)
  PROVE  Moves(p) /\ Marks(p) /\ Claims(p) /\ Reliable(p)'
<1> USE ConstantsAssumption DEF TypeOK, At, Goto, args, SameBlocks, OwnRow, RelRow, storeVars
<1>1. CASE GbQueryBlock(p)
  <2>1. Frame(p)
    BY <1>1, BlockReadTypes, BlockMissTypes, Zenon DEF GbQueryBlock, AfterClaim, AfterGone, LocalsOK,
       OthersCopies, Frame
  <2>2. BlkSame(p) /\ AffSame(p)
    BY <1>1, ReadsSame, NoAffinityCall, Zenon DEF GbQueryBlock, AfterClaim, AfterGone, SameAffinities
  <2>4. /\ pc'[p] \in {"gbPend", "gbDropStale", "gbRepend", "assign", "nextAffine", "done"}
        /\ pc'[p] = "gbPend" => NoSuchBlock(p)
        /\ pc'[p] # "gbPend" => queryBlock(p)
        /\ pc'[p] = "gbRepend" => block[blk[p]].aff = host[p]
        /\ pc'[p] = "nextAffine" => op[p] = "affine"
        /\ op[p] \in {"affine", "claim"}
        /\ op'[p] = op[p] /\ host'[p] = host[p] /\ owner'[p] = owner[p] /\ blk'[p] = blk[p]
    BY <1>1, Zenon DEF GbQueryBlock, AfterClaim, AfterGone, LocalsOK, Reliable, OpsInPlace, DirectClaims,
       NoDirectClaims, ClaimPhase
  <2>5. queryBlock(p) => obj'[p] = block[blk[p]] /\ block' = block /\ listed' = listed /\ aged' = aged
    BY ReadCopies, Zenon
  <2>6. Reliable(p)'
    <3>1. OpsInPlace(p)' /\ CopyChecked(p)'
      BY <2>4, <2>5, Zenon DEF Reliable, OpsInPlace, CopyChecked, DirectClaims, ClaimPhase
    <3>2. CopyIsRow(p)'
      BY ONLY <2>4, <2>5 DEF CopyIsRow, CopyLabels
    <3>3. ReclaimsFresh(p)'
      BY <2>4, <2>5, Zenon DEF Reliable, ReclaimsFresh, ReleaseLabels
    <3> QED
      BY <3>1, <3>2, <3>3, Zenon DEF Reliable
  <2>7. Marks(p) /\ Claims(p)
    BY <2>2, <2>4, Zenon DEF Marks, Claims, ClaimLabels, NoSuchBlock, Blk!DoesNotExist
  <2> QED
    BY <2>1, <2>2, <2>6, <2>7, Zenon DEF Moves
<1>2. CASE ReadAffinity(p)
  <2>1. Frame(p)
    BY <1>2, BlockMissTypes, Zenon DEF ReadAffinity, queryAffinity, AfterPending, LoadBlock,
       NoSuchAffinity, LocalsOK, OthersCopies, Frame
  <2>0. OwnRow(p) \in Hosts \X Blocks
    BY <1>2, Zenon DEF ReadAffinity, LocalsOK, InHand, HostlessLabels, ReleaseLabels
  <2>2. BlkSame(p) /\ AffSame(p)
    BY <1>2, <2>0, ReadsSame, ReadsSameAffinity, Zenon DEF ReadAffinity, AfterPending, LoadBlock
  <2>4. /\ pc'[p] \in {"gbQueryConfirmed", "pendAffinity", "done"}
        /\ block' = block /\ blkCur' = blkCur /\ listed' = listed /\ obj' = obj
        /\ op[p] = "claim"
        /\ op'[p] = op[p] /\ host'[p] = host[p] /\ owner'[p] = owner[p] /\ blk'[p] = blk[p]
    BY <1>2, Zenon DEF ReadAffinity, queryAffinity, AfterPending, LoadBlock, NoSuchAffinity, LocalsOK,
       Reliable, OpsInPlace, DirectClaims, NoDirectClaims, ClaimPhase
  <2>6. Reliable(p)'
    BY <2>4, Zenon DEF Reliable, OpsInPlace, CopyIsRow, CopyChecked, ReclaimsFresh, DirectClaims,
       ClaimPhase, CopyLabels, ReleaseLabels
  <2>7. Marks(p) /\ Claims(p)
    BY <2>2, <2>4, Zenon DEF Marks, Claims, ClaimLabels
  <2> QED
    BY <2>1, <2>2, <2>6, <2>7, Zenon DEF Moves
<1>3. CASE ReadWinner(p)
  <2>1. Frame(p)
    BY <1>3, BlockReadTypes, BlockMissTypes, Zenon DEF ReadWinner, AfterGone, LocalsOK, OthersCopies, Frame
  <2>2. BlkSame(p) /\ AffSame(p)
    BY <1>3, ReadsSame, NoAffinityCall, Zenon DEF ReadWinner, AfterGone, SameAffinities
  <2>4. /\ pc'[p] \in {"confirm", "dropAffinity", "nextAffine", "done"}
        /\ pc'[p] \in {"confirm", "dropAffinity"} => queryBlock(p)
        /\ pc'[p] = "confirm" => block[blk[p]].aff = host[p] /\ block[blk[p]] # NoBlock
        /\ pc'[p] = "nextAffine" => op[p] = "affine"
        /\ op[p] # "reclaim" /\ pc[p] = "readWinner" /\ affCur' = affCur
        /\ op'[p] = op[p] /\ host'[p] = host[p] /\ owner'[p] = owner[p] /\ blk'[p] = blk[p]
    BY <1>3, Zenon DEF ReadWinner, AfterGone, SameAffinities, queryBlock, Blk!Get, LocalsOK, Reliable,
       OpsInPlace, DirectClaims, NoDirectClaims, ClaimPhase
  <2>5. queryBlock(p) => obj'[p] = block[blk[p]] /\ block' = block /\ listed' = listed /\ aged' = aged
    BY ReadCopies, Zenon
  <2>6. Reliable(p)'
    BY <2>4, <2>5, Zenon DEF Reliable, OpsInPlace, CopyIsRow, CopyChecked, ReclaimsFresh, DirectClaims,
       ClaimPhase, CopyLabels, ReleaseLabels
  <2>7. Marks(p) /\ Claims(p)
    BY <2>2, <2>4, Zenon DEF Marks, Claims, ClaimLabels
  <2> QED
    BY <2>1, <2>2, <2>6, <2>7, Zenon DEF Moves
<1>4. CASE Recheck(p)
  <2>1. Frame(p)
    BY <1>4, BlockMissTypes, Zenon DEF Recheck, AfterConflict, AfterGone, queryAffinity, AfterClaim,
       NoSuchAffinity, LocalsOK, OthersCopies, Frame
  <2>0. OwnRow(p) \in Hosts \X Blocks
    BY <1>4, Zenon DEF Recheck, LocalsOK, InHand, HostlessLabels, ReleaseLabels
  <2>2. BlkSame(p) /\ AffSame(p)
    BY <1>4, <2>0, ReadsSame, ReadsSameAffinity, Zenon DEF Recheck, AfterConflict, AfterGone, AfterClaim
  <2>4. /\ pc'[p] \in {"assign", "queryAffinity", "createAffinity", "nextAffine", "done"}
        /\ block' = block /\ blkCur' = blkCur /\ listed' = listed /\ obj' = obj
        /\ pc'[p] = "createAffinity" => op[p] = "claim"
        /\ pc'[p] \in {"queryAffinity", "nextAffine"} => op[p] = "affine"
        /\ op[p] \in {"affine", "claim"} /\ pc[p] \in {"recheck", "recheckGone"}
        /\ op'[p] = op[p] /\ host'[p] = host[p] /\ owner'[p] = owner[p] /\ blk'[p] = blk[p]
    BY <1>4, Zenon DEF Recheck, AfterConflict, AfterGone, queryAffinity, AfterClaim, NoSuchAffinity,
       LocalsOK, Reliable, OpsInPlace, DirectClaims, NoDirectClaims, ClaimPhase
  <2>6. Reliable(p)'
    BY <2>4, Zenon DEF Reliable, OpsInPlace, CopyIsRow, CopyChecked, ReclaimsFresh, DirectClaims,
       ClaimPhase, CopyLabels, ReleaseLabels
  <2>7. Marks(p) /\ Claims(p)
    BY <2>2, <2>4, Zenon DEF Marks, Claims, ClaimLabels
  <2> QED
    BY <2>1, <2>2, <2>6, <2>7, Zenon DEF Moves
<1>5. CASE Requery(p)
  <2>1. Frame(p)
    BY <1>5, BlockReadTypes, BlockMissTypes, Zenon DEF Requery, TryNextBlock, LocalsOK, OthersCopies, Frame
  <2>2. BlkSame(p) /\ AffSame(p)
    BY <1>5, ReadsSame, NoAffinityCall, Zenon DEF Requery, TryNextBlock, SameAffinities
  <2>4. /\ pc'[p] \in {"assign", "nextAffine", "borrow"}
        /\ pc'[p] = "assign" => queryBlock(p)
        /\ pc'[p] = "nextAffine" => op'[p] = "affine"
        /\ op'[p] \in {op[p], "affine"}
        /\ host'[p] = host[p] /\ owner'[p] = owner[p] /\ blk'[p] = blk[p]
    BY <1>5, Zenon DEF Requery, TryNextBlock, LocalsOK, Reliable, OpsInPlace, DirectClaims, NoDirectClaims,
       ClaimPhase
  <2>5. queryBlock(p) => obj'[p] = block[blk[p]] /\ block' = block /\ listed' = listed /\ aged' = aged
    BY ReadCopies, Zenon
  <2>6. Reliable(p)'
    <3>1. OpsInPlace(p)' /\ CopyChecked(p)'
      BY <2>4, <2>5, Zenon DEF Reliable, OpsInPlace, CopyChecked, DirectClaims, ClaimPhase
    <3>2. CopyIsRow(p)'
      BY ONLY <2>4, <2>5 DEF CopyIsRow, CopyLabels
    <3>3. ReclaimsFresh(p)'
      BY <2>4, <2>5, Zenon DEF Reliable, ReclaimsFresh, ReleaseLabels
    <3> QED
      BY <3>1, <3>2, <3>3, Zenon DEF Reliable
  <2>7. Marks(p) /\ Claims(p)
    BY <2>2, <2>4, Zenon DEF Marks, Claims, ClaimLabels
  <2> QED
    BY <2>1, <2>2, <2>6, <2>7, Zenon DEF Moves
<1>6. CASE AssignQueryBlock(p)
  <2>1. Frame(p)
    BY <1>6, BlockReadTypes, BlockMissTypes, Zenon DEF AssignQueryBlock, LocalsOK, OthersCopies, Frame
  <2>2. BlkSame(p) /\ AffSame(p)
    BY <1>6, ReadsSame, NoAffinityCall, Zenon DEF AssignQueryBlock, SameAffinities
  <2>4. /\ pc'[p] \in {"assign", "createAffinity"}
        /\ pc'[p] = "assign" => queryBlock(p)
        /\ op[p] = "AssignIP"
        /\ op'[p] = op[p] /\ host'[p] = host[p] /\ owner'[p] = owner[p] /\ blk'[p] = blk[p]
    BY <1>6, Zenon DEF AssignQueryBlock, LocalsOK, Reliable, OpsInPlace, DirectClaims, NoDirectClaims,
       ClaimPhase
  <2>5. queryBlock(p) => obj'[p] = block[blk[p]] /\ block' = block /\ listed' = listed /\ aged' = aged
    BY ReadCopies, Zenon
  <2>6. Reliable(p)'
    <3>1. OpsInPlace(p)' /\ CopyChecked(p)'
      BY <2>4, <2>5, Zenon DEF Reliable, OpsInPlace, CopyChecked, DirectClaims, ClaimPhase
    <3>2. CopyIsRow(p)'
      BY <2>4, <2>5, Zenon DEF CopyIsRow, CopyLabels
    <3>3. ReclaimsFresh(p)'
      BY <2>4, <2>5, Zenon DEF Reliable, ReclaimsFresh, ReleaseLabels
    <3> QED
      BY <3>1, <3>2, <3>3, Zenon DEF Reliable
  <2>7. Marks(p) /\ Claims(p)
    BY <2>2, <2>4, Zenon DEF Marks, Claims, ClaimLabels
  <2> QED
    BY <2>1, <2>2, <2>6, <2>7, Zenon DEF Moves
<1> QED
  BY <1>1, <1>2, <1>3, <1>4, <1>5, <1>6, Zenon DEF ReadStep

ReleaseReadStep(p) ==
  \/ RelQueryAff(p) \/ RelQueryBlock(p) \/ ReleaseQuery(p)

(* The reads of a release.                                                 *)
LEMMA ReleaseReadSteps ==
  ASSUME TypeOK, NEW p \in Procs, Reliable(p), NoDirectClaims, ReleaseReadStep(p)
  PROVE  Moves(p) /\ Marks(p) /\ Claims(p) /\ Reliable(p)'
<1> USE ConstantsAssumption DEF TypeOK, At, Goto, args, SameBlocks, OwnRow, RelRow, storeVars
<1>1. CASE RelQueryAff(p)
  <2>1. Frame(p)
    BY <1>1, BlockMissTypes, Zenon DEF RelQueryAff, queryAffinity, NoSuchAffinity, ReleaseFailed, LocalsOK,
       OthersCopies, Frame
  <2>0. RelRow(p) \in Hosts \X Blocks
    BY <1>1, Zenon DEF RelQueryAff, LocalsOK, InHand, HostlessLabels, ReleaseLabels
  <2>2. BlkSame(p) /\ AffSame(p)
    BY <1>1, <2>0, ReadsSame, ReadsSameAffinity, Zenon DEF RelQueryAff, ReleaseFailed
  <2>6. Reliable(p)'
    BY <1>1, Zenon DEF RelQueryAff, queryAffinity, NoSuchAffinity, ReleaseFailed, LocalsOK, Reliable,
       OpsInPlace, CopyIsRow, CopyChecked, ReclaimsFresh, DirectClaims, ClaimPhase, CopyLabels,
       ReleaseLabels
  <2>7. Marks(p) /\ Claims(p)
    BY <1>1, <2>2, Zenon DEF RelQueryAff, ReleaseFailed, LocalsOK, Marks, Claims, ClaimLabels
  <2> QED
    BY <2>1, <2>2, <2>6, <2>7, Zenon DEF Moves
<1>2. CASE RelQueryBlock(p)
  <2>1. Frame(p)
    BY <1>2, BlockReadTypes, BlockMissTypes, Zenon DEF RelQueryBlock, RequireEmpty, ReleaseFailed,
       LocalsOK, OthersCopies, Frame
  <2>2. BlkSame(p) /\ AffSame(p)
    BY <1>2, ReadsSame, NoAffinityCall, Zenon DEF RelQueryBlock, RequireEmpty, ReleaseFailed,
       SameAffinities
  <2>4. /\ pc'[p] \in {"relDropStale", "relMark", "reclaim", "done"}
        /\ pc'[p] \in {"relDropStale", "relMark"} => queryBlock(p) /\ (op[p] = "reclaim" => p \in listed[blk[p]])
        /\ pc'[p] = "relMark" => block[blk[p]].aff \in {owner[p], NoHost}
        /\ pc'[p] = "relMark" /\ op[p] # "ReleaseAffinity" => block[blk[p]].ips = {}
        /\ pc[p] = "relQueryBlock"
        /\ op'[p] = op[p] /\ host'[p] = host[p] /\ owner'[p] = owner[p] /\ blk'[p] = blk[p]
    BY <1>2, Zenon DEF RelQueryBlock, RequireEmpty, ReleaseFailed, LocalsOK, Reliable, OpsInPlace,
       DirectClaims, NoDirectClaims, ClaimPhase
  <2>5. queryBlock(p) => obj'[p] = block[blk[p]] /\ block' = block /\ listed' = listed /\ aged' = aged
    BY ReadCopies, Zenon
  <2>6. Reliable(p)'
    <3>1. OpsInPlace(p)' /\ CopyChecked(p)'
      BY <2>4, <2>5, Zenon DEF Reliable, OpsInPlace, CopyChecked, DirectClaims, ClaimPhase
    <3>2. CopyIsRow(p)'
      BY <2>4, <2>5, Zenon DEF CopyIsRow, CopyLabels
    <3>3. ReclaimsFresh(p)'
      BY <2>4, <2>5, Zenon DEF Reliable, ReclaimsFresh, ReleaseLabels
    <3> QED
      BY <3>1, <3>2, <3>3, Zenon DEF Reliable
  <2>7. Marks(p) /\ Claims(p)
    BY <2>2, <2>4, Zenon DEF Marks, Claims, ClaimLabels
  <2> QED
    BY <2>1, <2>2, <2>6, <2>7, Zenon DEF Moves
<1>3. CASE ReleaseQuery(p)
  <2>1. Frame(p)
    BY <1>3, BlockReadTypes, BlockMissTypes, Zenon DEF ReleaseQuery, LocalsOK, OthersCopies, Frame
  <2>2. BlkSame(p) /\ AffSame(p)
    BY <1>3, ReadsSame, NoAffinityCall, Zenon DEF ReleaseQuery, SameAffinities
  <2>4. /\ pc'[p] \in {"releaseUpdate", "done"}
        /\ pc'[p] = "releaseUpdate" => queryBlock(p)
        /\ op'[p] = op[p] /\ host'[p] = host[p] /\ owner'[p] = owner[p] /\ blk'[p] = blk[p]
    BY <1>3, Zenon DEF ReleaseQuery, LocalsOK, Reliable, OpsInPlace, DirectClaims, NoDirectClaims,
       ClaimPhase
  <2>5. queryBlock(p) => obj'[p] = block[blk[p]] /\ block' = block /\ listed' = listed /\ aged' = aged
    BY ReadCopies, Zenon
  <2>6. Reliable(p)'
    BY <2>4, <2>5, Zenon DEF Reliable, OpsInPlace, CopyIsRow, CopyChecked, ReclaimsFresh, DirectClaims,
       ClaimPhase, CopyLabels, ReleaseLabels
  <2>7. Marks(p) /\ Claims(p)
    BY <2>2, <2>4, Zenon DEF Marks, Claims, ClaimLabels
  <2> QED
    BY <2>1, <2>2, <2>6, <2>7, Zenon DEF Moves
<1> QED
  BY <1>1, <1>2, <1>3, Zenon DEF ReleaseReadStep

-----------------------------------------------------------------------------
(* Every step is a move.                                                   *)

PendStep(p) ==
  \/ GbPend(p) \/ GbDropStale(p) \/ GbRepend(p) \/ CreatePendingAffinity(p) \/ PendAffinity(p) \/ DropAffinity(p)

(* The writes of an affinity that do not confirm it.                       *)
LEMMA PendSteps ==
  ASSUME TypeOK, NEW p \in Procs, Reliable(p), NoDirectClaims, PendStep(p)
  PROVE  Moves(p) /\ Marks(p) /\ Claims(p) /\ Reliable(p)'
<1> USE ConstantsAssumption DEF TypeOK, At, Goto, args, SameBlocks, OwnRow, RelRow, storeVars
<1>1. CASE GbPend(p)
  <2>1. Frame(p)
    BY <1>1, BlockMissTypes, Zenon DEF GbPend, UpdateOwnAffinity, updateAffinity, AffinityConflict,
       AfterConflict, NoSuchAffinity, AfterGone, LocalsOK, OthersCopies, Frame
  <2>0. OwnRow(p) \in Hosts \X Blocks
    BY <1>1, Zenon DEF GbPend, LocalsOK, InHand, HostlessLabels, ReleaseLabels
  <2>2. BlkSame(p)
    BY <1>1, ReadsSame, Zenon DEF GbPend, UpdateOwnAffinity, AfterConflict, AfterGone
  <2>3. (AffSame(p) \/ AffWrite(p, OwnRow(p)))
    BY <1>1, <2>0, ReadsSameAffinity, WritesAffinity, StateNames, Zenon DEF GbPend, UpdateOwnAffinity,
       AfterConflict, AfterGone
  <2>4. /\ pc'[p] \in {"createBlock", "queryAffinity", "createAffinity", "nextAffine", "done"}
        /\ pc'[p] = "createBlock" => p \in affCur[OwnRow(p)]
        /\ pc'[p] = "createAffinity" => op[p] = "claim"
        /\ pc'[p] \in {"queryAffinity", "nextAffine"} => op[p] = "affine"
        /\ op[p] \in {"affine", "claim"} /\ pc[p] = "gbPend"
        /\ op'[p] = op[p] /\ host'[p] = host[p] /\ owner'[p] = owner[p] /\ blk'[p] = blk[p]
    BY <1>1, Zenon DEF GbPend, UpdateOwnAffinity, updateAffinity, AffinityConflict, AfterConflict,
       NoSuchAffinity, AfterGone, Aff!Update, LocalsOK, Reliable, OpsInPlace, DirectClaims,
       NoDirectClaims, ClaimPhase
  <2>6. Reliable(p)'
    BY <2>4, Zenon DEF Reliable, OpsInPlace, CopyIsRow, CopyChecked, ReclaimsFresh, DirectClaims,
       ClaimPhase, CopyLabels, ReleaseLabels
  <2>7. Marks(p) /\ Claims(p)
    BY <2>2, <2>3, <2>4, Zenon DEF Marks, Claims, ClaimLabels
  <2> QED
    BY <2>1, <2>2, <2>3, <2>6, <2>7, <2>0, Zenon DEF Moves
<1>2. CASE GbDropStale(p)
  <2>1. Frame(p)
    BY <1>2, BlockMissTypes, Zenon DEF GbDropStale, deleteAffinity, AfterTaken, AffinityConflict,
       AfterConflict, NoSuchAffinity, AfterGone, LocalsOK, OthersCopies, Frame
  <2>0. OwnRow(p) \in Hosts \X Blocks
    BY <1>2, Zenon DEF GbDropStale, LocalsOK, InHand, HostlessLabels, ReleaseLabels
  <2>2. BlkSame(p)
    BY <1>2, ReadsSame, Zenon DEF GbDropStale, AfterTaken, AfterConflict, AfterGone
  <2>3. (AffSame(p) \/ AffWrite(p, OwnRow(p)))
    BY <1>2, <2>0, ReadsSameAffinity, DeletesAffinity, Zenon DEF GbDropStale, AfterTaken, AfterConflict,
       AfterGone
  <2>4. /\ pc'[p] \in {"queryAffinity", "createAffinity", "nextAffine", "find", "done"}
        /\ pc'[p] \in {"createAffinity", "find"} => op[p] = "claim"
        /\ pc'[p] \in {"queryAffinity", "nextAffine"} => op[p] = "affine"
        /\ op[p] \in {"affine", "claim"} /\ pc[p] = "gbDropStale"
        /\ op'[p] = op[p] /\ host'[p] = host[p] /\ owner'[p] = owner[p] /\ blk'[p] = blk[p]
    BY <1>2, Zenon DEF GbDropStale, deleteAffinity, AfterTaken, AffinityConflict, AfterConflict,
       NoSuchAffinity, AfterGone, LocalsOK, Reliable, OpsInPlace, DirectClaims, NoDirectClaims,
       ClaimPhase
  <2>6. Reliable(p)'
    BY <2>4, Zenon DEF Reliable, OpsInPlace, CopyIsRow, CopyChecked, ReclaimsFresh, DirectClaims,
       ClaimPhase, CopyLabels, ReleaseLabels
  <2>7. Marks(p) /\ Claims(p)
    BY <2>2, <2>3, <2>4, Zenon DEF Marks, Claims, ClaimLabels
  <2> QED
    BY <2>1, <2>2, <2>3, <2>6, <2>7, <2>0, Zenon DEF Moves
<1>3. CASE GbRepend(p)
  <2>1. Frame(p)
    BY <1>3, BlockMissTypes, Zenon DEF GbRepend, UpdateOwnAffinity, updateAffinity, AffinityConflict,
       AfterConflict, NoSuchAffinity, AfterGone, LocalsOK, OthersCopies, Frame
  <2>0. OwnRow(p) \in Hosts \X Blocks
    BY <1>3, Zenon DEF GbRepend, LocalsOK, InHand, HostlessLabels, ReleaseLabels
  <2>2. BlkSame(p)
    BY <1>3, ReadsSame, Zenon DEF GbRepend, UpdateOwnAffinity, AfterConflict, AfterGone
  <2>3. (AffSame(p) \/ AffWrite(p, OwnRow(p)))
    BY <1>3, <2>0, ReadsSameAffinity, WritesAffinity, StateNames, Zenon DEF GbRepend, UpdateOwnAffinity,
       AfterConflict, AfterGone
  <2>6. Reliable(p)'
    BY <1>3, Zenon DEF GbRepend, UpdateOwnAffinity, updateAffinity, AffinityConflict, AfterConflict,
       NoSuchAffinity, AfterGone, LocalsOK, Reliable, OpsInPlace, CopyIsRow, CopyChecked,
       ReclaimsFresh, DirectClaims, ClaimPhase, CopyLabels, ReleaseLabels
  <2>7. Marks(p) /\ Claims(p)
    BY <1>3, <2>2, <2>3, Zenon DEF GbRepend, UpdateOwnAffinity, AfterConflict, AfterGone, LocalsOK, Marks,
       Claims, ClaimLabels
  <2> QED
    BY <2>1, <2>2, <2>3, <2>6, <2>7, <2>0, Zenon DEF Moves
<1>4. CASE CreatePendingAffinity(p)
  <2>1. Frame(p)
    BY <1>4, BlockMissTypes, Zenon DEF CreatePendingAffinity, AfterPending, LoadBlock, LocalsOK,
       OthersCopies, Frame
  <2>0. OwnRow(p) \in Hosts \X Blocks
    BY <1>4, Zenon DEF CreatePendingAffinity, LocalsOK, InHand, HostlessLabels, ReleaseLabels
  <2>2. BlkSame(p)
    BY <1>4, ReadsSame, Zenon DEF CreatePendingAffinity, AfterPending, LoadBlock
  <2>3. (AffSame(p) \/ AffWrite(p, OwnRow(p)))
    BY <1>4, <2>0, ReadsSameAffinity, WritesAffinity, StateNames, Zenon DEF CreatePendingAffinity,
       AfterPending, LoadBlock
  <2>4. /\ pc'[p] \in {"gbQueryBlock", "readAffinity"}
        /\ block' = block /\ blkCur' = blkCur /\ listed' = listed /\ obj' = obj
        /\ op[p] = "claim"
        /\ op'[p] = op[p] /\ host'[p] = host[p] /\ owner'[p] = owner[p] /\ blk'[p] = blk[p]
    BY <1>4, Zenon DEF CreatePendingAffinity, AfterPending, LoadBlock, LocalsOK, Reliable, OpsInPlace,
       DirectClaims, NoDirectClaims, ClaimPhase
  <2>6. Reliable(p)'
    BY <2>4, Zenon DEF Reliable, OpsInPlace, CopyIsRow, CopyChecked, ReclaimsFresh, DirectClaims,
       ClaimPhase, CopyLabels, ReleaseLabels
  <2>7. Marks(p) /\ Claims(p)
    BY <2>2, <2>3, <2>4, Zenon DEF Marks, Claims, ClaimLabels
  <2> QED
    BY <2>1, <2>2, <2>3, <2>6, <2>7, <2>0, Zenon DEF Moves
<1>5. CASE PendAffinity(p)
  <2>1. Frame(p)
    BY <1>5, BlockMissTypes, Zenon DEF PendAffinity, UpdateOwnAffinity, updateAffinity, AffinityConflict,
       AfterConflict, NoSuchAffinity, AfterGone, AfterPending, LoadBlock, LocalsOK, OthersCopies,
       Frame
  <2>0. OwnRow(p) \in Hosts \X Blocks
    BY <1>5, Zenon DEF PendAffinity, LocalsOK, InHand, HostlessLabels, ReleaseLabels
  <2>2. BlkSame(p)
    BY <1>5, ReadsSame, Zenon DEF PendAffinity, UpdateOwnAffinity, AfterConflict, AfterGone, AfterPending,
       LoadBlock
  <2>3. (AffSame(p) \/ AffWrite(p, OwnRow(p)))
    BY <1>5, <2>0, ReadsSameAffinity, WritesAffinity, StateNames, Zenon DEF PendAffinity,
       UpdateOwnAffinity, AfterConflict, AfterGone, AfterPending, LoadBlock
  <2>4. /\ pc'[p] \in {"gbQueryBlock", "createAffinity", "done"}
        /\ block' = block /\ blkCur' = blkCur /\ listed' = listed /\ obj' = obj
        /\ op[p] = "claim"
        /\ op'[p] = op[p] /\ host'[p] = host[p] /\ owner'[p] = owner[p] /\ blk'[p] = blk[p]
    BY <1>5, Zenon DEF PendAffinity, UpdateOwnAffinity, updateAffinity, AffinityConflict, AfterConflict,
       NoSuchAffinity, AfterGone, AfterPending, LoadBlock, LocalsOK, Reliable, OpsInPlace,
       DirectClaims, NoDirectClaims, ClaimPhase
  <2>6. Reliable(p)'
    BY <2>4, Zenon DEF Reliable, OpsInPlace, CopyIsRow, CopyChecked, ReclaimsFresh, DirectClaims,
       ClaimPhase, CopyLabels, ReleaseLabels
  <2>7. Marks(p) /\ Claims(p)
    BY <2>2, <2>3, <2>4, Zenon DEF Marks, Claims, ClaimLabels
  <2> QED
    BY <2>1, <2>2, <2>3, <2>6, <2>7, <2>0, Zenon DEF Moves
<1>6. CASE DropAffinity(p)
  <2>1. Frame(p)
    BY <1>6, BlockMissTypes, Zenon DEF DropAffinity, AfterTaken, deleteAffinity, AffinityConflict,
       NoSuchAffinity, LocalsOK, OthersCopies, Frame
  <2>0. OwnRow(p) \in Hosts \X Blocks
    BY <1>6, Zenon DEF DropAffinity, LocalsOK, InHand, HostlessLabels, ReleaseLabels
  <2>2. BlkSame(p)
    BY <1>6, ReadsSame, Zenon DEF DropAffinity, AfterTaken
  <2>3. (AffSame(p) \/ AffWrite(p, OwnRow(p)))
    BY <1>6, <2>0, ReadsSameAffinity, DeletesAffinity, Zenon DEF DropAffinity, AfterTaken
  <2>6. Reliable(p)'
    BY <1>6, Zenon DEF DropAffinity, AfterTaken, deleteAffinity, AffinityConflict, NoSuchAffinity,
       LocalsOK, Reliable, OpsInPlace, CopyIsRow, CopyChecked, ReclaimsFresh, DirectClaims,
       ClaimPhase, CopyLabels, ReleaseLabels
  <2>7. Marks(p) /\ Claims(p)
    BY <1>6, <2>2, <2>3, Zenon DEF DropAffinity, AfterTaken, LocalsOK, Marks, Claims, ClaimLabels
  <2> QED
    BY <2>1, <2>2, <2>3, <2>6, <2>7, <2>0, Zenon DEF Moves
<1> QED
  BY <1>1, <1>2, <1>3, <1>4, <1>5, <1>6, Zenon DEF PendStep

ConfirmStep(p) ==
  \/ GbConfirm(p) \/ Confirm(p)

(* The writes of an affinity that confirm it.                              *)
LEMMA ConfirmSteps ==
  ASSUME TypeOK, NEW p \in Procs, Reliable(p), NoDirectClaims, ConfirmStep(p)
  PROVE  Moves(p) /\ Marks(p) /\ Claims(p) /\ Reliable(p)'
<1> USE ConstantsAssumption DEF TypeOK, At, Goto, args, SameBlocks, OwnRow, RelRow, storeVars
<1>1. CASE GbConfirm(p)
  <2>1. Frame(p)
    BY <1>1, BlockMissTypes, Zenon DEF GbConfirm, UpdateOwnAffinity, updateAffinity, AffinityConflict,
       AfterConflict, NoSuchAffinity, AfterGone, AfterClaim, LocalsOK, OthersCopies, Frame
  <2>0. OwnRow(p) \in Hosts \X Blocks
    BY <1>1, Zenon DEF GbConfirm, LocalsOK, InHand, HostlessLabels, ReleaseLabels
  <2>2. BlkSame(p)
    BY <1>1, ReadsSame, Zenon DEF GbConfirm, UpdateOwnAffinity, AfterConflict, AfterGone, AfterClaim
  <2>3. (AffSame(p) \/ AffWrite(p, OwnRow(p)))
    BY <1>1, <2>0, ReadsSameAffinity, WritesAffinity, StateNames, Zenon DEF GbConfirm, UpdateOwnAffinity,
       AfterConflict, AfterGone, AfterClaim
  <2>4. /\ pc'[p] \in {"assign", "queryAffinity", "createAffinity", "nextAffine", "done"}
        /\ block' = block /\ blkCur' = blkCur /\ obj' = obj
        /\ pc'[p] = "createAffinity" => op[p] = "claim"
        /\ pc'[p] \in {"queryAffinity", "nextAffine"} => op[p] = "affine"
        /\ op[p] \in {"affine", "claim"} /\ pc[p] = "gbConfirm"
        /\ op'[p] = op[p] /\ host'[p] = host[p] /\ owner'[p] = owner[p] /\ blk'[p] = blk[p]
    BY <1>1, Zenon DEF GbConfirm, UpdateOwnAffinity, updateAffinity, AffinityConflict, AfterConflict,
       NoSuchAffinity, AfterGone, AfterClaim, LocalsOK, Reliable, OpsInPlace, DirectClaims,
       NoDirectClaims, ClaimPhase
  <2>6. Reliable(p)'
    BY <2>4, Zenon DEF Reliable, OpsInPlace, CopyIsRow, CopyChecked, ReclaimsFresh, DirectClaims,
       ClaimPhase, CopyLabels, ReleaseLabels
  <2>7. Marks(p) /\ Claims(p)
    BY <2>2, <2>3, <2>4, Zenon DEF Marks, Claims, ClaimLabels
  <2> QED
    BY <2>1, <2>2, <2>3, <2>6, <2>7, <2>0, Zenon DEF Moves
<1>2. CASE Confirm(p)
  <2>1. Frame(p)
    BY <1>2, BlockMissTypes, Zenon DEF Confirm, updateAffinity, AfterClaim, AfterGone, AffinityConflict,
       NoSuchAffinity, LocalsOK, OthersCopies, Frame
  <2>0. OwnRow(p) \in Hosts \X Blocks
    BY <1>2, Zenon DEF Confirm, LocalsOK, InHand, HostlessLabels, ReleaseLabels
  <2>2. BlkSame(p)
    BY <1>2, ReadsSame, Zenon DEF Confirm, AfterClaim, AfterGone
  <2>3. (AffSame(p) \/ AffWrite(p, OwnRow(p)))
    BY <1>2, <2>0, ReadsSameAffinity, WritesAffinity, StateNames, Zenon DEF Confirm, AfterClaim, AfterGone
  <2>6. Reliable(p)'
    BY <1>2, ZenonT(30) DEF Confirm, updateAffinity, AfterClaim, AfterGone, AffinityConflict, NoSuchAffinity,
       LocalsOK, Reliable, OpsInPlace, CopyIsRow, CopyChecked, ReclaimsFresh, DirectClaims,
       ClaimPhase, CopyLabels, ReleaseLabels
  <2>7. Marks(p) /\ Claims(p)
    BY <1>2, <2>2, <2>3, Zenon DEF Confirm, AfterClaim, AfterGone, LocalsOK, Marks, Claims, ClaimLabels
  <2> QED
    BY <2>1, <2>2, <2>3, <2>6, <2>7, <2>0, Zenon DEF Moves
<1> QED
  BY <1>1, <1>2, Zenon DEF ConfirmStep

MarkStep(p) ==
  \/ RelDropStale(p) \/ RelMark(p) \/ RelDropAff(p)

(* The writes of an affinity by a release.                                 *)
LEMMA MarkSteps ==
  ASSUME TypeOK, NEW p \in Procs, Reliable(p), NoDirectClaims, MarkStep(p)
  PROVE  Moves(p) /\ Marks(p) /\ Claims(p) /\ Reliable(p)'
<1> USE ConstantsAssumption DEF TypeOK, At, Goto, args, SameBlocks, OwnRow, RelRow, storeVars
<1>1. CASE RelDropStale(p)
  <2>1. Frame(p)
    BY <1>1, BlockMissTypes, Zenon DEF RelDropStale, ReleaseFailed, deleteAffinity, AffinityConflict,
       NoSuchAffinity, LocalsOK, OthersCopies, Frame
  <2>0. RelRow(p) \in Hosts \X Blocks
    BY <1>1, Zenon DEF RelDropStale, LocalsOK, InHand, HostlessLabels, ReleaseLabels
  <2>2. BlkSame(p)
    BY <1>1, ReadsSame, Zenon DEF RelDropStale, ReleaseFailed
  <2>3. (AffSame(p) \/ AffWrite(p, RelRow(p)))
    BY <1>1, <2>0, ReadsSameAffinity, DeletesAffinity, Zenon DEF RelDropStale, ReleaseFailed
  <2>6. Reliable(p)'
    BY <1>1, Zenon DEF RelDropStale, ReleaseFailed, deleteAffinity, AffinityConflict, NoSuchAffinity,
       LocalsOK, Reliable, OpsInPlace, CopyIsRow, CopyChecked, ReclaimsFresh, DirectClaims,
       ClaimPhase, CopyLabels, ReleaseLabels
  <2>7. Marks(p) /\ Claims(p)
    BY <1>1, <2>2, <2>3, Zenon DEF RelDropStale, ReleaseFailed, LocalsOK, Marks, Claims, ClaimLabels
  <2> QED
    BY <2>1, <2>2, <2>3, <2>6, <2>7, <2>0, Zenon DEF Moves
<1>2. CASE RelMark(p)
  <2>1. Frame(p)
    BY <1>2, BlockMissTypes, Zenon DEF RelMark, updateAffinity, AffinityConflict, ReleaseConflict,
       ReleaseFailed, NoSuchAffinity, LocalsOK, OthersCopies, Frame
  <2>0. RelRow(p) \in Hosts \X Blocks
    BY <1>2, Zenon DEF RelMark, LocalsOK, InHand, HostlessLabels, ReleaseLabels
  <2>2. BlkSame(p)
    BY <1>2, ReadsSame, Zenon DEF RelMark, ReleaseConflict, ReleaseFailed
  <2>3. (AffSame(p) \/ AffWrite(p, RelRow(p))) /\ (pc'[p] = "relBlock" => AffWrite(p, RelRow(p)))
    BY <1>2, <2>0, ReadsSameAffinity, WritesAffinity, StateNames, Zenon DEF RelMark, ReleaseConflict,
       ReleaseFailed, LocalsOK
  <2>4. /\ pc'[p] \in {"relBlock", "relQueryAff", "reclaim", "done"} /\ pc[p] = "relMark"
        /\ block' = block /\ blkCur' = blkCur /\ listed' = listed /\ aged' = aged /\ obj' = obj
        /\ op'[p] = op[p] /\ host'[p] = host[p] /\ owner'[p] = owner[p] /\ blk'[p] = blk[p]
    BY <1>2, Zenon DEF RelMark, updateAffinity, AffinityConflict, ReleaseConflict, ReleaseFailed,
       NoSuchAffinity, LocalsOK, Reliable, OpsInPlace, DirectClaims, NoDirectClaims, ClaimPhase
  <2>6. Reliable(p)'
    BY <2>4, Zenon DEF Reliable, OpsInPlace, CopyIsRow, CopyChecked, ReclaimsFresh, DirectClaims,
       ClaimPhase, CopyLabels, ReleaseLabels
  <2>7. Marks(p) /\ Claims(p)
    BY <2>2, <2>3, <2>4, Zenon DEF Marks, Claims, ClaimLabels
  <2> QED
    BY <2>1, <2>2, <2>3, <2>6, <2>7, <2>0, Zenon DEF Moves
<1>3. CASE RelDropAff(p)
  <2>1. Frame(p)
    BY <1>3, BlockMissTypes, Zenon DEF RelDropAff, deleteAffinity, NoSuchAffinity, AffinityConflict,
       ReleaseConflict, ReleaseFailed, LocalsOK, OthersCopies, Frame
  <2>0. RelRow(p) \in Hosts \X Blocks
    BY <1>3, Zenon DEF RelDropAff, LocalsOK, InHand, HostlessLabels, ReleaseLabels
  <2>2. BlkSame(p)
    BY <1>3, ReadsSame, Zenon DEF RelDropAff, ReleaseConflict, ReleaseFailed
  <2>3. (AffSame(p) \/ AffWrite(p, RelRow(p)))
    BY <1>3, <2>0, ReadsSameAffinity, DeletesAffinity, Zenon DEF RelDropAff, ReleaseConflict, ReleaseFailed
  <2>4. /\ pc'[p] \in {"createAffinity", "relQueryAff", "reclaim", "done"}
        /\ pc'[p] = "createAffinity" => op'[p] = "claim"
        /\ pc'[p] = "relQueryAff" => op'[p] # "reclaim"
        /\ op'[p] \in {op[p], "claim"}
        /\ host'[p] = host[p] /\ owner'[p] = owner[p] /\ blk'[p] = blk[p]
    BY <1>3, Zenon DEF RelDropAff, deleteAffinity, NoSuchAffinity, AffinityConflict, ReleaseConflict,
       ReleaseFailed, LocalsOK, Reliable, OpsInPlace, DirectClaims, NoDirectClaims, ClaimPhase
  <2>6. Reliable(p)'
    <3>1. OpsInPlace(p)' /\ CopyChecked(p)'
      BY <2>4, Zenon DEF Reliable, OpsInPlace, CopyChecked, DirectClaims, ClaimPhase
    <3>2. CopyIsRow(p)'
      BY <2>4, Zenon DEF CopyIsRow, CopyLabels
    <3>3. ReclaimsFresh(p)'
      BY <2>4, Zenon DEF Reliable, ReclaimsFresh, ReleaseLabels
    <3> QED
      BY <3>1, <3>2, <3>3, Zenon DEF Reliable
  <2>7. Marks(p) /\ Claims(p)
    BY <2>2, <2>3, <2>4, Zenon DEF Marks, Claims, ClaimLabels
  <2> QED
    BY <2>1, <2>2, <2>3, <2>6, <2>7, <2>0, Zenon DEF Moves
<1> QED
  BY <1>1, <1>2, <1>3, Zenon DEF MarkStep

(* What a write of the block comes to, for every step that makes one: the  *)
(* row was the copy in hand, and v takes its place.                        *)
LEMMA WriteMoves ==
  ASSUME TypeOK, NEW p \in Procs, BlkWrite(p), Frame(p), AffSame(p),
         block[blk[p]] # NoBlock =>
           /\ pc[p] = "relBlock" \/ obj[p].aff = NoHost
              \/ (block'[blk[p]] # NoBlock /\ block'[blk[p]].aff = obj[p].aff)
           /\ \A o \in obj[p].ips : \/ block'[blk[p]] # NoBlock /\ o \in block'[blk[p]].ips
                                    \/ pc[p] = "releaseUpdate" /\ o = ord[p] /\ pc'[p] # pc[p]
  PROVE  Moves(p)
  BY Zenon DEF Moves, Keeps

(* The steps that may write a block.                                       *)
LEMMA BlockSteps ==
  ASSUME TypeOK, NEW p \in Procs, Reliable(p), NoDirectClaims,
         \/ GbRewrite(p) \/ CreateBlock(p) \/ AssignFromBlock(p) \/ AssignAddress(p)
         \/ RelBlock(p) \/ ReleaseUpdate(p)
  PROVE  Moves(p) /\ Marks(p) /\ Claims(p) /\ Reliable(p)'
<1> USE ConstantsAssumption DEF At, Goto, args
<1>0. /\ BlocksOK /\ LocalsOK /\ InHand
      /\ pc[p] \in CopyLabels => obj[p] \in BlockRows /\ obj[p] # NoBlock
  BY RowsAssumption, Zenon DEF TypeOK, InHand
<1>1. CASE GbRewrite(p)
  <2>1. /\ pc[p] = "gbRewrite" /\ obj[p] \in BlockRows /\ obj[p].aff = host[p] /\ op[p] \in {"affine", "claim"}
        /\ op'[p] = op[p] /\ host'[p] = host[p] /\ owner'[p] = owner[p] /\ blk'[p] = blk[p]
    BY <1>0, <1>1, Zenon DEF GbRewrite, CopyLabels, Reliable, OpsInPlace, CopyChecked, ClaimPhase, DirectClaims, NoDirectClaims
  <2>2. AffSame(p)
    BY <1>1, NoAffinityCall, Zenon DEF GbRewrite
  <2>3. Frame(p)
    BY <1>0, <1>1, <2>1, BlockWriteTypes, BlockMissTypes, Zenon DEF GbRewrite, LocalsOK, Frame, OthersCopies
  <2>4. CASE updateBlock(p, obj[p]) /\ pc'[p] = "gbConfirm"
    <3>1. BlkWrite(p) /\ block'[blk[p]] = obj[p] /\ obj'[p] = obj[p] /\ obj[p] # NoBlock
      BY <2>1, <2>4, WritesBlock, Zenon DEF CopyLabels
    <3>2. Moves(p)
      BY <2>2, <2>3, <3>1, WriteMoves, Zenon
    <3>3. Reliable(p)'
      BY <2>1, <2>4, <3>1, Zenon DEF Reliable, OpsInPlace, CopyIsRow, CopyChecked, ReclaimsFresh, ClaimPhase
    <3> QED
      BY <2>1, <2>4, <3>1, <3>2, <3>3, Zenon DEF Marks, Claims
  <2>5. CASE (BlockConflict(p) /\ Goto(p, AfterConflict(p))) \/ (NoSuchBlock(p) /\ Goto(p, AfterGone(p)))
    <3>1. /\ pc'[p] \in {"queryAffinity", "createAffinity", "nextAffine", "done"}
          /\ pc'[p] \in {"queryAffinity", "nextAffine"} => op[p] = "affine"
          /\ pc'[p] = "createAffinity" => op[p] = "claim"
      BY <1>0, <2>1, <2>5, Zenon DEF LocalsOK, AfterConflict, AfterGone
    <3>2. Moves(p)
      BY <2>2, <2>3, <2>5, ReadsSame, Zenon DEF Moves
    <3>3. Reliable(p)'
      BY <2>1, <3>1, Zenon DEF Reliable, OpsInPlace, CopyIsRow, CopyChecked, ReclaimsFresh, ClaimPhase, DirectClaims, NoDirectClaims,
         CopyLabels
    <3> QED
      BY <3>1, <3>2, <3>3, Zenon DEF Marks, Claims, ClaimLabels
  <2> QED
    BY <1>0, <1>1, <2>4, <2>5, Zenon DEF GbRewrite, LocalsOK
<1>2. CASE CreateBlock(p)
  <2>1. /\ pc[p] = "createBlock" /\ NewBlock(host[p]) \in BlockRows /\ op[p] \in {"affine", "claim"}
        /\ op'[p] = op[p] /\ host'[p] = host[p] /\ owner'[p] = owner[p] /\ blk'[p] = blk[p]
    BY <1>0, <1>2, NewRowTypes, Zenon DEF CreateBlock, InHand, HostlessLabels, ReleaseLabels, Reliable, OpsInPlace, ClaimPhase,
       DirectClaims, NoDirectClaims
  <2>2. AffSame(p) /\ affCur' = affCur
    BY <1>2, NoAffinityCall, Zenon DEF CreateBlock, SameAffinities
  <2>3. Frame(p)
    BY <1>0, <1>2, <2>1, BlockWriteTypes, BlockMissTypes, Zenon DEF CreateBlock, LocalsOK, Frame, OthersCopies
  <2>4. CASE createBlock(p, NewBlock(host[p])) /\ pc'[p] = "confirm"
    <3>1. BlkWrite(p) /\ block'[blk[p]] = NewBlock(host[p]) /\ obj'[p] = NewBlock(host[p])
          /\ NewBlock(host[p]) # NoBlock
      BY <2>1, <2>4, WritesBlock, Zenon
    <3>2. block[blk[p]] = NoBlock
      BY <2>4, Zenon DEF createBlock, Blk!Create
    <3>3. Moves(p)
      BY <2>2, <2>3, <3>1, <3>2, WriteMoves, Zenon
    <3>4. NewBlock(host[p]).aff = host[p]
      BY Zenon DEF NewBlock
    <3>5. Reliable(p)'
      BY <2>1, <2>4, <3>1, <3>4, Zenon DEF Reliable, OpsInPlace, CopyIsRow, CopyChecked, ReclaimsFresh, ClaimPhase
    <3> QED
      BY <2>1, <2>4, <3>1, <3>3, <3>4, <3>5, Zenon DEF Marks, Claims
  <2>5. CASE BlockExists(p) /\ pc'[p] = "readWinner"
    <3>1. BlkSame(p)
      BY <2>5, ReadsSame, Zenon
    <3>2. Reliable(p)'
      BY <2>1, <2>5, Zenon DEF Reliable, OpsInPlace, CopyIsRow, CopyChecked, ReclaimsFresh, ClaimPhase, CopyLabels
    <3> QED
      BY <2>1, <2>2, <2>3, <2>5, <3>1, <3>2, Zenon DEF Marks, Claims, Moves
  <2> QED
    BY <1>0, <1>2, <2>4, <2>5, Zenon DEF CreateBlock, LocalsOK
<1>3. CASE AssignFromBlock(p)
  <2>1. /\ pc[p] = "assign" /\ obj[p] \in BlockRows
        /\ host'[p] = host[p] /\ owner'[p] = owner[p] /\ blk'[p] = blk[p]
    BY <1>0, <1>3, Zenon DEF AssignFromBlock, CopyLabels
  <2>2. AffSame(p)
    BY <1>3, NoAffinityCall, Zenon DEF AssignFromBlock
  <2>3. Frame(p)
    BY <1>0, <1>3, <2>1, BlockWriteTypes, BlockMissTypes, RowTypes, Zenon
       DEF AssignFromBlock, TryNextBlock, SameBlocks, LocalsOK, Frame, OthersCopies
  <2>4. CASE \E o \in Ordinals : updateBlock(p, [obj[p] EXCEPT !.ips = @ \cup {o}]) /\ pc'[p] = "done" /\ op' = op
    <3>1. PICK o \in Ordinals : updateBlock(p, [obj[p] EXCEPT !.ips = @ \cup {o}])
      BY <2>4, Zenon
    <3>2. /\ [obj[p] EXCEPT !.ips = @ \cup {o}] \in BlockRows
          /\ [obj[p] EXCEPT !.ips = @ \cup {o}].aff = obj[p].aff
          /\ obj[p].ips \subseteq [obj[p] EXCEPT !.ips = @ \cup {o}].ips
      BY <2>1, Zenon DEF BlockRows
    <3>3. BlkWrite(p) /\ block'[blk[p]] = [obj[p] EXCEPT !.ips = @ \cup {o}] /\ block'[blk[p]] # NoBlock
      BY <2>1, <3>1, <3>2, WritesBlock DEF CopyLabels
    <3>4. Moves(p)
      BY <2>2, <2>3, <3>2, <3>3, WriteMoves, Zenon
    <3>5. Reliable(p)'
      BY <2>4, Zenon DEF Reliable, OpsInPlace, CopyIsRow, CopyChecked, ReclaimsFresh, ClaimPhase, CopyLabels, ReleaseLabels
    <3> QED
      BY <2>4, <3>4, <3>5, Zenon DEF Marks, Claims, ClaimLabels
  <2>5. CASE /\ SameBlocks \/ BlockConflict(p) \/ NoSuchBlock(p)
             /\ \/ pc'[p] \in {"requery", "borrowQuery", "borrow"} /\ op'[p] = op[p]
                \/ pc'[p] = "nextAffine" /\ op'[p] = "affine"
    <3>1. BlkSame(p)
      BY <2>5, ReadsSame, Zenon
    <3>2. Reliable(p)'
      BY <2>5, Zenon DEF Reliable, OpsInPlace, CopyIsRow, CopyChecked, ReclaimsFresh, ClaimPhase, DirectClaims, NoDirectClaims,
         CopyLabels, ReleaseLabels
    <3> QED
      BY <2>2, <2>3, <2>5, <3>1, <3>2, Zenon DEF Marks, Claims, ClaimLabels, Moves
  <2> QED
    BY <1>0, <1>3, <2>4, <2>5, Zenon DEF AssignFromBlock, TryNextBlock, SameBlocks, LocalsOK
<1>4. CASE AssignAddress(p)
  BY <1>4, Zenon DEF AssignAddress, Reliable, OpsInPlace, DirectClaims, NoDirectClaims
<1>5. CASE RelBlock(p)
  <2>1. /\ pc[p] = "relBlock" /\ obj[p] \in BlockRows
        /\ op'[p] = op[p] /\ host'[p] = host[p] /\ owner'[p] = owner[p] /\ blk'[p] = blk[p]
        /\ pc'[p] \in {"relDropAff", "relQueryAff", "reclaim", "done"}
    BY <1>0, <1>5, Zenon DEF RelBlock, ReleaseConflict, ReleaseFailed, LocalsOK, CopyLabels
  <2>2. AffSame(p)
    BY <1>5, NoAffinityCall, Zenon DEF RelBlock
  <2>3. Frame(p)
    BY <1>0, <1>5, <2>1, BlockWriteTypes, BlockDeleteTypes, BlockMissTypes, RowTypes, Zenon
       DEF RelBlock, ReleaseConflict, ReleaseFailed, LocalsOK, Frame, OthersCopies
  <2>4. Marks(p) /\ Claims(p)
    BY <2>1, Zenon DEF Marks, Claims, ClaimLabels
  <2>5. CASE obj[p].ips = {} /\ deleteBlock(p)
    <3>1. BlkWrite(p)
      BY <2>1, <2>5, DeletesBlock, Zenon DEF CopyLabels
    <3>2. Moves(p)
      BY <2>1, <2>2, <2>3, <2>5, <3>1, WriteMoves, Zenon
    <3>3. Reliable(p)'
      BY <1>0, <2>1, <3>1, Zenon DEF Reliable, OpsInPlace, CopyIsRow, CopyChecked, ReclaimsFresh, ClaimPhase, CopyLabels,
         BlkWrite
    <3> QED
      BY <2>4, <3>2, <3>3, Zenon
  <2>6. CASE updateBlock(p, [obj[p] EXCEPT !.aff = NoHost])
    <3>1. /\ [obj[p] EXCEPT !.aff = NoHost] \in BlockRows
          /\ [obj[p] EXCEPT !.aff = NoHost].ips = obj[p].ips
      BY <2>1, Zenon DEF BlockRows
    <3>2. BlkWrite(p) /\ block'[blk[p]] = [obj[p] EXCEPT !.aff = NoHost] /\ block'[blk[p]] # NoBlock
      BY <2>1, <2>6, <3>1, WritesBlock, Zenon DEF CopyLabels
    <3>3. Moves(p)
      BY <2>1, <2>2, <2>3, <3>1, <3>2, WriteMoves, Zenon
    <3>4. Reliable(p)'
      BY <1>0, <2>1, <3>2, Zenon DEF Reliable, OpsInPlace, CopyIsRow, CopyChecked, ReclaimsFresh, ClaimPhase, CopyLabels,
         BlkWrite
    <3> QED
      BY <2>4, <3>3, <3>4, Zenon
  <2>7. CASE BlockConflict(p) \/ NoSuchBlock(p)
    <3>1. BlkSame(p) /\ blkCur' = blkCur /\ listed' = listed /\ aged' = aged
      BY <2>7, ReadsSame, Zenon DEF BlockConflict, NoSuchBlock, Blk!UpdateConflict, Blk!DoesNotExist, Blk!storeVars
    <3>2. Reliable(p)'
      BY <2>1, <3>1, Zenon DEF Reliable, OpsInPlace, CopyIsRow, CopyChecked, ReclaimsFresh, ClaimPhase, CopyLabels,
         ReleaseLabels
    <3> QED
      BY <2>2, <2>3, <2>4, <3>1, <3>2, Zenon DEF Moves
  <2> QED
    BY <1>5, <2>5, <2>6, <2>7, Zenon DEF RelBlock
<1>6. CASE ReleaseUpdate(p)
  <2> DEFINE b == [obj[p] EXCEPT !.ips = @ \ {ord[p]}]
  <2>1. /\ pc[p] = "releaseUpdate" /\ obj[p] \in BlockRows
        /\ op'[p] = op[p] /\ host'[p] = host[p] /\ blk'[p] = blk[p]
        /\ pc'[p] \in {"done", "relQueryAff", "releaseQuery"}
    BY <1>0, <1>6, Zenon DEF ReleaseUpdate, EnsureConsistentAffinity, LocalsOK, CopyLabels
  <2>2. AffSame(p)
    BY <1>6, NoAffinityCall, Zenon DEF ReleaseUpdate
  <2>3. /\ b \in BlockRows /\ b.aff = obj[p].aff
        /\ \A o \in obj[p].ips : o \in b.ips \/ o = ord[p]
    BY <2>1, Zenon DEF BlockRows
  <2>4. Frame(p)
    BY <1>0, <1>6, <2>3, BlockWriteTypes, BlockDeleteTypes, BlockMissTypes, Zenon
       DEF ReleaseUpdate, EnsureConsistentAffinity, LocalsOK, Frame, OthersCopies
  <2>5. Marks(p) /\ Claims(p)
    BY <2>1, Zenon DEF Marks, Claims, ClaimLabels
  <2>6. OpsInPlace(p)' /\ CopyIsRow(p)' /\ CopyChecked(p)'
    BY <2>1, Zenon DEF Reliable, OpsInPlace, CopyIsRow, CopyChecked, ClaimPhase, CopyLabels
  <2>7. CASE b.ips = {} /\ b.aff = NoHost /\ deleteBlock(p)
    <3>1. BlkWrite(p)
      BY <2>1, <2>7, DeletesBlock, Zenon DEF CopyLabels
    <3>2. Moves(p)
      BY <2>1, <2>2, <2>3, <2>4, <2>7, <3>1, WriteMoves, Zenon
    <3>3. ReclaimsFresh(p)'
      BY <2>1, <3>1, Zenon DEF ReclaimsFresh, BlkWrite
    <3> QED
      BY <2>5, <2>6, <3>2, <3>3, Zenon DEF Reliable
  <2>8. CASE updateBlock(p, b)
    <3>1. BlkWrite(p) /\ block'[blk[p]] = b /\ block'[blk[p]] # NoBlock
      BY <2>1, <2>3, <2>8, WritesBlock, Zenon DEF CopyLabels
    <3>2. Moves(p)
      BY <2>1, <2>2, <2>3, <2>4, <3>1, WriteMoves, Zenon
    <3>3. ReclaimsFresh(p)'
      BY <2>1, <3>1, Zenon DEF ReclaimsFresh, BlkWrite
    <3> QED
      BY <2>5, <2>6, <3>2, <3>3, Zenon DEF Reliable
  <2>9. CASE (BlockConflict(p) /\ Goto(p, "releaseQuery")) \/ (NoSuchBlock(p) /\ Goto(p, "done"))
    <3>1. BlkSame(p) /\ pc'[p] # "relQueryAff"
      BY <1>0, <2>9, ReadsSame, Zenon DEF LocalsOK
    <3>2. ReclaimsFresh(p)'
      BY <2>1, <3>1, Zenon DEF ReclaimsFresh, ReleaseLabels
    <3> QED
      BY <2>2, <2>4, <2>5, <2>6, <3>1, <3>2, Zenon DEF Moves, Reliable
  <2> QED
    BY <1>6, <2>7, <2>8, <2>9, Zenon DEF ReleaseUpdate
<1> QED
  BY <1>1, <1>2, <1>3, <1>4, <1>5, <1>6, Zenon

(* Starting an operation, ending one and dying change no row.              *)
LEMMA ReturnSteps ==
  ASSUME TypeOK, NEW p \in Procs, Return(p)
  PROVE  Moves(p) /\ Marks(p) /\ Claims(p) /\ Reliable(p)'
<1>1. pc'[p] = "idle" /\ op'[p] = "none"
  BY Zenon DEF TypeOK, LocalsOK, Return, Goto
<1>2. Frame(p)
  BY Zenon DEF TypeOK, LocalsOK, BlocksOK, Return, Goto, Frame
<1>3. BlkSame(p)
  BY Zenon DEF TypeOK, BlocksOK, Blk!StoreTypeOK, Return, Blk!Forget, BlkSame
<1>4. AffSame(p)
  BY Zenon DEF TypeOK, Aff!StoreTypeOK, Return, Aff!Forget, AffSame
<1>5. Reliable(p)'
  BY <1>1, Zenon DEF Reliable, OpsInPlace, CopyIsRow, CopyChecked, ReclaimsFresh, ClaimPhase, DirectClaims, NoDirectClaims, CopyLabels
<1> QED
  BY <1>1, <1>2, <1>3, <1>4, <1>5, Zenon DEF Moves, Marks, Claims, ClaimLabels

(* The start of an operation changes no row.                               *)
LEMMA BeginSteps ==
  ASSUME TypeOK, NEW p \in Procs, Begin(p), NoDirectClaims
  PROVE  Moves(p) /\ Marks(p) /\ Claims(p) /\ Reliable(p)'
<1> USE DEF At, Goto, storeVars
<1>1. /\ UNCHANGED <<block, blkCur, affinity, affCur, aged, listed, obj>>
      /\ \/ pc'[p] = "nextAffine" /\ op'[p] = "affine"
         \/ pc'[p] = "relQueryAff" /\ op'[p] \in {"ReleaseAffinity", "ReleaseEmpty"}
         \/ pc'[p] = "releaseQuery" /\ op'[p] = "ReleaseIPs"
  BY Zenon DEF Begin, BeginAutoAssign, BeginAssignIP, BeginClaimAffinity, BeginReleaseAffinity, BeginReleaseIPs,
     TypeOK, LocalsOK, DirectClaims, NoDirectClaims
<1>2. Frame(p)
  <2>1. CASE \E h \in Hosts : BeginAutoAssign(p, h)
    BY <2>1, Zenon DEF BeginAutoAssign, TypeOK, LocalsOK, Frame
  <2>2. CASE \E h \in Hosts, b \in Blocks : BeginReleaseAffinity(p, h, b)
    BY <2>2, ZenonT(30) DEF BeginReleaseAffinity, TypeOK, LocalsOK, Frame
  <2>3. CASE \E b \in Blocks, o \in Ordinals : BeginReleaseIPs(p, b, o)
    BY <2>3 DEF BeginReleaseIPs, TypeOK, LocalsOK, Frame
  <2> QED
    BY <2>1, <2>2, <2>3, Zenon DEF Begin, BeginAssignIP, BeginClaimAffinity, DirectClaims, NoDirectClaims
<1>3. BlkSame(p) /\ AffSame(p)
  BY <1>1, Zenon DEF BlkSame, AffSame
<1>4. Reliable(p)'
  BY <1>1, Zenon DEF Reliable, OpsInPlace, CopyIsRow, CopyChecked, ReclaimsFresh, ClaimPhase, DirectClaims, NoDirectClaims, CopyLabels
<1> QED
  BY <1>1, <1>2, <1>3, <1>4, Zenon DEF Moves, Marks, Claims, ClaimLabels

(* Every step of a process, summed up.                                     *)
LEMMA ProcessSteps ==
  ASSUME TypeOK, NEW p \in Procs, Reliable(p), NoDirectClaims, Begin(p) \/ Step(p) \/ Crash(p)
  PROVE  Moves(p) /\ Marks(p) /\ Claims(p) /\ Reliable(p)'
  BY BeginSteps, ReturnSteps, SearchSteps, ReadSteps, ReleaseReadSteps, PendSteps, ConfirmSteps, MarkSteps, BlockSteps, Zenon
     DEF Step, SearchStep, ReadStep, ReleaseReadStep, PendStep, ConfirmStep, MarkStep, Crash, Done

-----------------------------------------------------------------------------
(* A copy that survives a write by compare-and-swap is not of that block.  *)
LEMMA OthersReliable ==
  ASSUME ProtocolInv, NEW p \in Procs, NEW q \in Procs \ {p}, Moves(p)
  PROVE  Reliable(q)'
<1>1. /\ pc'[q] = pc[q] /\ op'[q] = op[q] /\ host'[q] = host[q] /\ owner'[q] = owner[q]
      /\ blk'[q] = blk[q] /\ obj'[q] = obj[q] /\ blk[q] \in Blocks
  BY Zenon DEF Moves, Frame, ProtocolInv, TypeOK, LocalsOK
<1>2. \/ /\ block'[blk[q]] = block[blk[q]] /\ aged'[blk[q]] = aged[blk[q]]
         /\ q \in blkCur'[blk[q]] <=> q \in blkCur[blk[q]]
         /\ q \in listed'[blk[q]] <=> q \in listed[blk[q]]
      \/ q \notin blkCur'[blk[q]] /\ q \notin listed'[blk[q]]
  <2>1. CASE BlkSame(p)
    BY <1>1, <2>1, Zenon DEF BlkSame
  <2>2. CASE BlkWrite(p)
    BY <1>1, <2>2, Zenon DEF BlkWrite
  <2> QED
    BY <2>1, <2>2, Zenon DEF Moves
<1>3. Reliable(q)
  BY Zenon DEF ProtocolInv
<1> QED
  BY <1>1, <1>2, <1>3, ZenonT(30) DEF Reliable, OpsInPlace, CopyIsRow, CopyChecked, ReclaimsFresh

(* No step leaves anybody with a current copy, or a listing, of a row that *)
(* is not there.                                                           *)
LEMMA StillAbsentUnheld ==
  ASSUME ProtocolInv, NEW p \in Procs, Moves(p)
  PROVE  AbsentUnheld'
<1>0. AbsentUnheld
  BY Zenon DEF ProtocolInv
<1>1. \A b \in Blocks : block'[b] = NoBlock => blkCur'[b] = {} /\ listed'[b] = {}
  <2>1. CASE BlkSame(p)
    BY <1>0, <2>1, Zenon DEF BlkSame, AbsentUnheld
  <2>2. CASE BlkWrite(p)
    BY <1>0, <2>2, Zenon DEF BlkWrite, AbsentUnheld
  <2> QED
    BY <2>1, <2>2, Zenon DEF Moves
<1>2. \A k \in Hosts \X Blocks : affinity'[k] = NoAff => affCur'[k] = {}
  <2>1. CASE AffSame(p)
    BY <1>0, <2>1, Zenon DEF AffSame, AbsentUnheld
  <2>2. CASE \E k \in Hosts \X Blocks : AffWrite(p, k)
    BY <1>0, <2>2 DEF AffWrite, AbsentUnheld
  <2> QED
    BY <2>1, <2>2, Zenon DEF Moves
<1> QED
  BY <1>1, <1>2, Zenon DEF AbsentUnheld

(* A write of a block that h has confirmed, or is about to, leaves it with *)
(* h: the writer holds the row itself, so if it gives the block up it does *)
(* so for h, and then h's affinity is marked.                              *)
LEMMA WriteKeepsOwner ==
  ASSUME ProtocolInv, NEW p \in Procs, NEW h \in Hosts, BlkWrite(p), Keeps(p),
         block[blk[p]] # NoBlock, block[blk[p]].aff = h, ~CanDisown(p, h, blk[p])
  PROVE  block'[blk[p]] # NoBlock /\ block'[blk[p]].aff = h
<1>1. p \in blkCur[blk[p]] /\ pc[p] \in CopyLabels
  BY Zenon DEF BlkWrite
<1>2. Reliable(p) /\ h # NoHost
  BY ConstantsAssumption, Zenon DEF ProtocolInv
<1>3. obj[p] = block[blk[p]]
  BY <1>1, <1>2, Zenon DEF Reliable, CopyIsRow
<1>4. pc[p] # "relBlock"
  BY <1>1, <1>2, <1>3, Zenon DEF Reliable, CopyChecked, CanDisown
<1> QED
  BY <1>2, <1>3, <1>4, Zenon DEF Keeps

(* No step parts a confirmed affinity from its block: the block is         *)
(* disowned only after the affinity was marked, and an affinity is         *)
(* confirmed only by a claimer whose copies nobody has outdated.           *)
LEMMA StillConfirmedOwned ==
  ASSUME ProtocolInv, NEW p \in Procs, Moves(p)
  PROVE  ConfirmedOwned'
<1> SUFFICES ASSUME NEW h \in Hosts, NEW b \in Blocks, affinity'[<<h, b>>] = "confirmed"
             PROVE  block'[b] # NoBlock /\ block'[b].aff = h
  BY Zenon DEF ConfirmedOwned
<1>0. ConfirmedOwned /\ ClaimsUndisturbed /\ ReleasesMarked
  BY Zenon DEF ProtocolInv
<1>1. CASE AffSame(p)
  <2>1. affinity[<<h, b>>] = "confirmed" /\ block[b] # NoBlock /\ block[b].aff = h
    BY <1>0, <1>1, Zenon DEF AffSame, ConfirmedOwned
  <2>2. CASE BlkSame(p)
    BY <2>1, <2>2, Zenon DEF BlkSame
  <2>3. CASE BlkWrite(p) /\ Keeps(p) /\ b = blk[p]
    <3>1. ~CanDisown(p, h, blk[p])
      BY <1>0, <2>1, <2>3, Zenon DEF ReleasesMarked
    <3> QED
      BY <2>1, <2>3, <3>1, WriteKeepsOwner, Zenon
  <2>4. CASE BlkWrite(p) /\ b # blk[p]
    BY <2>1, <2>4, Zenon DEF BlkWrite
  <2> QED
    BY <2>2, <2>3, <2>4, Zenon DEF Moves
<1>2. CASE BlkSame(p) /\ \E k \in Hosts \X Blocks : AffWrite(p, k)
  <2>1. PICK k \in Hosts \X Blocks : AffWrite(p, k)
    BY <1>2, Zenon
  <2>2. CASE k = <<h, b>>
    <3>1. pc[p] \in {"confirm", "gbConfirm"} /\ <<h, b>> = OwnRow(p) /\ p \in affCur[OwnRow(p)]
      BY <2>1, <2>2, Zenon DEF AffWrite
    <3>2. block[blk[p]] # NoBlock /\ block[blk[p]].aff = host[p]
      BY <1>0, <3>1, Zenon DEF ClaimsUndisturbed, ClaimLabels
    <3> QED
      BY <1>2, <3>1, <3>2, Zenon DEF BlkSame, OwnRow
  <2>3. CASE k # <<h, b>>
    <3>1. affinity[<<h, b>>] = "confirmed"
      BY <2>1, <2>3, Zenon DEF AffWrite
    <3> QED
      BY <1>0, <1>2, <3>1 DEF BlkSame, ConfirmedOwned
  <2> QED
    BY <2>2, <2>3, Zenon
<1> QED
  BY <1>1, <1>2, Zenon DEF Moves

(* A process other than p that can disown a block after p's step could do  *)
(* so before.                                                              *)
LEMMA CouldDisown ==
  ASSUME ProtocolInv, NEW p \in Procs, Moves(p), NEW q \in Procs \ {p}, NEW h \in Hosts, NEW b \in Blocks,
         CanDisown(q, h, b)'
  PROVE  CanDisown(q, h, b)
<1>1. pc[q] = "relBlock" /\ owner[q] = h /\ blk[q] = b /\ q \in blkCur'[b]
  BY Zenon DEF CanDisown, Moves, Frame
<1>2. CASE BlkSame(p)
  BY <1>1, <1>2, Zenon DEF BlkSame, CanDisown
<1>3. CASE BlkWrite(p)
  BY <1>1, <1>3, Zenon DEF BlkWrite, CanDisown
<1> QED
  BY <1>2, <1>3, Zenon DEF Moves

(* A process that can disown a block in its next write still finds the     *)
(* affinity unconfirmed: it marked it itself, and a confirmation would     *)
(* need a current copy of the affinity taken before the mark.              *)
LEMMA StillReleasesMarked ==
  ASSUME ProtocolInv, NEW p \in Procs, Moves(p), Marks(p)
  PROVE  ReleasesMarked'
<1> SUFFICES ASSUME NEW q \in Procs, NEW h \in Hosts, NEW b \in Blocks, CanDisown(q, h, b)'
             PROVE  affinity'[<<h, b>>] # "confirmed"
  BY Zenon DEF ReleasesMarked
<1>0. ClaimsUndisturbed /\ ReleasesMarked
  BY Zenon DEF ProtocolInv
<1>1. CASE q = p
  <2>1. pc[p] = "relMark" /\ AffWrite(p, <<h, b>>)
    BY <1>1, Zenon DEF CanDisown, Marks, RelRow
  <2> QED
    BY <2>1, Zenon DEF AffWrite
<1>2. CASE q # p
  <2>1. CanDisown(q, h, b)
    BY <1>2, CouldDisown, Zenon
  <2>2. affinity[<<h, b>>] # "confirmed"
    BY <1>0, <2>1, Zenon DEF ReleasesMarked
  <2>3. CASE AffSame(p)
    BY <2>2, <2>3, Zenon DEF AffSame
  <2>4. ASSUME NEW k \in Hosts \X Blocks, AffWrite(p, k), affinity'[<<h, b>>] = "confirmed" PROVE FALSE
    <3>1. k = <<h, b>>
      BY <2>2, <2>4, Zenon DEF AffWrite
    <3>2. pc[p] \in {"confirm", "gbConfirm"} /\ <<h, b>> = OwnRow(p) /\ p \in affCur[OwnRow(p)]
      BY <2>4, <3>1, Zenon DEF AffWrite
    <3>3. ~CanDisown(q, host[p], blk[p])
      BY <1>0, <3>2, Zenon DEF ClaimsUndisturbed, ClaimLabels
    <3> QED
      BY <2>1, <3>2, <3>3, Zenon DEF OwnRow
  <2> QED
    BY <2>3, <2>4, Zenon DEF Moves
<1> QED
  BY <1>1, <1>2, Zenon

(* A claimer that can still confirm knows that no releaser can disown the  *)
(* block under it.                                                         *)
LEMMA StillClaimsUndisturbed ==
  ASSUME ProtocolInv, TypeOK', NEW p \in Procs, Moves(p), Marks(p), Claims(p)
  PROVE  ClaimsUndisturbed'
<1>s. SUFFICES ASSUME NEW c \in Procs, NEW h \in Hosts, NEW b \in Blocks, h = host'[c], b = blk'[c],
                      pc'[c] \in ClaimLabels, c \in affCur'[<<h, b>>]
               PROVE  /\ \A q \in Procs : ~CanDisown(q, h, b)'
                      /\ pc'[c] \in {"confirm", "gbConfirm"} => block'[b] # NoBlock /\ block'[b].aff = h
  <2>1. \A c \in Procs : pc'[c] \in ClaimLabels => host'[c] \in Hosts /\ blk'[c] \in Blocks
    BY Zenon DEF TypeOK, LocalsOK, InHand, HostlessLabels, ReleaseLabels, ClaimLabels
  <2> QED
    BY <2>1 DEF ClaimsUndisturbed, CanDisown, OwnRow
<1>0. ClaimsUndisturbed /\ AbsentUnheld /\ TypeOK
  BY Zenon DEF ProtocolInv
<1>1. CASE c # p
  <2>0. Frame(p)
    BY Zenon DEF Moves
  <2>1. pc[c] \in ClaimLabels /\ host[c] = h /\ blk[c] = b /\ pc'[c] = pc[c] /\ OwnRow(c) = <<h, b>>
    BY ONLY <2>0, <1>s, <1>1, c \in Procs, Zenon DEF Frame, OwnRow
  <2>2. c \in affCur[<<h, b>>] /\ ~AffWrite(p, <<h, b>>)
    BY <1>s, <1>1 DEF Moves, AffSame, AffWrite
  <2>3. /\ \A q \in Procs : ~CanDisown(q, h, b)
        /\ pc[c] \in {"confirm", "gbConfirm"} => block[b] # NoBlock /\ block[b].aff = h
    BY <1>0, <2>1, <2>2, Zenon DEF ClaimsUndisturbed
  <2>4. ASSUME NEW q \in Procs, CanDisown(q, h, b)' PROVE FALSE
    <3>1. CASE q # p
      BY <2>3, <2>4, <3>1, CouldDisown, Zenon
    <3>2. CASE q = p
      BY <2>2, <2>4, <3>2, Zenon DEF CanDisown, Marks, RelRow
    <3> QED
      BY <3>1, <3>2, Zenon
  <2>5. ASSUME pc[c] \in {"confirm", "gbConfirm"} PROVE block'[b] # NoBlock /\ block'[b].aff = h
    <3>1. CASE BlkSame(p)
      BY <2>3, <2>5, <3>1, Zenon DEF BlkSame
    <3>2. CASE BlkWrite(p) /\ Keeps(p) /\ b = blk[p]
      BY <2>3, <2>5, <3>2, WriteKeepsOwner, Zenon
    <3>3. CASE BlkWrite(p) /\ b # blk[p]
      BY <2>3, <2>5, <3>3, Zenon DEF BlkWrite
    <3> QED
      BY <3>1, <3>2, <3>3, Zenon DEF Moves
  <2> QED
    BY <2>1, <2>4, <2>5, Zenon
<1>2. CASE c = p
  <2>1. host[p] = h /\ blk[p] = b /\ OwnRow(p) = <<h, b>>
    BY <1>s, <1>2, Zenon DEF Claims, OwnRow
  <2>2. ASSUME NEW q \in Procs, CanDisown(q, h, b)'
        PROVE  q # p /\ CanDisown(q, h, b) /\ q \in blkCur'[b] /\ q \in blkCur[b]
    <3>1. q # p
      BY <1>s, <1>2, <2>2, Zenon DEF CanDisown, ClaimLabels
    <3> QED
      BY <2>2, <3>1, CouldDisown, Zenon DEF CanDisown
  <2>3. CASE pc'[p] = "gbPend" /\ block[b] = NoBlock
    BY <1>0, <1>2, <2>2, <2>3, Zenon DEF AbsentUnheld
  <2>4. CASE pc'[p] = "createBlock" /\ pc[p] = "gbPend" /\ p \in affCur[<<h, b>>]
    BY <1>0, <1>2, <2>1, <2>2, <2>4, Zenon DEF ClaimsUndisturbed, ClaimLabels
  <2>5. CASE pc'[p] = "readWinner" /\ pc[p] = "createBlock" /\ affCur' = affCur
    BY <1>s, <1>0, <1>2, <2>1, <2>2, <2>5, Zenon DEF ClaimsUndisturbed, ClaimLabels
  <2>6. CASE pc'[p] = "confirm" /\ BlkSame(p) /\ pc[p] = "readWinner" /\ affCur' = affCur
             /\ block[b] # NoBlock /\ block[b].aff = h
    <3>1. \A q \in Procs : ~CanDisown(q, h, b)
      BY <1>s, <1>0, <1>2, <2>1, <2>6, Zenon DEF ClaimsUndisturbed, ClaimLabels
    <3>2. block'[b] = block[b]
      BY <2>6, Zenon DEF BlkSame
    <3> QED
      BY <2>2, <2>6, <3>1, <3>2, Zenon
  <2>7. CASE BlkWrite(p) /\ block'[b] # NoBlock /\ block'[b].aff = h
    BY <1>2, <2>1, <2>2, <2>7, Zenon DEF BlkWrite
  <2> QED
    BY <1>s, <1>2, <2>1, <2>3, <2>4, <2>5, <2>6, <2>7, Zenon DEF Claims
<1> QED
  BY <1>1, <1>2, Zenon

-----------------------------------------------------------------------------
(* The invariant holds of the empty datastore with every process idle.     *)
LEMMA InitProtocol == Init => ProtocolInv
<1> SUFFICES ASSUME Init PROVE ProtocolInv
  BY Zenon
<1>1. TypeOK
  BY InitTypes, Zenon
<1>2. AbsentUnheld
  BY Zenon DEF Init, Blk!StoreInit, Aff!StoreInit, AbsentUnheld
<1>3. \A p \in Procs : pc[p] = "idle" /\ op[p] = "none"
  BY Zenon DEF Init
<1>4. \A p \in Procs : Reliable(p)
  BY <1>3, Zenon DEF Reliable, OpsInPlace, CopyIsRow, CopyChecked, ReclaimsFresh, ClaimPhase, DirectClaims, NoDirectClaims, CopyLabels
<1>5. ReleasesMarked /\ ClaimsUndisturbed
  BY <1>3, Zenon DEF ReleasesMarked, ClaimsUndisturbed, CanDisown, ClaimLabels
<1>6. NoAff # "confirmed"
  BY RowsAssumption, Zenon DEF AffStates
<1>7. ConfirmedOwned
  BY <1>6, Zenon DEF Init, Aff!StoreInit, ConfirmedOwned
<1> QED
  BY <1>1, <1>2, <1>4, <1>5, <1>7, Zenon DEF ProtocolInv

(* A block's ageing only makes it more reclaimable.                        *)
LEMMA AgeingProtocol ==
  ASSUME ProtocolInv, NEW b \in Blocks, AgeBlock(b)
  PROVE  ProtocolInv'
<1>1. /\ UNCHANGED <<block, blkCur, affinity, affCur, listed, pc, op, host, owner, blk, obj>>
      /\ \A c \in Blocks : aged[c] => aged'[c]
  BY Zenon DEF AgeBlock, args, ProtocolInv, TypeOK, BlocksOK
<1>2. TypeOK'
  BY NextTypes, Zenon DEF ProtocolInv, Next
<1>3. AbsentUnheld' /\ ConfirmedOwned'
  BY <1>1, Zenon DEF ProtocolInv, AbsentUnheld, ConfirmedOwned
<1>5. ReleasesMarked' /\ ClaimsUndisturbed'
  BY <1>1, Zenon DEF ProtocolInv, ReleasesMarked, ClaimsUndisturbed, CanDisown, OwnRow
<1>4. ASSUME NEW p \in Procs PROVE Reliable(p)'
  <2>1. Reliable(p) /\ blk[p] \in Blocks
    BY Zenon DEF ProtocolInv, TypeOK, LocalsOK
  <2> QED
    BY <1>1, <2>1, Zenon DEF Reliable, OpsInPlace, CopyIsRow, CopyChecked, ReclaimsFresh
<1> QED
  BY <1>2, <1>3, <1>4, <1>5, Zenon DEF ProtocolInv

(* Every step, every crash and every listing keeps the invariant, as long  *)
(* as no administrator claims blocks directly.                             *)
LEMMA NextProtocol ==
  ASSUME NoDirectClaims
  PROVE  ProtocolInv /\ [Next]_vars => ProtocolInv'
<1> SUFFICES ASSUME ProtocolInv, [Next]_vars PROVE ProtocolInv'
  BY Zenon
<1>0. TypeOK /\ \A p \in Procs : Reliable(p)
  BY Zenon DEF ProtocolInv
<1>1. TypeOK'
  BY <1>0, NextTypes, Zenon
<1>2. ASSUME NEW p \in Procs, Begin(p) \/ Step(p) \/ Crash(p) PROVE ProtocolInv'
  <2>1. Moves(p) /\ Marks(p) /\ Claims(p) /\ Reliable(p)'
    BY <1>0, <1>2, ProcessSteps, Zenon
  <2>2. ASSUME NEW q \in Procs PROVE Reliable(q)'
    BY <2>1, OthersReliable, Zenon
  <2> QED
    BY <1>1, <2>1, <2>2, StillAbsentUnheld, StillReleasesMarked, StillClaimsUndisturbed, StillConfirmedOwned, Zenon
       DEF ProtocolInv
<1>3. ASSUME NEW b \in Blocks, AgeBlock(b) PROVE ProtocolInv'
  BY <1>3, AgeingProtocol, Zenon
<1>4. CASE UNCHANGED vars
  <2>1. UNCHANGED <<block, blkCur, affinity, affCur, aged, listed, pc, op, host, owner, blk, obj>>
    BY <1>4, Zenon DEF vars, storeVars, args
  <2>2. AbsentUnheld' /\ ReleasesMarked' /\ ClaimsUndisturbed' /\ ConfirmedOwned'
    BY <2>1, SMTT(30) DEF ProtocolInv, AbsentUnheld, ReleasesMarked, ClaimsUndisturbed, ConfirmedOwned, CanDisown, OwnRow
  <2>3. ASSUME NEW p \in Procs PROVE Reliable(p)'
    BY <1>0, <2>1, Zenon DEF Reliable, OpsInPlace, CopyIsRow, CopyChecked, ReclaimsFresh
  <2> QED
    BY <1>1, <2>2, <2>3, Zenon DEF ProtocolInv
<1> QED
  BY <1>2, <1>3, <1>4, Zenon DEF Next

(* Whatever the numbers of hosts, blocks, addresses and processes, as long *)
(* as blocks are claimed only through getBlockFromAffinity (AutoAssign, no *)
(* AssignIP or ClaimAffinity), what every process has read and checked     *)
(* stays good until its next write goes through.                           *)
THEOREM ProtocolCorrect ==
  ASSUME NoDirectClaims
  PROVE  Spec => []ProtocolInv
<1>1. ProtocolInv /\ [Next]_vars => ProtocolInv'
  BY NextProtocol, Zenon
<1> QED
  BY <1>1, InitProtocol, PTL DEF Spec

(* Then a confirmed affinity always has its block: the host may advertise  *)
(* the block's route, however claims, releases, reclaims and crashes       *)
(* interleave.                                                             *)
THEOREM ConfirmedAffinityIsTrue ==
  ASSUME NoDirectClaims
  PROVE  Spec => []ConfirmedOwned
<1>1. ProtocolInv => ConfirmedOwned
  BY Zenon DEF ProtocolInv
<1> QED
  BY <1>1, ProtocolCorrect, PTL

(* A reclaim takes a block only as it was when it was listed: empty, old   *)
(* enough and with the sequence number of the list.                        *)
THEOREM NothingElseReclaimed ==
  ASSUME NoDirectClaims
  PROVE  Spec => ReclaimsWhatItListed
<1> DEFINE Fresh ==
      \A p \in Procs :
        pc[p] = "relBlock" /\ op[p] = "reclaim" /\ block'[blk[p]] # block[blk[p]] /\ pc'[p] # pc[p]
          => p \in listed[blk[p]] /\ block[blk[p]].ips = {} /\ aged[blk[p]]
<1>1. ASSUME ProtocolInv, [Next]_vars PROVE [Fresh]_vars
  <2> SUFFICES ASSUME NEW p \in Procs, pc[p] = "relBlock", op[p] = "reclaim",
                      block'[blk[p]] # block[blk[p]], pc'[p] # pc[p]
               PROVE  p \in listed[blk[p]] /\ block[blk[p]].ips = {} /\ aged[blk[p]]
    BY Zenon
  <2>1. PICK q \in Procs : Begin(q) \/ Step(q) \/ Crash(q)
    BY <1>1, Zenon DEF Next, AgeBlock, vars, storeVars
  <2>2. Reliable(q) /\ Moves(q) /\ blk[p] \in Blocks
    BY <1>1, <2>1, ProcessSteps, Zenon DEF ProtocolInv, TypeOK, LocalsOK
  <2>3. q = p
    BY <2>2, Zenon DEF Moves, Frame
  <2>4. BlkWrite(p)
    BY <2>2, <2>3, Zenon DEF Moves, BlkSame
  <2>5. p \in blkCur[blk[p]]
    BY <2>4, Zenon DEF BlkWrite
  <2> QED
    BY <2>2, <2>3, <2>5, Zenon DEF Reliable, CopyIsRow, CopyChecked, ReclaimsFresh, CopyLabels, ReleaseLabels
<1> QED
  BY <1>1, ProtocolCorrect, PTL DEF Spec, ReclaimsWhatItListed

-----------------------------------------------------------------------------
(* What a step of p does with its copy of a block, whichever operation it  *)
(* is in: it keeps it, reads it afresh, writes or deletes the row through  *)
(* it, or forgets it.                                                      *)

CopyKept(p) ==
  /\ UNCHANGED <<block, blkCur, obj>>
  /\ pc'[p] \in CopyLabels => pc[p] \in CopyLabels /\ blk'[p] = blk[p]

CopyRead(p) == queryBlock(p) /\ blk' = blk

(* The addresses of the copy go into the row, but for the one ReleaseIPs   *)
(* names.                                                                  *)
MayDrop(p, ips) ==
  \/ obj[p].ips \subseteq ips
  \/ pc[p] = "releaseUpdate" /\ pc'[p] # pc[p] /\ obj[p].ips \subseteq ips \cup {ord[p]}

CopyWritten(p) ==
  /\ blk' = blk
  /\ \/ pc[p] = "createBlock" /\ \E v \in BlockRows : createBlock(p, v)
     \/ pc[p] \in CopyLabels /\ \E v \in BlockRows : updateBlock(p, v) /\ MayDrop(p, v.ips)

CopyDeleted(p) ==
  /\ blk' = blk /\ deleteBlock(p) /\ MayDrop(p, {})
  /\ pc[p] \in CopyLabels /\ pc'[p] \notin CopyLabels

Apart(p) == \A q \in Procs \ {p} : pc'[q] = pc[q] /\ blk'[q] = blk[q]

CopyStep(p) == CopyKept(p) \/ CopyRead(p) \/ CopyWritten(p) \/ CopyDeleted(p) \/ Return(p)

(* The searches and the calls on affinities keep the copy.                 *)
LEMMA SearchCopies ==
  ASSUME TypeOK, NEW p \in Procs,
         \/ NextAffine(p) \/ RetryAffine(p) \/ FindFree(p) \/ FindReclaimable(p)
         \/ ReclaimNext(p) \/ NoFreeBlocks(p) \/ Borrow(p) \/ BorrowFailed(p) \/ Begin(p)
  PROVE  Apart(p) /\ CopyKept(p)
<1> USE DEF At, Goto, SameBlocks, args, storeVars
<1>0. LocalsOK
  BY Zenon DEF TypeOK
<1>1. CASE NextAffine(p) \/ RetryAffine(p)
  <2>1. PICK b \in Blocks : LookUpAffinity(p, b)
    BY <1>0, <1>1, Zenon DEF NextAffine, RetryAffine, LocalsOK
  <2>2. UNCHANGED <<block, blkCur, obj>> /\ pc'[p] \in {"gbQueryConfirmed", "gbQueryBlock", "nextAffine"}
    BY <1>0, <2>1, Zenon DEF LookUpAffinity, queryAffinity, NoSuchAffinity, LoadBlock, LocalsOK
  <2>3. Apart(p)
    BY <1>0, <2>1, Zenon DEF LookUpAffinity, queryAffinity, NoSuchAffinity, LoadBlock, LocalsOK, Apart
  <2> QED
    BY <2>2, <2>3, Zenon DEF CopyKept, CopyLabels
<1>2. CASE FindFree(p) \/ FindReclaimable(p)
  BY <1>0, <1>2, Zenon DEF FindFree, FindReclaimable, ListReclaimable, LocalsOK, Apart, CopyKept, CopyLabels
<1>3. CASE ReclaimNext(p) \/ NoFreeBlocks(p)
  BY <1>0, <1>3 DEF ReclaimNext, NoFreeBlocks, LocalsOK, Apart, CopyKept, CopyLabels
<1>4. CASE Borrow(p) \/ BorrowFailed(p)
  BY <1>0, <1>4, Zenon DEF Borrow, BorrowFailed, LocalsOK, Apart, CopyKept, CopyLabels
<1>5. CASE Begin(p)
  <2>1. /\ pc[p] = "idle" /\ UNCHANGED <<block, blkCur, obj>>
        /\ \E l \in {"nextAffine", "assignQueryBlock", "createAffinity", "relQueryAff", "releaseQuery"} :
             pc' = [pc EXCEPT ![p] = l]
        /\ blk' = blk \/ \E b \in Blocks : blk' = [blk EXCEPT ![p] = b]
    BY <1>5, Zenon DEF Begin, BeginAutoAssign, BeginAssignIP, BeginClaimAffinity, BeginReleaseAffinity,
       BeginReleaseIPs
  <2>2. Apart(p)
    BY <1>0, <2>1, Zenon DEF LocalsOK, Apart
  <2> QED BY <1>0, <2>1, <2>2, Zenon DEF LocalsOK, CopyKept, CopyLabels
<1> QED
  BY <1>1, <1>2, <1>3, <1>4, <1>5, Zenon

(* A step that goes on to l without a call on the block.                   *)
LEMMA GoesOn ==
  ASSUME TypeOK, NEW p \in Procs, NEW l, Goto(p, l), blk' = blk
  PROVE  Apart(p) /\ pc'[p] = l /\ blk'[p] = blk[p]
  BY Zenon DEF TypeOK, LocalsOK, Goto, Apart

(* The calls on affinities keep the copy: they go on to a label that needs *)
(* one only from a label that has one.                                     *)
LEMMA AffinityCopies ==
  ASSUME TypeOK, NEW p \in Procs,
         \/ GbPend(p) \/ GbDropStale(p) \/ GbRepend(p) \/ GbConfirm(p)
         \/ CreatePendingAffinity(p) \/ ReadAffinity(p) \/ PendAffinity(p)
         \/ DropAffinity(p) \/ Confirm(p) \/ Recheck(p)
         \/ RelQueryAff(p) \/ RelDropStale(p) \/ RelMark(p) \/ RelDropAff(p)
  PROVE  Apart(p) /\ CopyKept(p)
<1> USE DEF At, SameBlocks, args, updateAffinity, deleteAffinity, AffinityConflict, NoSuchAffinity, queryAffinity
<1>1. UNCHANGED <<block, blkCur, obj, blk>>
  BY Zenon DEF GbPend, GbDropStale, GbRepend, GbConfirm, CreatePendingAffinity, ReadAffinity, PendAffinity, DropAffinity,
     Confirm, Recheck, RelQueryAff, RelDropStale, RelMark, RelDropAff, UpdateOwnAffinity
<1> HIDE DEF updateAffinity, deleteAffinity, AffinityConflict, NoSuchAffinity, queryAffinity
<1>2. PICK l : Goto(p, l) /\ (l \in CopyLabels => pc[p] \in CopyLabels)
  <2>1. CASE pc[p] \in CopyLabels
    <3>1. \E l : Goto(p, l)
      BY Zenon DEF GbPend, GbDropStale, GbRepend, GbConfirm, CreatePendingAffinity, ReadAffinity, PendAffinity, DropAffinity,
         Confirm, Recheck, RelQueryAff, RelDropStale, RelMark, RelDropAff, UpdateOwnAffinity, ReleaseFailed, ReleaseConflict
    <3> QED
      BY ONLY <2>1, <3>1, Zenon
  <2>2. CASE pc[p] \notin CopyLabels
    <3>1. CASE GbPend(p)
      BY ONLY <3>1 DEF GbPend, UpdateOwnAffinity, AfterConflict, AfterGone, CopyLabels
    <3>2. CASE PendAffinity(p)
      BY ONLY <3>2 DEF PendAffinity, UpdateOwnAffinity, AfterPending, LoadBlock, AfterConflict, AfterGone, CopyLabels
    <3>3. CASE CreatePendingAffinity(p)
      BY ONLY <3>3 DEF CreatePendingAffinity, AfterPending, LoadBlock, CopyLabels
    <3>4. CASE ReadAffinity(p)
      BY ONLY <3>4 DEF ReadAffinity, AfterPending, LoadBlock, CopyLabels
    <3>5. CASE DropAffinity(p)
      BY ONLY <3>5 DEF DropAffinity, AfterTaken, CopyLabels
    <3>6. CASE RelQueryAff(p)
      BY ONLY <3>6 DEF RelQueryAff, ReleaseFailed, CopyLabels
    <3>7. CASE RelDropAff(p)
      BY ONLY <3>7 DEF RelDropAff, ReleaseFailed, ReleaseConflict, CopyLabels
    <3> QED
      BY <2>2, <3>1, <3>2, <3>3, <3>4, <3>5, <3>6, <3>7, Zenon DEF GbDropStale, GbRepend, GbConfirm, Confirm, Recheck, RelDropStale, RelMark, CopyLabels
  <2> QED
    BY <2>1, <2>2, Zenon
<1>3. Apart(p) /\ pc'[p] = l /\ blk'[p] = blk[p]
  BY <1>1, <1>2, GoesOn, Zenon
<1> QED
  BY <1>1, <1>2, <1>3, Zenon DEF CopyKept

(* A query of the block makes the copy the row, or misses.                 *)
LEMMA QueryCopies ==
  ASSUME TypeOK, NEW p \in Procs,
         \/ GbQueryBlock(p) \/ ReadWinner(p) \/ Requery(p) \/ AssignQueryBlock(p)
         \/ RelQueryBlock(p) \/ ReleaseQuery(p)
  PROVE  Apart(p) /\ (CopyKept(p) \/ CopyRead(p))
<1> USE DEF At, args
<1>1. blk' = blk
  BY Zenon DEF GbQueryBlock, ReadWinner, Requery, AssignQueryBlock, RelQueryBlock, ReleaseQuery
<1>2. PICK l : Goto(p, l) /\ (queryBlock(p) \/ (NoSuchBlock(p) /\ l \notin CopyLabels))
  <2>1. CASE GbQueryBlock(p)
    BY ONLY <2>1 DEF GbQueryBlock, AfterGone, CopyLabels
  <2>2. CASE ReadWinner(p)
    BY ONLY <2>2 DEF ReadWinner, AfterGone, CopyLabels
  <2>3. CASE Requery(p)
    BY ONLY <2>3 DEF Requery, TryNextBlock, CopyLabels
  <2>4. CASE AssignQueryBlock(p)
    BY ONLY <2>4 DEF AssignQueryBlock, TryNextBlock, CopyLabels
  <2>5. CASE RelQueryBlock(p)
    BY ONLY <2>5 DEF RelQueryBlock, ReleaseFailed, CopyLabels
  <2>6. CASE ReleaseQuery(p)
    BY ONLY <2>6 DEF ReleaseQuery, ReleaseFailed, CopyLabels
  <2> QED
    BY <2>1, <2>2, <2>3, <2>4, <2>5, <2>6, Zenon
<1>3. Apart(p) /\ pc'[p] = l /\ blk'[p] = blk[p]
  BY <1>1, <1>2, GoesOn, Zenon
<1>4. NoSuchBlock(p) => UNCHANGED <<block, blkCur, obj>>
  BY Zenon DEF NoSuchBlock, Blk!DoesNotExist, Blk!storeVars
<1> QED
  BY <1>1, <1>2, <1>3, <1>4, Zenon DEF CopyKept, CopyRead

(* A write that fails leaves everything as it was, and the copy behind.    *)
LEMMA FailsToWrite ==
  ASSUME NEW p \in Procs, NoSuchBlock(p) \/ BlockConflict(p) \/ BlockExists(p), pc'[p] \notin CopyLabels
  PROVE  CopyKept(p)
  BY Zenon DEF NoSuchBlock, BlockConflict, BlockExists, Blk!DoesNotExist, Blk!UpdateConflict, Blk!AlreadyExists,
     Blk!storeVars, CopyKept

(* The steps that write a block.                                           *)
LEMMA WriteCopies ==
  ASSUME TypeOK, NEW p \in Procs,
         \/ GbRewrite(p) \/ CreateBlock(p) \/ AssignFromBlock(p) \/ AssignAddress(p)
         \/ RelBlock(p) \/ ReleaseUpdate(p)
  PROVE  Apart(p) /\ (CopyKept(p) \/ CopyWritten(p) \/ CopyDeleted(p))
<1> USE DEF At, args
<1>0. /\ pc \in [Procs -> Labels] /\ ord[p] \in Ordinals
      /\ pc[p] \in CopyLabels => obj[p] \in BlockRows
      /\ pc[p] = "createBlock" => host[p] \in Hosts
  BY Zenon DEF TypeOK, LocalsOK, InHand, HostlessLabels, ReleaseLabels
<1>1. blk' = blk
  BY Zenon DEF GbRewrite, CreateBlock, AssignFromBlock, AssignAddress, RelBlock, ReleaseUpdate
<1>2. \E l : Goto(p, l)
  BY Zenon DEF GbRewrite, CreateBlock, AssignFromBlock, AssignAddress, RelBlock, ReleaseUpdate, TryNextBlock,
     ReleaseConflict, ReleaseFailed, EnsureConsistentAffinity
<1>3. Apart(p)
  BY <1>1, <1>2, GoesOn, Zenon
<1> SUFFICES CopyKept(p) \/ CopyWritten(p) \/ CopyDeleted(p)
  BY <1>3, Zenon
<1>4. \A l : Goto(p, l) => pc'[p] = l
  BY <1>0, Zenon DEF Goto
<1>5. CASE CreateBlock(p)
  <2>1. NewBlock(host[p]) \in BlockRows \/ pc[p] # "createBlock"
    BY <1>0, Zenon DEF NewBlock, BlockRows
  <2> QED
    BY <1>1, <1>4, <1>5, <2>1, FailsToWrite, Zenon DEF CreateBlock, CopyWritten, CopyLabels
<1>6. CASE GbRewrite(p)
  <2>1. CASE updateBlock(p, obj[p])
    BY <1>0, <1>1, <1>6, <2>1, Zenon DEF GbRewrite, CopyWritten, CopyLabels, MayDrop
  <2> QED
    BY <1>4, <1>6, <2>1, FailsToWrite, Zenon DEF GbRewrite, CopyLabels, AfterConflict, AfterGone
<1>7. CASE AssignFromBlock(p) \/ AssignAddress(p)
  <2>1. ASSUME NEW o \in Ordinals, updateBlock(p, [obj[p] EXCEPT !.ips = @ \cup {o}]) PROVE CopyWritten(p)
    <3>1. pc[p] \in CopyLabels /\ obj[p] \in BlockRows
      BY <1>0, <1>7, Zenon DEF AssignFromBlock, AssignAddress, CopyLabels
    <3>2. [obj[p] EXCEPT !.ips = @ \cup {o}] \in BlockRows
          /\ obj[p].ips \subseteq [obj[p] EXCEPT !.ips = @ \cup {o}].ips
      BY <3>1, Zenon DEF BlockRows
    <3> QED
      BY <1>1, <2>1, <3>1, <3>2, Zenon DEF CopyWritten, MayDrop
  <2>2. CASE NoSuchBlock(p) \/ BlockConflict(p)
    <3>1. pc'[p] \notin CopyLabels
      BY <1>4, <1>7, <2>2, Zenon DEF AssignFromBlock, AssignAddress, TryNextBlock, CopyLabels
    <3> QED
      BY <2>2, <3>1, FailsToWrite, Zenon
  <2>3. CASE UNCHANGED <<block, blkCur, obj>>
    BY <1>1, <1>7, <2>3, Zenon DEF AssignFromBlock, AssignAddress, CopyKept, CopyLabels
  <2> QED
    BY <1>0, <1>7, <2>1, <2>2, <2>3, Zenon DEF AssignFromBlock, AssignAddress
<1>8. CASE RelBlock(p)
  <2>1. pc[p] \in CopyLabels /\ obj[p] \in BlockRows /\ pc'[p] \notin CopyLabels
    BY <1>0, <1>4, <1>8, Zenon DEF RelBlock, ReleaseConflict, ReleaseFailed, CopyLabels
  <2>2. [obj[p] EXCEPT !.aff = NoHost] \in BlockRows /\ [obj[p] EXCEPT !.aff = NoHost].ips = obj[p].ips
    BY <2>1, Zenon DEF BlockRows
  <2>3. CASE updateBlock(p, [obj[p] EXCEPT !.aff = NoHost])
    BY <1>1, <2>1, <2>2, <2>3, Zenon DEF CopyWritten, MayDrop
  <2>4. CASE obj[p].ips = {} /\ deleteBlock(p)
    BY <1>1, <2>1, <2>4, Zenon DEF CopyDeleted, MayDrop
  <2> QED
    BY <1>8, <2>1, <2>3, <2>4, FailsToWrite, Zenon DEF RelBlock
<1>9. CASE ReleaseUpdate(p)
  <2> DEFINE b == [obj[p] EXCEPT !.ips = @ \ {ord[p]}]
  <2>1. pc[p] = "releaseUpdate" /\ pc[p] \in CopyLabels /\ obj[p] \in BlockRows /\ pc'[p] \notin CopyLabels
    BY <1>0, <1>4, <1>9, Zenon DEF ReleaseUpdate, EnsureConsistentAffinity, CopyLabels
  <2>2. b \in BlockRows /\ obj[p].ips \subseteq b.ips \cup {ord[p]}
    BY <2>1, Zenon DEF BlockRows
  <2>3. CASE updateBlock(p, b)
    BY <1>1, <2>1, <2>2, <2>3, Zenon DEF CopyWritten, MayDrop
  <2>4. CASE b.ips = {} /\ deleteBlock(p)
    <3>1. MayDrop(p, {})
      BY <2>1, <2>2, <2>4, Zenon DEF MayDrop
    <3> QED
      BY <1>1, <2>1, <2>4, <3>1, Zenon DEF CopyDeleted
  <2> QED
    BY <1>9, <2>1, <2>3, <2>4, FailsToWrite, Zenon DEF ReleaseUpdate
<1> QED
  BY <1>5, <1>6, <1>7, <1>8, <1>9, Zenon

(* Every step of a process, summed up.                                     *)
LEMMA CopySteps ==
  ASSUME TypeOK, NEW p \in Procs, Begin(p) \/ Step(p) \/ Crash(p)
  PROVE  Apart(p) /\ CopyStep(p)
<1>1. CASE Crash(p) \/ Done(p)
  BY <1>1, Zenon DEF Crash, Done, Return, Goto, TypeOK, LocalsOK, Apart, CopyStep
<1> QED
  BY <1>1, SearchCopies, AffinityCopies, QueryCopies, WriteCopies, Zenon DEF Step, CopyStep

(* A copy that would pass the compare-and-swap is the row, in every        *)
(* operation.                                                              *)
CopiesCurrent == TypeOK /\ \A p \in Procs : CopyIsRow(p)

(* A read makes p's copy the row and touches no other.  A write makes p's  *)
(* copy the row and every other copy of the block stale.                   *)
LEMMA CopiesStayCurrent ==
  ASSUME CopiesCurrent, NEW p \in Procs, Apart(p), CopyStep(p), NEW q \in Procs
  PROVE  CopyIsRow(q)'
<1>0. /\ blk \in [Procs -> Blocks] /\ obj \in [Procs -> BlockRows \cup {NoBlock}] /\ pc \in [Procs -> Labels]
      /\ block \in [Blocks -> BlockRows \cup {NoBlock}] /\ blkCur \in [Blocks -> SUBSET Procs]
      /\ CopyIsRow(p) /\ CopyIsRow(q)
  BY Zenon DEF CopiesCurrent, TypeOK, LocalsOK, BlocksOK, Blk!StoreTypeOK
<1>1. CASE CopyKept(p)
  BY <1>0, <1>1, Zenon DEF CopyKept, Apart, CopyIsRow
<1>2. CASE CopyRead(p)
  BY <1>0, <1>2, Zenon DEF CopyRead, queryBlock, Blk!Get, Apart, CopyIsRow
<1>3. CASE CopyWritten(p)
  <2>1. PICK v \in BlockRows : createBlock(p, v) \/ updateBlock(p, v)
    BY <1>3, Zenon DEF CopyWritten
  <2>2. /\ block' = [block EXCEPT ![blk[p]] = v] /\ obj' = [obj EXCEPT ![p] = v]
        /\ blkCur' = [blkCur EXCEPT ![blk[p]] = {p}] /\ blk' = blk
    BY <1>3, <2>1, Zenon DEF CopyWritten, createBlock, updateBlock, Blk!Create, Blk!Update
  <2> QED
    BY <1>0, <2>2, Zenon DEF Apart, CopyIsRow
<1>4. CASE CopyDeleted(p)
  BY <1>0, <1>4, Zenon DEF CopyDeleted, deleteBlock, Blk!Delete, Apart, CopyIsRow
<1>5. CASE Return(p)
  BY <1>0, <1>5, Zenon DEF Return, Goto, Blk!Forget, Apart, CopyIsRow, CopyLabels
<1> QED
  BY <1>1, <1>2, <1>3, <1>4, <1>5, Zenon DEF CopyStep

(* No step parts a current copy from its row.                              *)
LEMMA NextCopies == CopiesCurrent /\ [Next]_vars => CopiesCurrent'
<1> SUFFICES ASSUME CopiesCurrent, [Next]_vars PROVE CopiesCurrent'
  BY Zenon
<1>1. TypeOK /\ TypeOK'
  BY NextTypes, Zenon DEF CopiesCurrent
<1>2. ASSUME NEW p \in Procs, Begin(p) \/ Step(p) \/ Crash(p) PROVE CopiesCurrent'
  BY <1>1, <1>2, CopySteps, CopiesStayCurrent, Zenon DEF CopiesCurrent
<1>3. CASE UNCHANGED vars \/ \E b \in Blocks : AgeBlock(b)
  <2>1. UNCHANGED <<block, blkCur, pc, blk, obj>>
    BY <1>3, Zenon DEF vars, storeVars, args, AgeBlock
  <2> QED
    BY <1>1, <2>1, Zenon DEF CopiesCurrent, CopyIsRow
<1> QED
  BY <1>2, <1>3, Zenon DEF Next

(* In every instance, whichever operations it performs and however they    *)
(* interleave and crash: what is about to be written was made from the row *)
(* as it is, or the write will be refused.                                 *)
THEOREM CopiesAreCurrent == Spec => []CopiesCurrent
<1>1. Init => CopiesCurrent
  BY InitTypes, ZenonT(30) DEF Init, CopiesCurrent, CopyIsRow, CopyLabels
<1> QED
  BY <1>1, NextCopies, PTL DEF Spec

(* No step of any operation loses an allocation but the ReleaseIPs that    *)
(* names it.                                                               *)
THEOREM NoAllocationLost == Spec => AllocationsKept
<1> DEFINE Kept ==
      \A b \in Blocks : \A o \in Ordinals :
        /\ block[b] # NoBlock /\ o \in block[b].ips
        /\ ~(block'[b] # NoBlock /\ o \in block'[b].ips)
        => \E p \in Procs : pc[p] = "releaseUpdate" /\ blk[p] = b /\ ord[p] = o /\ pc'[p] # pc[p]
<1>1. ASSUME CopiesCurrent, [Next]_vars PROVE [Kept]_vars
  <2> SUFFICES ASSUME NEW b \in Blocks, NEW o \in Ordinals, block[b] # NoBlock, o \in block[b].ips,
                      ~(block'[b] # NoBlock /\ o \in block'[b].ips)
               PROVE  \E p \in Procs : pc[p] = "releaseUpdate" /\ blk[p] = b /\ ord[p] = o /\ pc'[p] # pc[p]
    BY ZenonT(60)
  <2>0. /\ block \in [Blocks -> BlockRows \cup {NoBlock}] /\ blk \in [Procs -> Blocks]
        /\ \A v \in BlockRows : v # NoBlock
    BY <1>1, RowsAssumption, Zenon DEF CopiesCurrent, TypeOK, BlocksOK, LocalsOK, Blk!StoreTypeOK
  <2>1. block'[b] # block[b]
    BY Zenon
  <2>2. PICK p \in Procs : Begin(p) \/ Step(p) \/ Crash(p)
    BY <1>1, <2>1, Zenon DEF Next, AgeBlock, vars, storeVars
  <2>3. CopyIsRow(p) /\ CopyStep(p)
    BY <1>1, <2>2, CopySteps, Zenon DEF CopiesCurrent
  <2>4. CASE CopyWritten(p)
    <3>1. ~(pc[p] = "createBlock" /\ \E v \in BlockRows : createBlock(p, v))
      BY <2>0, <2>1, Zenon DEF createBlock, Blk!Create
    <3>2. PICK v \in BlockRows : updateBlock(p, v) /\ MayDrop(p, v.ips)
      BY <2>4, <3>1, Zenon DEF CopyWritten
    <3>3. b = blk[p] /\ block'[b] = v /\ p \in blkCur[b]
      BY <2>0, <2>1, <3>2, Zenon DEF updateBlock, Blk!Update
    <3>4. obj[p] = block[b]
      BY <2>3, <2>4, <3>1, <3>3, Zenon DEF CopyIsRow, CopyWritten
    <3> QED
      BY <2>0, <3>2, <3>3, <3>4, Zenon DEF MayDrop
  <2>5. CASE CopyDeleted(p)
    <3>1. b = blk[p] /\ p \in blkCur[b]
      BY <2>0, <2>1, <2>5, Zenon DEF CopyDeleted, deleteBlock, Blk!Delete
    <3>2. obj[p] = block[b]
      BY <2>3, <2>5, <3>1, Zenon DEF CopyIsRow, CopyDeleted
    <3> QED
      BY <2>5, <3>1, <3>2, Zenon DEF CopyDeleted, MayDrop
  <2> QED
    BY <2>1, <2>3, <2>4, <2>5, Zenon DEF CopyStep, CopyKept, CopyRead, queryBlock, Blk!Get, Return
<1> QED
  BY <1>1, CopiesAreCurrent, PTL DEF Spec, AllocationsKept

(* The assignments are the steps that leave "assign" for "done" with a     *)
(* copy that has changed.                                                  *)
LEMMA Assigns ==
  ASSUME NEW p \in Procs, Begin(p) \/ Step(p) \/ Crash(p), pc[p] = "assign", pc'[p] = "done", TypeOK
  PROVE  AssignFromBlock(p) \/ AssignAddress(p)
<1>1. ~Crash(p) /\ ~Done(p)
  BY Zenon DEF Crash, Done, Return, Goto, TypeOK, LocalsOK
<1> QED
  BY <1>1, Zenon
     DEF At, Begin, BeginAutoAssign, BeginAssignIP, BeginClaimAffinity, BeginReleaseAffinity, BeginReleaseIPs,
     Step, NextAffine, RetryAffine, FindFree, FindReclaimable, Looking, ReclaimNext, NoFreeBlocks, GbQueryBlock,
     GbPend, GbDropStale, GbRepend, GbRewrite, GbConfirm, CreatePendingAffinity, ReadAffinity, PendAffinity,
     CreateBlock, ReadWinner, DropAffinity, Confirm, Recheck, Requery, Borrow, BorrowFailed, AssignQueryBlock,
     RelQueryAff, RelQueryBlock, RelDropStale, RelMark, RelBlock, RelDropAff, ReleaseQuery, ReleaseUpdate

(* Two processes never get the same address: an assignment that succeeds,  *)
(* by AutoAssign or by AssignIP, takes an address that is free in the      *)
(* datastore and not only in the copy it chose from, and under             *)
(* StrictAffinity one of a block that is its host's at that moment.        *)
THEOREM NoAddressGrantedTwice == Spec => AddressesGrantedOnce
<1> DEFINE Granted ==
      \A p \in Procs : pc[p] = "assign" /\ pc'[p] = "done" /\ obj'[p] # obj[p] =>
        LET b == blk[p] IN
        /\ \E o \in Ordinals \ block[b].ips : block' = [block EXCEPT ![b].ips = @ \cup {o}]
        /\ Strict => block[b].aff = host[p]
<1>1. ASSUME CopiesCurrent, [Next]_vars PROVE [Granted]_vars
  <2> SUFFICES ASSUME NEW p \in Procs, pc[p] = "assign", pc'[p] = "done", obj'[p] # obj[p]
               PROVE  /\ \E o \in Ordinals \ block[blk[p]].ips : block' = [block EXCEPT ![blk[p]].ips = @ \cup {o}]
                      /\ Strict => block[blk[p]].aff = host[p]
    BY ZenonT(60)
  <2>0. /\ block \in [Blocks -> BlockRows \cup {NoBlock}] /\ blk[p] \in Blocks /\ ord[p] \in Ordinals
        /\ obj[p] \in BlockRows /\ TypeOK
    BY <1>1, Zenon DEF CopiesCurrent, TypeOK, BlocksOK, LocalsOK, Blk!StoreTypeOK, InHand, CopyLabels
  <2>1. PICK q \in Procs : Begin(q) \/ Step(q) \/ Crash(q)
    BY <1>1, Zenon DEF Next, AgeBlock, vars, storeVars, args
  <2>2. q = p
    BY <1>1, <2>1, CopySteps, Zenon DEF CopiesCurrent, Apart
  <2>3. AssignFromBlock(p) \/ AssignAddress(p)
    BY <2>0, <2>1, <2>2, Assigns, Zenon
  <2>4. PICK o \in Ordinals \ obj[p].ips :
          updateBlock(p, [obj[p] EXCEPT !.ips = @ \cup {o}]) /\ (Strict => obj[p].aff = host[p])
    <3>1. ~NoSuchBlock(p) /\ ~BlockConflict(p)
      BY Zenon DEF NoSuchBlock, BlockConflict
    <3> QED
      BY <2>0, <2>3, <3>1, Zenon DEF AssignFromBlock, AssignAddress, Refused
  <2>5. obj[p] = block[blk[p]]
    BY <1>1, <2>4, Zenon DEF CopiesCurrent, CopyIsRow, CopyLabels, updateBlock, Blk!Update
  <2>6. block' = [block EXCEPT ![blk[p]].ips = @ \cup {o}]
    BY <2>0, <2>4, <2>5, Zenon DEF updateBlock, Blk!Update, BlockRows
  <2> QED
    BY <2>4, <2>5, <2>6, Zenon
<1> QED
  BY <1>1, CopiesAreCurrent, PTL DEF Spec, AddressesGrantedOnce

=============================================================================
