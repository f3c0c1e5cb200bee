-------------------------- MODULE HandleAccounting --------------------------
(***************************************************************************)
(* How the handle rows are kept in step with the blocks                    *)
(* (libcalico-go/lib/ipam/ipam.go and ipam_handle.go).                     *)
(*                                                                         *)
(* A handle row counts, for each block, the addresses assigned under the   *)
(* handle: it is the index ReleaseByHandle and IPsByHandle search and the  *)
(* counter the per-handle cap compares.  Handle and block are different    *)
(* rows.  An assignment counts first and assigns second, a release         *)
(* releases first and counts second, so that a process that dies in        *)
(* between leaves the count too high, never too low.                       *)
(*                                                                         *)
(* Blocks come and go as in AffinityProtocol; here a claim and a release   *)
(* of an affinity are one step each.  Only one IP version is modelled, and *)
(* a released address counts as free at once.                              *)
(***************************************************************************)
EXTENDS Naturals, FiniteSets

CONSTANTS
  Handles, Blocks, Ordinals,   \* handle IDs, block CIDRs, addresses in a block
  Procs,                       \* running operations
  Free, NoBlock, NoHandle,     \* an unassigned address / no such row
  Nums,                        \* how many addresses an AutoAssign may ask for
  MaxAlloc,                    \* MaxAllocToHandlePerIPVersion, 0 for no cap
  CountBound,                  \* a count in a handle never exceeds it (finite model)
  Ops                          \* the operations of this instance

AllOps == {"AutoAssign", "AssignIP", "MoveIPToHandle", "ReleaseIPs", "ReleaseByHandle",
           "ReleaseAffinity", "Crash"}

ASSUME HandlesAssumption ==
  /\ Free \notin Handles /\ Nums \subseteq Nat \ {0}
  /\ MaxAlloc \in Nat /\ CountBound \in Nat
  /\ Blocks # {} /\ Handles # {} /\ Ops \subseteq AllOps
  /\ IsFiniteSet(Procs) /\ IsFiniteSet(Ordinals) /\ IsFiniteSet(Blocks)

BlockRows == [aff : BOOLEAN, ips : [Ordinals -> Handles \cup {Free}]]
HandleRows == [Blocks -> Nat]

ASSUME AbsentAssumption == NoBlock \notin BlockRows /\ NoHandle \notin HandleRows

VARIABLES
  block, blkCur,     \* block rows, and who holds a current copy
  handle, hdlCur,    \* handle rows, likewise
  pc, op,            \* process -> its next datastore call, its operation
  hdl, blk,          \* process -> the handle it assigns or releases; the block in hand
  num, want,         \* process -> addresses requested; addresses still missing
  take,              \* process -> ordinals assigned, moved or released in its copy
  obj, hobj,         \* process -> its copies of the block and of the handle
  due, ret,          \* process -> decrements to make, by handle; where it goes on then
  left               \* process -> blocks ReleaseByHandle has still to look at

stores == <<block, blkCur, handle, hdlCur>>
locals == <<op, hdl, blk, num, want, take, obj, hobj, due, ret, left>>
vars == <<stores, pc, locals>>

Blk == INSTANCE CASStore WITH Keys <- Blocks, Values <- BlockRows, Clients <- Procs,
                              Absent <- NoBlock, rows <- block, current <- blkCur
Hdl == INSTANCE CASStore WITH Keys <- Handles, Values <- HandleRows, Clients <- Procs,
                              Absent <- NoHandle, rows <- handle, current <- hdlCur

Labels == {"idle", "find", "query", "incQuery", "incWrite", "maxAlloc", "write",
           "decQuery", "decWrite", "nextBlock", "relQuery", "relWrite"}

Zero == [h \in Handles |-> 0]

(* Every variable has its type, and what is written was read before.       *)
TypeOK ==
  /\ Blk!StoreTypeOK /\ Hdl!StoreTypeOK
  /\ pc \in [Procs -> Labels] /\ op \in [Procs -> AllOps \cup {"none"}]
  /\ hdl \in [Procs -> Handles] /\ blk \in [Procs -> Blocks]
  /\ num \in [Procs -> Nat] /\ want \in [Procs -> Nat] /\ take \in [Procs -> SUBSET Ordinals]
  /\ obj \in [Procs -> BlockRows \cup {NoBlock}] /\ hobj \in [Procs -> HandleRows \cup {NoHandle}]
  /\ due \in [Procs -> [Handles -> Nat]] /\ ret \in [Procs -> Labels] /\ left \in [Procs -> SUBSET Blocks]
  /\ \A p \in Procs : /\ pc[p] \in {"write", "relWrite"} => obj[p] \in BlockRows
                      /\ pc[p] = "decWrite" => hobj[p] \in HandleRows

Init ==
  /\ Blk!StoreInit /\ Hdl!StoreInit
  /\ pc = [p \in Procs |-> "idle"] /\ op = [p \in Procs |-> "none"]
  /\ hdl = [p \in Procs |-> CHOOSE h \in Handles : TRUE]
  /\ blk = [p \in Procs |-> CHOOSE b \in Blocks : TRUE]
  /\ num = [p \in Procs |-> 0] /\ want = [p \in Procs |-> 0] /\ take = [p \in Procs |-> {}]
  /\ obj = [p \in Procs |-> NoBlock] /\ hobj = [p \in Procs |-> NoHandle]
  /\ due = [p \in Procs |-> Zero] /\ ret = [p \in Procs |-> "idle"] /\ left = [p \in Procs |-> {}]

-----------------------------------------------------------------------------
(* Shorthands.                                                             *)

At(p, l) == pc[p] = l
Goto(p, l) == pc' = [pc EXCEPT ![p] = l]
Set(f, p, v) == [f EXCEPT ![p] = v]

FreeIn(row) == {o \in Ordinals : row.ips[o] = Free}
Held(row, h) == {o \in Ordinals : row.ips[o] = h}
Assigned(row) == Ordinals \ FreeIn(row)
Redirect(row, S, v) == [row EXCEPT !.ips = [o \in Ordinals |-> IF o \in S THEN v ELSE @[o]]]

(* allocationBlock.empty and Affinity == nil: the releaser deletes it.     *)
Disposable(row) == ~row.aff /\ Assigned(row) = {}

SameBlocks == UNCHANGED <<block, blkCur>>
SameHandles == UNCHANGED <<handle, hdlCur>>

(* Back to the caller: nothing of the operation is remembered.             *)
Return(p) ==
  /\ Goto(p, "idle")
  /\ op' = Set(op, p, "none") /\ hdl' = Set(hdl, p, CHOOSE h \in Handles : TRUE)
  /\ blk' = Set(blk, p, CHOOSE b \in Blocks : TRUE)
  /\ num' = Set(num, p, 0) /\ want' = Set(want, p, 0) /\ take' = Set(take, p, {})
  /\ obj' = Set(obj, p, NoBlock) /\ hobj' = Set(hobj, p, NoHandle)
  /\ due' = Set(due, p, Zero) /\ ret' = Set(ret, p, "idle") /\ left' = Set(left, p, {})
  /\ Blk!Forget(p) /\ Hdl!Forget(p)
  /\ UNCHANGED <<block, handle>>

(* queryBlock; the caller says what it does with the copy.                 *)
queryBlock(p, b) == Blk!Get(p, b) /\ obj' = Set(obj, p, block[b])

-----------------------------------------------------------------------------
(* incrementHandle: read the row, or start a new one; check the cap;       *)
(* write, and start again whatever the error of the write was.             *)

totalCount(row) == Cardinality(UNION {{b} \X (1..row[b]) : b \in Blocks})

NewRow == [b \in Blocks |-> 0]

incrementBlock(row, b, n) == [row EXCEPT ![b] = @ + n]

\* Mutant: the addresses asked for are not counted.
OverCapLate(p, row) == MaxAlloc > 0 /\ op[p] # "MoveIPToHandle" /\ totalCount(row) > MaxAlloc

OverCap(p, row) == MaxAlloc > 0 /\ op[p] # "MoveIPToHandle" /\ totalCount(row) + want[p] > MaxAlloc

IncQuery(p) ==
  /\ At(p, "incQuery")
  /\ \/ Hdl!Get(p, hdl[p]) /\ hobj' = Set(hobj, p, handle[hdl[p]])
     \/ Hdl!DoesNotExist(hdl[p]) /\ hobj' = Set(hobj, p, NoHandle)
  /\ LET row == IF handle[hdl[p]] = NoHandle THEN NewRow ELSE handle[hdl[p]]
     IN /\ row[blk[p]] + want[p] <= CountBound
        /\ Goto(p, IF OverCap(p, row) THEN "maxAlloc" ELSE "incWrite")
  /\ SameBlocks /\ UNCHANGED <<op, hdl, blk, num, want, take, obj, due, ret, left>>

\* Mutant: the revision of the handle is not compared.
IncWriteBlind(p) ==
  /\ At(p, "incWrite") /\ Goto(p, "write")
  /\ handle' = Set(handle, hdl[p], incrementBlock(IF hobj[p] = NoHandle THEN NewRow ELSE hobj[p],
                                                  blk[p], want[p]))
  /\ hdlCur' = Set(hdlCur, hdl[p], {p})
  /\ hobj' = Set(hobj, p, NoHandle)
  /\ SameBlocks /\ UNCHANGED <<op, hdl, blk, num, want, take, obj, due, ret, left>>

IncWrite(p) ==
  /\ At(p, "incWrite")
  /\ IF hobj[p] = NoHandle
     THEN \/ Hdl!Create(p, hdl[p], incrementBlock(NewRow, blk[p], want[p])) /\ Goto(p, "write")
          \/ Hdl!AlreadyExists(hdl[p]) /\ Goto(p, "incQuery")
     ELSE \/ Hdl!Update(p, hdl[p], incrementBlock(hobj[p], blk[p], want[p])) /\ Goto(p, "write")
          \/ Hdl!UpdateConflict(p, hdl[p]) /\ Goto(p, "incQuery")
          \/ Hdl!DoesNotExist(hdl[p]) /\ Goto(p, "incQuery")
  /\ hobj' = Set(hobj, p, NoHandle)
  /\ SameBlocks /\ UNCHANGED <<op, hdl, blk, num, want, take, obj, due, ret, left>>

(* handleMaxAllocReached: the addresses the handle has already are the     *)
(* answer, or the whole assignment is tried again.  A read-only step.      *)
IPsByHandle(h) ==
  IF handle[h] = NoHandle THEN {}
  ELSE UNION {{b} \X Held(block[b], h) : b \in {c \in Blocks : handle[h][c] > 0 /\ block[c] # NoBlock}}

MaxAllocReached(p) ==
  /\ At(p, "maxAlloc")
  /\ IF Cardinality(IPsByHandle(hdl[p])) >= num[p]
     THEN Return(p)
     ELSE Goto(p, "query") /\ UNCHANGED <<stores, locals>>

-----------------------------------------------------------------------------
(* decrementHandle, once for every handle with an entry in due.  Errors    *)
(* are logged by all callers, and the operation goes on.                   *)

Decrement(p, d, next) == due' = Set(due, p, d) /\ ret' = Set(ret, p, next) /\ Goto(p, "decQuery")

(* Done, with nothing to give back.                                        *)
Finish(p) == Decrement(p, Zero, "idle")

Owing(p) == {h \in Handles : due[p][h] > 0}

Settled(p, h) == due' = [due EXCEPT ![p][h] = 0] /\ Goto(p, "decQuery")

decrementBlockFails(p) == hobj[p][blk[p]] < due[p][hdl[p]]

DecQuery(p) ==
  /\ At(p, "decQuery")
  /\ \E h \in Owing(p) :
       \/ Hdl!Get(p, h) /\ hobj' = Set(hobj, p, handle[h]) /\ Goto(p, "decWrite")
          /\ hdl' = Set(hdl, p, h) /\ UNCHANGED due
       \/ Hdl!DoesNotExist(h) /\ Settled(p, h) /\ UNCHANGED <<hobj, hdl>>
  /\ SameBlocks /\ UNCHANGED <<op, blk, num, want, take, obj, ret, left>>

\* Mutant: the entry of the block is dropped, not decremented.
decrementBlockAll(row, b, n) == [row EXCEPT ![b] = 0]

decrementBlock(row, b, n) == [row EXCEPT ![b] = @ - n]

DecWrite(p) ==
  LET row == decrementBlock(hobj[p], blk[p], due[p][hdl[p]])
  IN
  /\ At(p, "decWrite")
  /\ IF decrementBlockFails(p)
     THEN Settled(p, hdl[p]) /\ SameHandles
     ELSE \/ /\ IF row = NewRow THEN Hdl!Delete(p, hdl[p]) ELSE Hdl!Update(p, hdl[p], row)
             /\ Settled(p, hdl[p])
          \/ Hdl!UpdateConflict(p, hdl[p]) /\ Goto(p, "decQuery") /\ UNCHANGED due
          \/ Hdl!DoesNotExist(hdl[p]) /\ Settled(p, hdl[p])
  /\ hobj' = Set(hobj, p, NoHandle)
  /\ SameBlocks /\ UNCHANGED <<op, hdl, blk, num, want, take, obj, ret, left>>

Decremented(p) ==
  /\ At(p, "decQuery") /\ Owing(p) = {}
  /\ IF ret[p] = "idle" THEN Return(p) ELSE Goto(p, ret[p]) /\ UNCHANGED <<stores, locals>>

-----------------------------------------------------------------------------
(* AutoAssign, AssignIP and MoveIPToHandle: read the block, change the     *)
(* copy, count, write the block.                                           *)

Begin(p, name) == At(p, "idle") /\ name \in Ops /\ op' = Set(op, p, name)

BeginAutoAssign(p) ==
  /\ Begin(p, "AutoAssign") /\ Goto(p, "find")
  /\ \E h \in Handles : hdl' = Set(hdl, p, h)
  /\ \E n \in Nums : num' = Set(num, p, n) /\ want' = Set(want, p, n)
  /\ UNCHANGED <<stores, blk, take, obj, hobj, due, ret, left>>

BeginOnAddress(p, name) ==
  /\ Begin(p, name) /\ Goto(p, "query")
  /\ \E h \in Handles : hdl' = Set(hdl, p, h)
  /\ \E b \in Blocks : blk' = Set(blk, p, b)
  /\ \E o \in Ordinals : take' = Set(take, p, {o})
  /\ num' = Set(num, p, 1) /\ want' = Set(want, p, 1)
  /\ UNCHANGED <<stores, obj, hobj, due, ret, left>>

BeginAssignIP(p) == BeginOnAddress(p, "AssignIP")
BeginMoveIPToHandle(p) == BeginOnAddress(p, "MoveIPToHandle")

\* Mutant: autoAssign takes all there is.
TakingAll(p, row) == {FreeIn(row)} \ {{}}

(* allocationBlock.autoAssign takes what there is, up to what is wanted.   *)
Taking(p, row) ==
  {S \in SUBSET FreeIn(row) : S # {} /\ Cardinality(S) <= want[p]
                              /\ (S = FreeIn(row) \/ Cardinality(S) = want[p])}

AutoAssignFrom(p, b) ==
  /\ queryBlock(p, b)
  /\ \/ \E S \in Taking(p, block[b]) : take' = Set(take, p, S) /\ Goto(p, "incQuery")
     \/ FreeIn(block[b]) = {} /\ take' = Set(take, p, {}) /\ Goto(p, "find")

(* findOrClaimBlock, and the hunt through the blocks of others, end with   *)
(* some block that exists; or there is none with space, and AutoAssign     *)
(* returns what it has.                                                    *)
FindBlock(p) ==
  /\ At(p, "find")
  /\ \E b \in Blocks : AutoAssignFrom(p, b) /\ blk' = Set(blk, p, b)
  /\ SameHandles /\ UNCHANGED <<op, hdl, num, want, hobj, due, ret, left>>

NoFreeBlocks(p) == At(p, "find") /\ Return(p)

(* The same block again, after an update conflict or a full handle.        *)
AutoAssignQuery(p) ==
  /\ At(p, "query") /\ op[p] = "AutoAssign"
  /\ \/ AutoAssignFrom(p, blk[p])
     \/ Blk!DoesNotExist(blk[p]) /\ Goto(p, "find") /\ UNCHANGED <<take, obj>>
  /\ SameHandles /\ UNCHANGED <<op, hdl, blk, num, want, hobj, due, ret, left>>

OrdinalOf(p) == CHOOSE o \in Ordinals : take[p] = {o}

(* allocationBlock.assign refuses an address that is not free.  Without a  *)
(* block AssignIP claims one first, see AffinityProtocol.                  *)
AssignIPQuery(p) ==
  /\ At(p, "query") /\ op[p] = "AssignIP"
  /\ IF block[blk[p]] # NoBlock /\ take[p] \subseteq FreeIn(block[blk[p]])
     THEN /\ queryBlock(p, blk[p]) /\ Goto(p, "incQuery")
          /\ SameHandles /\ UNCHANGED <<op, hdl, blk, num, want, take, hobj, due, ret, left>>
     ELSE Return(p)

(* updateAllocationOwnership refuses an address that is not assigned; one  *)
(* that is on the target handle already needs no move.                     *)
MoveQuery(p) ==
  /\ At(p, "query") /\ op[p] = "MoveIPToHandle"
  /\ IF block[blk[p]] # NoBlock /\ block[blk[p]].ips[OrdinalOf(p)] \notin {Free, hdl[p]}
     THEN /\ queryBlock(p, blk[p]) /\ Goto(p, "incQuery")
          /\ SameHandles /\ UNCHANGED <<op, hdl, blk, num, want, take, hobj, due, ret, left>>
     ELSE Return(p)

Unit(h, n) == [Zero EXCEPT ![h] = n]

updateBlock(p) == Blk!Update(p, blk[p], Redirect(obj[p], take[p], hdl[p]))

(* The addresses are assigned: AutoAssign looks for the rest in another    *)
(* block, MoveIPToHandle takes the address off the handle it was on.       *)
WriteSucceeds(p) ==
  /\ updateBlock(p)
  /\ CASE op[p] = "AutoAssign" ->
            /\ want' = Set(want, p, want[p] - Cardinality(take[p]))
            /\ IF want[p] = Cardinality(take[p]) THEN Finish(p)
               ELSE Goto(p, "find") /\ UNCHANGED <<due, ret>>
       [] op[p] = "AssignIP" -> Finish(p) /\ UNCHANGED want
       [] op[p] = "MoveIPToHandle" ->
            Decrement(p, Unit(obj[p].ips[OrdinalOf(p)], 1), "idle") /\ UNCHANGED want

\* Mutant: MoveIPToHandle, too, retries without giving the count back.
WriteConflictsForget(p) ==
  /\ Blk!UpdateConflict(p, blk[p])
  /\ Goto(p, "query") /\ UNCHANGED <<want, due, ret>>

(* After a conflict AssignIP goes straight back to the read; the others    *)
(* give the count back first.                                              *)
WriteConflicts(p) ==
  /\ Blk!UpdateConflict(p, blk[p])
  /\ IF op[p] = "AssignIP" THEN Goto(p, "query") /\ UNCHANGED <<due, ret>>
     ELSE Decrement(p, Unit(hdl[p], want[p]), "query")
  /\ UNCHANGED want

(* Any other error: the count is given back, and AutoAssign tries another  *)
(* block.                                                                  *)
WriteFails(p) ==
  /\ Blk!DoesNotExist(blk[p])
  /\ Decrement(p, Unit(hdl[p], want[p]), IF op[p] = "AutoAssign" THEN "find" ELSE "idle")
  /\ UNCHANGED want

Write(p) ==
  /\ At(p, "write")
  /\ WriteSucceeds(p) \/ WriteConflicts(p) \/ WriteFails(p)
  /\ obj' = Set(obj, p, NoBlock)
  /\ SameHandles /\ UNCHANGED <<op, hdl, blk, num, take, hobj, left>>

-----------------------------------------------------------------------------
(* ReleaseIPs of addresses of one block; ReleaseByHandle, block by block.  *)

BeginReleaseIPs(p) ==
  /\ Begin(p, "ReleaseIPs") /\ Goto(p, "relQuery")
  /\ \E b \in Blocks : blk' = Set(blk, p, b)
  /\ \E S \in SUBSET Ordinals : S # {} /\ take' = Set(take, p, S)
  /\ UNCHANGED <<stores, hdl, num, want, obj, hobj, due, ret, left>>

BeginReleaseByHandle(p) ==
  /\ Begin(p, "ReleaseByHandle") /\ Goto(p, "nextBlock")
  /\ \E h \in Handles :
       /\ handle[h] # NoHandle
       /\ hdl' = Set(hdl, p, h)
       /\ left' = Set(left, p, {b \in Blocks : handle[h][b] > 0})
  /\ UNCHANGED <<stores, blk, num, want, take, obj, hobj, due, ret>>

NextBlock(p) ==
  /\ At(p, "nextBlock")
  /\ IF left[p] = {} THEN Return(p)
     ELSE /\ \E b \in left[p] : blk' = Set(blk, p, b) /\ left' = Set(left, p, left[p] \ {b})
          /\ Goto(p, "relQuery")
          /\ UNCHANGED <<stores, op, hdl, num, want, take, obj, hobj, due, ret>>

Releasing(p, row) ==
  IF op[p] = "ReleaseIPs" THEN take[p] \cap Assigned(row) ELSE Held(row, hdl[p])

NothingToRelease(p) ==
  IF op[p] = "ReleaseIPs" THEN Return(p) ELSE Goto(p, "nextBlock") /\ UNCHANGED <<stores, locals>>

RelQuery(p) ==
  /\ At(p, "relQuery")
  /\ IF block[blk[p]] = NoBlock \/ Releasing(p, block[blk[p]]) = {}
     THEN NothingToRelease(p)
     ELSE /\ queryBlock(p, blk[p]) /\ Goto(p, "relWrite")
          /\ SameHandles /\ UNCHANGED <<op, hdl, blk, num, want, take, hobj, due, ret, left>>

(* How many addresses of each handle the copy of the block releases.       *)
Released(p) == [h \in Handles |-> Cardinality(Releasing(p, obj[p]) \cap Held(obj[p], h))]

AfterRelease(p) == IF op[p] = "ReleaseIPs" THEN "idle" ELSE "nextBlock"

(* A block somebody else has deleted is an error for an update and for     *)
(* ReleaseIPs; to ReleaseByHandle a delete that finds nothing is a success.*)
RelWrite(p) ==
  LET row == Redirect(obj[p], Releasing(p, obj[p]), Free)
  IN
  /\ At(p, "relWrite")
  /\ \/ /\ IF Disposable(row) THEN Blk!Delete(p, blk[p]) ELSE Blk!Update(p, blk[p], row)
        /\ Decrement(p, Released(p), AfterRelease(p))
     \/ Blk!UpdateConflict(p, blk[p]) /\ Goto(p, "relQuery") /\ UNCHANGED <<due, ret>>
     \/ /\ Blk!DoesNotExist(blk[p])
        /\ Decrement(p, IF Disposable(row) /\ op[p] = "ReleaseByHandle" THEN Released(p) ELSE Zero, 
                     IF Disposable(row) THEN AfterRelease(p) ELSE "idle")
  /\ obj' = Set(obj, p, NoBlock)
  /\ SameHandles /\ UNCHANGED <<op, hdl, blk, num, want, take, hobj, left>>

-----------------------------------------------------------------------------
(* Claims and releases of affinities, see AffinityProtocol; a process that *)
(* dies.                                                                   *)

ClaimBlock(b) ==
  /\ block[b] = NoBlock
  /\ block' = Set(block, b, [aff |-> TRUE, ips |-> [o \in Ordinals |-> Free]])
  /\ blkCur' = Set(blkCur, b, {})
  /\ SameHandles /\ UNCHANGED <<pc, locals>>

ReleaseAffinity(b) ==
  /\ "ReleaseAffinity" \in Ops /\ block[b] # NoBlock /\ block[b].aff
  /\ block' = Set(block, b, IF Assigned(block[b]) = {} THEN NoBlock ELSE [block[b] EXCEPT !.aff = FALSE])
  /\ blkCur' = Set(blkCur, b, {})
  /\ SameHandles /\ UNCHANGED <<pc, locals>>

Crash(p) == "Crash" \in Ops /\ ~At(p, "idle") /\ Return(p)

Step(p) ==
  \/ BeginAutoAssign(p) \/ BeginAssignIP(p) \/ BeginMoveIPToHandle(p)
  \/ BeginReleaseIPs(p) \/ BeginReleaseByHandle(p)
  \/ FindBlock(p) \/ NoFreeBlocks(p) \/ AutoAssignQuery(p) \/ AssignIPQuery(p) \/ MoveQuery(p)
  \/ IncQuery(p) \/ IncWrite(p) \/ MaxAllocReached(p) \/ Write(p)
  \/ DecQuery(p) \/ DecWrite(p) \/ Decremented(p)
  \/ NextBlock(p) \/ RelQuery(p) \/ RelWrite(p) \/ Crash(p)

Next == (\E p \in Procs : Step(p)) \/ (\E b \in Blocks : ClaimBlock(b) \/ ReleaseAffinity(b))

Spec == Init /\ [][Next]_vars

-----------------------------------------------------------------------------
(* Properties.                                                             *)

Count(h, b) == IF handle[h] = NoHandle THEN 0 ELSE handle[h][b]
Allocs(h, b) == IF block[b] = NoBlock THEN {} ELSE Held(block[b], h)

(* What p has counted for h in b, or released, without having assigned or  *)
(* given back the count yet.                                               *)
InFlight(p, h, b) ==
  IF blk[p] # b THEN 0
  ELSE (IF pc[p] = "write" /\ hdl[p] = h THEN want[p] ELSE 0)
       + (IF pc[p] \in {"decQuery", "decWrite"} THEN due[p][h] ELSE 0)

(* All of it, one element each.                                            *)
Owed(h, b) == UNION {{p} \X (1..InFlight(p, h, b)) : p \in Procs}

(* The handle row accounts for every address assigned under the handle, in *)
(* the right block: otherwise ReleaseByHandle and IPsByHandle, which look  *)
(* only where the row points, would miss the address, and decrementHandle  *)
(* would delete the row under it.  Whatever the interleaving, and whoever  *)
(* dies.                                                                   *)
AllocationsCovered ==
  \A h \in Handles, b \in Blocks : Cardinality(Allocs(h, b)) <= Count(h, b)

(* A decrement always finds the count it is to take off: decrementBlock    *)
(* never reports an entry that is missing or too small, so the errors its  *)
(* callers only log do not hide a lost count.                              *)
DecrementsFit ==
  \A p \in Procs : pc[p] = "decQuery" =>
    \A h \in Handles : due[p][h] <= Count(h, blk[p])

(* The counts are enough for the addresses and everything in flight: the   *)
(* invariant that makes the two above true.                                *)
ClaimsCovered ==
  \A h \in Handles, b \in Blocks :
    Cardinality(Allocs(h, b)) + Cardinality(Owed(h, b)) <= Count(h, b)

(* totalCount is "the total number of IP allocations": when nothing is in  *)
(* flight the row counts exactly the addresses assigned under the handle,  *)
(* so that the row goes when the last of them is released.                 *)
CountsExact ==
  (\A p \in Procs : pc[p] = "idle") =>
    \A h \in Handles, b \in Blocks : Count(h, b) = Cardinality(Allocs(h, b))

(* However many assignments race for a handle, on whatever blocks, it      *)
(* never has more addresses than its cap.                                  *)
HandleCapped ==
  \A h \in Handles :
    Cardinality(UNION {{b} \X Allocs(h, b) : b \in Blocks}) <= MaxAlloc

=============================================================================
