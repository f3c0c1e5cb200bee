---------------------------- MODULE HandleProofs ----------------------------
(***************************************************************************)
(* The handle rows account for every address assigned under a handle, for  *)
(* any number of operations, handles, blocks and addresses, and whoever    *)
(* dies.  The exception is a ReleaseByHandle that runs while affinities    *)
(* are released, when a block may be deleted under it.  It follows that a  *)
(* capped handle stays within its cap, and, where nothing is given up half *)
(* way, that the counts are exact.                                         *)
(***************************************************************************)
EXTENDS HandleAccounting, FiniteSetTheorems, TLAPS

-----------------------------------------------------------------------------
(* Counting.  n[p] tokens of each element p of a finite set.               *)

Tokens(n, S) == UNION {{p} \X (1..n[p]) : p \in S}

(* Finitely many elements have finitely many tokens.                       *)
LEMMA TokensFinite ==
  ASSUME NEW D, IsFiniteSet(D), NEW n \in [D -> Nat], NEW S \in SUBSET D
  PROVE  IsFiniteSet(Tokens(n, S)) /\ Cardinality(Tokens(n, S)) \in Nat
<1> DEFINE T == {{p} \X (1..n[p]) : p \in S}
<1> DEFINE f == [p \in S |-> {p} \X (1..n[p])]
<1>1. IsFiniteSet(S)
  BY FS_Subset, Zenon
<1>2. f \in Surjection(S, T)
  BY Zenon DEF Surjection
<1>3. IsFiniteSet(T)
  BY <1>1, <1>2, FS_Surjection, Zenon
<1>4. ASSUME NEW p \in S
      PROVE  IsFiniteSet({p} \X (1..n[p]))
  <2>1. IsFiniteSet(1..n[p])
    BY ONLY FS_Interval
  <2> QED BY <2>1, FS_Singleton, FS_Product, Zenon
<1>5. \A X \in T : IsFiniteSet(X)
  BY <1>4, Zenon
<1>6. IsFiniteSet(UNION T)
  <2> HIDE DEF T
  <2> QED BY <1>3, <1>5, FS_UNION, Zenon
<1> QED BY <1>6, FS_CardinalityType, Zenon DEF Tokens

(* The tokens of one element count apart from those of the others.         *)
LEMMA TokensApart ==
  ASSUME NEW D, IsFiniteSet(D), NEW n \in [D -> Nat], NEW p \in D
  PROVE  Cardinality(Tokens(n, D)) = Cardinality(Tokens(n, D \ {p})) + n[p]
<1> DEFINE mine == {p} \X (1..n[p])
<1> DEFINE rest == Tokens(n, D \ {p})
<1>1. IsFiniteSet(mine) /\ Cardinality(mine) = n[p]
  <2>1. IsFiniteSet(1..n[p]) /\ Cardinality(1..n[p]) = n[p]
    BY ONLY FS_Interval
  <2>2. IsFiniteSet({p}) /\ Cardinality({p}) = 1
    BY FS_Singleton, Zenon
  <2>3. IsFiniteSet(mine) /\ Cardinality(mine) = Cardinality({p}) * Cardinality(1..n[p])
    BY <2>1, <2>2, FS_Product, Zenon
  <2>4. Cardinality(mine) = 1 * n[p]
    BY <2>1, <2>2, <2>3, Zenon
  <2>5. 1 * n[p] = n[p]
    OBVIOUS
  <2> QED BY <2>3, <2>4, <2>5, Zenon
<1>2. IsFiniteSet(rest) /\ Cardinality(rest) \in Nat
  BY TokensFinite, Zenon
<1>3. Tokens(n, D) = rest \cup mine
  BY Zenon DEF Tokens
<1>4. rest \cap mine = {}
  BY DEF Tokens
<1>5. Cardinality(rest \cup mine) = Cardinality(rest) + Cardinality(mine) - Cardinality(rest \cap mine)
  <2> HIDE DEF rest, mine
  <2> QED BY <1>1, <1>2, FS_Union, Zenon
<1>6. Cardinality(rest \cap mine) = 0
  BY <1>4, FS_EmptySet, Zenon
<1> QED BY ONLY <1>1, <1>2, <1>3, <1>5, <1>6

(* When only the number of p changes, so does the whole.                   *)
LEMMA TokensMove ==
  ASSUME NEW D, IsFiniteSet(D), NEW n \in [D -> Nat], NEW m \in [D -> Nat], NEW p \in D,
         \A q \in D \ {p} : m[q] = n[q]
  PROVE  Cardinality(Tokens(m, D)) + n[p] = Cardinality(Tokens(n, D)) + m[p]
<1>1. Tokens(m, D \ {p}) = Tokens(n, D \ {p})
  BY Zenon DEF Tokens
<1>2. Cardinality(Tokens(n, D \ {p})) \in Nat
  BY TokensFinite, Zenon
<1> QED BY <1>1, <1>2, TokensApart

(* No element has more tokens than there are.                              *)
LEMMA TokensOfOne ==
  ASSUME NEW D, IsFiniteSet(D), NEW n \in [D -> Nat], NEW p \in D
  PROVE  n[p] <= Cardinality(Tokens(n, D))
<1>1. Cardinality(Tokens(n, D \ {p})) \in Nat
  BY TokensFinite, Zenon
<1> QED BY <1>1, TokensApart

-----------------------------------------------------------------------------
(* The inductive invariant.                                                *)

(* Where a process has changed its copy of a block, has still to count or  *)
(* write it, and where it takes counts off.                                *)
Counting == {"incQuery", "incWrite", "write"}
Holding == Counting \cup {"relWrite"}
Deducting == {"decQuery", "decWrite"}

CopiesOK(p) ==
  /\ pc[p] \in Holding =>
       /\ obj[p] \in BlockRows
       /\ p \in blkCur[blk[p]] => block[blk[p]] = obj[p]
       /\ "ReleaseAffinity" \in Ops \/ obj[p].aff
  /\ pc[p] \in {"incWrite", "decWrite"} /\ hobj[p] # NoHandle /\ p \in hdlCur[hdl[p]] =>
       handle[hdl[p]] = hobj[p]

TakingOK(p) ==
  /\ pc[p] \in Counting => op[p] \in {"AutoAssign", "AssignIP", "MoveIPToHandle"}
  /\ pc[p] \in Counting /\ op[p] # "MoveIPToHandle" =>
       take[p] \subseteq FreeIn(obj[p]) /\ Cardinality(take[p]) <= want[p]
  /\ pc[p] \in Counting /\ op[p] = "MoveIPToHandle" =>
       obj[p].ips[OrdinalOf(p)] \notin {Free, hdl[p]}
  /\ op[p] \in {"AssignIP", "MoveIPToHandle"} => want[p] = 1 /\ \E o \in Ordinals : take[p] = {o}

FlowOK(p) ==
  /\ pc[p] = "find" => op[p] = "AutoAssign"
  /\ ret[p] \in {"idle", "find", "query", "nextBlock"}
  /\ pc[p] \in Deducting /\ ret[p] = "find" => op[p] = "AutoAssign"
  /\ op[p] = "ReleaseByHandle" => "ReleaseByHandle" \in Ops

RowsOK == \A b \in Blocks : block[b] # NoBlock => "ReleaseAffinity" \in Ops \/ block[b].aff

AccountsOK ==
  /\ TypeOK
  /\ RowsOK
  /\ \A p \in Procs : CopiesOK(p) /\ TakingOK(p) /\ FlowOK(p)
  /\ ClaimsCovered

-----------------------------------------------------------------------------
(* A step of p changes the locals of p only, and a row only when it makes  *)
(* the copies of the others old.                                           *)
OthersKeep(p) ==
  \A q \in Procs \ {p} :
    /\ pc'[q] = pc[q] /\ op'[q] = op[q] /\ hdl'[q] = hdl[q] /\ blk'[q] = blk[q]
    /\ want'[q] = want[q] /\ take'[q] = take[q] /\ obj'[q] = obj[q] /\ hobj'[q] = hobj[q]
    /\ due'[q] = due[q] /\ ret'[q] = ret[q]
    /\ \A b \in Blocks : q \in blkCur'[b] => q \in blkCur[b] /\ block'[b] = block[b]
    /\ \A h \in Handles : q \in hdlCur'[h] => q \in hdlCur[h] /\ handle'[h] = handle[h]

(* What p does to the sum that ClaimsCovered bounds.                       *)
Balanced(p) ==
  \A h \in Handles, b \in Blocks :
    Cardinality(Allocs(h, b)') + InFlight(p, h, b)' + Count(h, b)
      <= Cardinality(Allocs(h, b)) + InFlight(p, h, b) + Count(h, b)'

(* The amounts are numbers.                                                *)
LEMMA AmountTypes ==
  ASSUME TypeOK, NEW h \in Handles, NEW b \in Blocks
  PROVE  /\ \A p \in Procs : InFlight(p, h, b) \in Nat
         /\ Count(h, b) \in Nat
         /\ IsFiniteSet(Allocs(h, b)) /\ Cardinality(Allocs(h, b)) \in Nat
         /\ Owed(h, b) = Tokens([p \in Procs |-> InFlight(p, h, b)], Procs)
<1>1. ASSUME NEW p \in Procs PROVE InFlight(p, h, b) \in Nat
  <2>1. want[p] \in Nat /\ due[p] \in [Handles -> Nat]
    BY Zenon DEF TypeOK
  <2> QED BY ONLY <2>1 DEF InFlight
<1>2. Count(h, b) \in Nat
  BY Zenon DEF TypeOK, Hdl!StoreTypeOK, HandleRows, Count
<1>3. Allocs(h, b) \in SUBSET Ordinals
  BY Zenon DEF Allocs, Held
<1>4. IsFiniteSet(Allocs(h, b)) /\ Cardinality(Allocs(h, b)) \in Nat
  BY <1>3, HandlesAssumption, FS_Subset, FS_CardinalityType, Zenon
<1>5. Owed(h, b) = Tokens([p \in Procs |-> InFlight(p, h, b)], Procs)
  BY Zenon DEF Owed, Tokens
<1> QED BY <1>1, <1>2, <1>4, <1>5, Zenon

(* And they stay numbers.                                                  *)
LEMMA AmountTypesNext ==
  ASSUME TypeOK', NEW h \in Handles, NEW b \in Blocks
  PROVE  /\ \A p \in Procs : InFlight(p, h, b)' \in Nat
         /\ Count(h, b)' \in Nat
         /\ IsFiniteSet(Allocs(h, b)') /\ Cardinality(Allocs(h, b)') \in Nat
<1>1. ASSUME NEW p \in Procs PROVE InFlight(p, h, b)' \in Nat
  <2>1. want'[p] \in Nat /\ due'[p] \in [Handles -> Nat]
    BY Zenon DEF TypeOK
  <2> QED BY ONLY <2>1 DEF InFlight
<1>2. Count(h, b)' \in Nat
  BY Zenon DEF TypeOK, Hdl!StoreTypeOK, HandleRows, Count
<1>3. Allocs(h, b)' \in SUBSET Ordinals
  BY Zenon DEF Allocs, Held
<1>4. IsFiniteSet(Allocs(h, b)') /\ Cardinality(Allocs(h, b)') \in Nat
  BY <1>3, HandlesAssumption, FS_Subset, FS_CardinalityType, Zenon
<1> QED BY <1>1, <1>2, <1>4, Zenon

(* A balanced step keeps the counts high enough.                           *)
LEMMA BalancedKeeps ==
  ASSUME TypeOK, TypeOK', ClaimsCovered, NEW p \in Procs, OthersKeep(p), Balanced(p)
  PROVE  ClaimsCovered'
<1> SUFFICES ASSUME NEW h \in Handles, NEW b \in Blocks
             PROVE  Cardinality(Allocs(h, b)') + Cardinality(Owed(h, b)') <= Count(h, b)'
  BY Zenon DEF ClaimsCovered
<1> DEFINE n == [q \in Procs |-> InFlight(q, h, b)]
<1> DEFINE m == [q \in Procs |-> InFlight(q, h, b)']
<1>1. n \in [Procs -> Nat] /\ Owed(h, b) = Tokens(n, Procs)
  BY AmountTypes, Zenon
<1>2. m \in [Procs -> Nat] /\ Owed(h, b)' = Tokens(m, Procs)
  <2>1. \A q \in Procs : InFlight(q, h, b)' \in Nat
    BY AmountTypesNext, Zenon
  <2>2. Owed(h, b)' = Tokens(m, Procs)
    BY Zenon DEF Owed, Tokens
  <2> QED BY <2>1, <2>2, Zenon
<1>3. \A q \in Procs \ {p} : m[q] = n[q]
  BY DEF OthersKeep, InFlight
<1>4. n[p] = InFlight(p, h, b) /\ m[p] = InFlight(p, h, b)'
  BY Zenon
<1> HIDE DEF n, m
<1>5. Cardinality(Owed(h, b)') + n[p] = Cardinality(Owed(h, b)) + m[p]
  BY ONLY <1>1, <1>2, <1>3, TokensMove, HandlesAssumption
<1>6. Cardinality(Owed(h, b)) \in Nat /\ Cardinality(Owed(h, b)') \in Nat
  BY <1>1, <1>2, TokensFinite, HandlesAssumption, Zenon
<1>7. /\ Cardinality(Allocs(h, b)) \in Nat /\ Cardinality(Allocs(h, b)') \in Nat
      /\ Count(h, b) \in Nat /\ Count(h, b)' \in Nat
  BY AmountTypes, AmountTypesNext, Zenon
<1>8. Cardinality(Allocs(h, b)) + Cardinality(Owed(h, b)) <= Count(h, b)
  BY Zenon DEF ClaimsCovered
<1>9. Cardinality(Allocs(h, b)') + m[p] + Count(h, b) <= Cardinality(Allocs(h, b)) + n[p] + Count(h, b)'
  BY <1>4, Zenon DEF Balanced
<1>10. n[p] \in Nat /\ m[p] \in Nat
  BY <1>1, <1>2, Zenon
<1> QED BY ONLY <1>5, <1>6, <1>7, <1>8, <1>9, <1>10

(* Nothing happens to the other processes.                                 *)
LEMMA OthersOK ==
  ASSUME AccountsOK, NEW p \in Procs, OthersKeep(p), NEW q \in Procs \ {p}
  PROVE  CopiesOK(q)' /\ TakingOK(q)' /\ FlowOK(q)'
<1>1. blk[q] \in Blocks /\ hdl[q] \in Handles
  BY Zenon DEF AccountsOK, TypeOK
<1>2. CopiesOK(q) /\ TakingOK(q) /\ FlowOK(q)
  BY Zenon DEF AccountsOK
<1>3. CopiesOK(q)'
  BY <1>1, <1>2 DEF OthersKeep, CopiesOK
<1>4. OrdinalOf(q)' = OrdinalOf(q)
  BY DEF OthersKeep, OrdinalOf
<1>5. TakingOK(q)'
  BY <1>2, <1>4 DEF OthersKeep, TakingOK, FreeIn
<1>6. FlowOK(q)'
  BY <1>2, Zenon DEF OthersKeep, FlowOK
<1> QED BY <1>3, <1>5, <1>6, Zenon

(* What is left to show of a step of p.                                    *)
LEMMA StepOK ==
  ASSUME AccountsOK, NEW p \in Procs, OthersKeep(p), TypeOK', RowsOK', Balanced(p),
         CopiesOK(p)', TakingOK(p)', FlowOK(p)'
  PROVE  AccountsOK'
<1>1. ClaimsCovered'
  BY BalancedKeeps, Zenon DEF AccountsOK
<1>2. \A q \in Procs : (CopiesOK(q) /\ TakingOK(q) /\ FlowOK(q))'
  BY OthersOK, Zenon
<1> QED BY <1>1, <1>2, Zenon DEF AccountsOK

(* A step of p changes the locals of p only, and within their types.       *)
Mine(p) ==
  /\ pc' = [pc EXCEPT ![p] = pc'[p]] /\ pc'[p] \in Labels
  /\ op' = [op EXCEPT ![p] = op'[p]] /\ op'[p] \in AllOps \cup {"none"}
  /\ hdl' = [hdl EXCEPT ![p] = hdl'[p]] /\ hdl'[p] \in Handles
  /\ blk' = [blk EXCEPT ![p] = blk'[p]] /\ blk'[p] \in Blocks
  /\ num' = [num EXCEPT ![p] = num'[p]] /\ num'[p] \in Nat
  /\ want' = [want EXCEPT ![p] = want'[p]] /\ want'[p] \in Nat
  /\ take' = [take EXCEPT ![p] = take'[p]] /\ take'[p] \in SUBSET Ordinals
  /\ obj' = [obj EXCEPT ![p] = obj'[p]] /\ obj'[p] \in BlockRows \cup {NoBlock}
  /\ hobj' = [hobj EXCEPT ![p] = hobj'[p]] /\ hobj'[p] \in HandleRows \cup {NoHandle}
  /\ due' = [due EXCEPT ![p] = due'[p]] /\ due'[p] \in [Handles -> Nat]
  /\ ret' = [ret EXCEPT ![p] = ret'[p]] /\ ret'[p] \in Labels
  /\ left' = [left EXCEPT ![p] = left'[p]] /\ left'[p] \in SUBSET Blocks
  /\ pc'[p] \in {"write", "relWrite"} => obj'[p] \in BlockRows
  /\ pc'[p] = "decWrite" => hobj'[p] \in HandleRows

(* And a row only when it makes the copies of the others old.              *)
StoresKeep(p) ==
  /\ Blk!StoreTypeOK' /\ Hdl!StoreTypeOK'
  /\ \A q \in Procs \ {p} :
       /\ \A b \in Blocks : q \in blkCur'[b] => q \in blkCur[b] /\ block'[b] = block[b]
       /\ \A h \in Handles : q \in hdlCur'[h] => q \in hdlCur[h] /\ handle'[h] = handle[h]

(* The types, from what the step does to p and to the stores.              *)
LEMMA MineTypes ==
  ASSUME TypeOK, NEW p \in Procs, Mine(p), Blk!StoreTypeOK', Hdl!StoreTypeOK'
  PROVE  TypeOK'
<1>2. pc' \in [Procs -> Labels]
  BY Zenon DEF TypeOK, Mine
<1>3. op' \in [Procs -> AllOps \cup {"none"}]
  BY ZenonT(30) DEF TypeOK, Mine
<1>4. hdl' \in [Procs -> Handles]
  BY Zenon DEF TypeOK, Mine
<1>5. blk' \in [Procs -> Blocks]
  BY Zenon DEF TypeOK, Mine
<1>6. num' \in [Procs -> Nat]
  BY Zenon DEF TypeOK, Mine
<1>7. want' \in [Procs -> Nat]
  BY Zenon DEF TypeOK, Mine
<1>8. take' \in [Procs -> SUBSET Ordinals]
  BY Zenon DEF TypeOK, Mine
<1>9. obj' \in [Procs -> BlockRows \cup {NoBlock}]
  BY Zenon DEF TypeOK, Mine
<1>10. hobj' \in [Procs -> HandleRows \cup {NoHandle}]
  BY Zenon DEF TypeOK, Mine
<1>11. due' \in [Procs -> [Handles -> Nat]]
  BY Zenon DEF TypeOK, Mine
<1>12. ret' \in [Procs -> Labels]
  BY Zenon DEF TypeOK, Mine
<1>13. left' \in [Procs -> SUBSET Blocks]
  BY Zenon DEF TypeOK, Mine
<1>14. ASSUME NEW q \in Procs
       PROVE  /\ pc'[q] \in {"write", "relWrite"} => obj'[q] \in BlockRows
              /\ pc'[q] = "decWrite" => hobj'[q] \in HandleRows
  <2>1. q # p => pc'[q] = pc[q] /\ obj'[q] = obj[q] /\ hobj'[q] = hobj[q]
    BY DEF TypeOK, Mine
  <2> QED BY <2>1, Zenon DEF TypeOK, Mine
<1> QED BY <1>2, <1>3, <1>4, <1>5, <1>6, <1>7, <1>8, <1>9, <1>10, <1>11, <1>12, <1>13, <1>14, Zenon
        DEF TypeOK

(* And what is left of OthersKeep is about the stores.                     *)
LEMMA MineKeeps ==
  ASSUME TypeOK, NEW p \in Procs, Mine(p), StoresKeep(p)
  PROVE  OthersKeep(p)
<1>1. ASSUME NEW q \in Procs \ {p}
      PROVE  /\ pc'[q] = pc[q] /\ op'[q] = op[q] /\ hdl'[q] = hdl[q] /\ blk'[q] = blk[q]
             /\ want'[q] = want[q] /\ take'[q] = take[q] /\ obj'[q] = obj[q] /\ hobj'[q] = hobj[q]
             /\ due'[q] = due[q] /\ ret'[q] = ret[q]
  BY DEF TypeOK, Mine
<1> QED BY <1>1 DEF OthersKeep, StoresKeep

(* A call of p to the block rows keeps their types and the copies of others.*)
LEMMA BlkStep ==
  ASSUME TypeOK, NEW p \in Procs, NEW k \in Blocks, NEW v \in BlockRows,
         \/ Blk!Get(p, k) \/ Blk!Create(p, k, v) \/ Blk!Update(p, k, v) \/ Blk!Delete(p, k)
         \/ Blk!AlreadyExists(k) \/ Blk!DoesNotExist(k) \/ Blk!UpdateConflict(p, k)
         \/ UNCHANGED <<block, blkCur>>
  PROVE  /\ Blk!StoreTypeOK'
         /\ \A q \in Procs \ {p}, c \in Blocks :
              q \in blkCur'[c] => q \in blkCur[c] /\ block'[c] = block[c]
<1>0. block \in [Blocks -> BlockRows \cup {NoBlock}] /\ blkCur \in [Blocks -> SUBSET Procs]
  BY Zenon DEF TypeOK, Blk!StoreTypeOK
<1>1. CASE Blk!Get(p, k)
  BY <1>0, <1>1, Zenon DEF Blk!StoreTypeOK, Blk!Get
<1>2. CASE Blk!Create(p, k, v) \/ Blk!Update(p, k, v) \/ Blk!Delete(p, k)
  BY ONLY <1>0, <1>2 DEF Blk!StoreTypeOK, Blk!Create, Blk!Update, Blk!Delete
<1>3. CASE UNCHANGED <<block, blkCur>>
  BY <1>0, <1>3, Zenon DEF Blk!StoreTypeOK
<1> QED BY <1>1, <1>2, <1>3, Zenon DEF Blk!AlreadyExists, Blk!DoesNotExist, Blk!UpdateConflict,
   Blk!storeVars

(* A call of p to the handle rows keeps their types and the copies of others.*)
LEMMA HdlStep ==
  ASSUME TypeOK, NEW p \in Procs, NEW k \in Handles, NEW v \in HandleRows,
         \/ Hdl!Get(p, k) \/ Hdl!Create(p, k, v) \/ Hdl!Update(p, k, v) \/ Hdl!Delete(p, k)
         \/ Hdl!AlreadyExists(k) \/ Hdl!DoesNotExist(k) \/ Hdl!UpdateConflict(p, k)
         \/ UNCHANGED <<handle, hdlCur>>
  PROVE  /\ Hdl!StoreTypeOK'
         /\ \A q \in Procs \ {p}, c \in Handles :
              q \in hdlCur'[c] => q \in hdlCur[c] /\ handle'[c] = handle[c]
<1>0. handle \in [Handles -> HandleRows \cup {NoHandle}] /\ hdlCur \in [Handles -> SUBSET Procs]
  BY Zenon DEF TypeOK, Hdl!StoreTypeOK
<1>1. CASE Hdl!Get(p, k)
  BY <1>0, <1>1, Zenon DEF Hdl!StoreTypeOK, Hdl!Get
<1>2. CASE Hdl!Create(p, k, v) \/ Hdl!Update(p, k, v) \/ Hdl!Delete(p, k)
  BY ONLY <1>0, <1>2 DEF Hdl!StoreTypeOK, Hdl!Create, Hdl!Update, Hdl!Delete
<1>3. CASE UNCHANGED <<handle, hdlCur>>
  BY <1>0, <1>3, Zenon DEF Hdl!StoreTypeOK
<1> QED BY <1>1, <1>2, <1>3, Zenon DEF Hdl!AlreadyExists, Hdl!DoesNotExist, Hdl!UpdateConflict,
   Hdl!storeVars

(* There are rows of either kind.                                          *)
LEMMA SomeRows == (\E v : v \in BlockRows) /\ (\E v : v \in HandleRows)
<1>1. [aff |-> TRUE, ips |-> [o \in Ordinals |-> Free]] \in BlockRows
  BY Zenon DEF BlockRows
<1>2. NewRow \in HandleRows
  BY Zenon DEF NewRow, HandleRows
<1> QED BY <1>1, <1>2, Zenon

(* Together.                                                               *)
LEMMA MineStep ==
  ASSUME TypeOK, NEW p \in Procs, Mine(p), StoresKeep(p)
  PROVE  TypeOK' /\ OthersKeep(p)
  BY MineTypes, MineKeeps, Zenon DEF StoresKeep

(* A process that goes on to neither owes nothing.                         *)
LEMMA NothingOwed ==
  ASSUME NEW p \in Procs, pc'[p] \notin {"write", "decQuery", "decWrite"}, NEW h, NEW b
  PROVE  InFlight(p, h, b)' = 0
  BY DEF InFlight

(* A step that writes no row and owes no more than before.                 *)
LEMMA QuietBalance ==
  ASSUME AccountsOK, NEW p \in Procs, OthersKeep(p), TypeOK', UNCHANGED <<block, handle>>,
         CopiesOK(p)', TakingOK(p)', FlowOK(p)',
         \A h \in Handles, b \in Blocks : InFlight(p, h, b)' <= InFlight(p, h, b)
  PROVE  AccountsOK'
<1>1. RowsOK'
  BY Zenon DEF AccountsOK, RowsOK
<1>2. ASSUME NEW h \in Handles, NEW b \in Blocks
      PROVE  Cardinality(Allocs(h, b)') + InFlight(p, h, b)' + Count(h, b)
               <= Cardinality(Allocs(h, b)) + InFlight(p, h, b) + Count(h, b)'
  <2>1. Allocs(h, b)' = Allocs(h, b) /\ Count(h, b)' = Count(h, b)
    BY Zenon DEF Allocs, Held, Count
  <2>2. /\ Cardinality(Allocs(h, b)) \in Nat /\ Count(h, b) \in Nat
        /\ InFlight(p, h, b) \in Nat /\ InFlight(p, h, b)' \in Nat
    BY AmountTypes, AmountTypesNext, Zenon DEF AccountsOK
  <2> QED BY <2>1, <2>2
<1>3. Balanced(p)
  BY <1>2, Zenon DEF Balanced
<1> QED BY <1>1, <1>3, StepOK, Zenon

(* Most such steps leave the process owing nothing.                        *)
LEMMA QuietStep ==
  ASSUME AccountsOK, NEW p \in Procs, OthersKeep(p), TypeOK', UNCHANGED <<block, handle>>,
         CopiesOK(p)', TakingOK(p)', FlowOK(p)', pc'[p] \notin {"write", "decQuery", "decWrite"}
  PROVE  AccountsOK'
<1>1. ASSUME NEW h \in Handles, NEW b \in Blocks
      PROVE  InFlight(p, h, b)' <= InFlight(p, h, b)
  <2>1. InFlight(p, h, b) \in Nat
    BY AmountTypes, Zenon DEF AccountsOK
  <2> QED BY <2>1, NothingOwed
<1> QED BY <1>1, QuietBalance, Zenon

(* Return, or death, forgets everything.                                   *)
LEMMA ReturnOK ==
  ASSUME AccountsOK, NEW p \in Procs, Return(p)
  PROVE  AccountsOK' /\ OthersKeep(p)
<1>0. TypeOK /\ RowsOK /\ CopiesOK(p) /\ TakingOK(p) /\ FlowOK(p)
  BY Zenon DEF AccountsOK
<1> USE DEF Set, Goto, At, Return, Zero, Blk!Forget, Hdl!Forget
<1>1. UNCHANGED <<block, handle>>
  BY Zenon
<1>2. Mine(p)
  BY <1>0 DEF TypeOK, Blk!StoreTypeOK, Hdl!StoreTypeOK, Mine, Labels, AllOps
<1>3. TypeOK' /\ OthersKeep(p)
  <2>1. StoresKeep(p)
    BY <1>0, Zenon DEF TypeOK, StoresKeep, Blk!StoreTypeOK, Hdl!StoreTypeOK
  <2> QED BY <1>0, <1>2, <2>1, MineStep, Zenon
<1>4. CopiesOK(p)'
  BY <1>0, Zenon DEF TypeOK, Blk!StoreTypeOK, Hdl!StoreTypeOK, CopiesOK, RowsOK, Holding, Counting
<1>5. TakingOK(p)'
  BY <1>0, Zenon DEF TypeOK, TakingOK, Counting, OrdinalOf, FreeIn
<1>6. FlowOK(p)'
  BY <1>0, Zenon DEF TypeOK, FlowOK, Deducting
<1>7. pc'[p] \notin {"write", "decQuery", "decWrite"}
  BY <1>0, Zenon DEF TypeOK
<1> QED BY <1>0, <1>1, <1>2, <1>3, <1>4, <1>5, <1>6, <1>7, QuietStep, Zenon

(* An assignment starts.                                                   *)
LEMMA BeginAutoAssignOK ==
  ASSUME AccountsOK, NEW p \in Procs, BeginAutoAssign(p)
  PROVE  AccountsOK' /\ OthersKeep(p)
<1>0. TypeOK /\ RowsOK /\ CopiesOK(p) /\ TakingOK(p) /\ FlowOK(p)
  BY Zenon DEF AccountsOK
<1> USE DEF Set, Goto, At, BeginAutoAssign, Begin, stores
<1>1. UNCHANGED <<block, handle>>
  BY Zenon
<1>2. Mine(p)
  BY <1>0, HandlesAssumption DEF TypeOK, Blk!StoreTypeOK, Hdl!StoreTypeOK, Mine, Labels, AllOps
<1>3. TypeOK' /\ OthersKeep(p)
  <2>1. StoresKeep(p)
    BY <1>0, Zenon DEF TypeOK, StoresKeep, Blk!StoreTypeOK, Hdl!StoreTypeOK
  <2> QED BY <1>0, <1>2, <2>1, MineStep, Zenon
<1>4. CopiesOK(p)'
  BY <1>0, Zenon DEF TypeOK, Blk!StoreTypeOK, Hdl!StoreTypeOK, CopiesOK, RowsOK, Holding, Counting
<1>5. TakingOK(p)'
  BY <1>0, Zenon DEF TypeOK, TakingOK, Counting, OrdinalOf, FreeIn
<1>6. FlowOK(p)'
  BY <1>0, Zenon DEF TypeOK, FlowOK, Deducting
<1>7. pc'[p] \notin {"write", "decQuery", "decWrite"}
  BY <1>0, Zenon DEF TypeOK
<1> QED BY <1>0, <1>1, <1>2, <1>3, <1>4, <1>5, <1>6, <1>7, QuietStep, Zenon

(* So does one of a given address, or a move.                              *)
LEMMA BeginOnAddressOK ==
  ASSUME AccountsOK, NEW p \in Procs, BeginAssignIP(p) \/ BeginMoveIPToHandle(p)
  PROVE  AccountsOK' /\ OthersKeep(p)
<1>0. TypeOK /\ RowsOK /\ CopiesOK(p) /\ TakingOK(p) /\ FlowOK(p)
  BY Zenon DEF AccountsOK
<1> USE DEF Set, Goto, At, BeginAssignIP, BeginMoveIPToHandle, BeginOnAddress, Begin, stores
<1>1. UNCHANGED <<block, handle>>
  BY Zenon
<1>2. Mine(p)
  BY <1>0, HandlesAssumption DEF TypeOK, Blk!StoreTypeOK, Hdl!StoreTypeOK, Mine,
     Labels, AllOps
<1>3. TypeOK' /\ OthersKeep(p)
  <2>1. StoresKeep(p)
    BY <1>0 DEF TypeOK, StoresKeep, Blk!StoreTypeOK, Hdl!StoreTypeOK
  <2> QED BY <1>0, <1>2, <2>1, MineStep, Zenon
<1>4. CopiesOK(p)'
  BY <1>0 DEF TypeOK, Blk!StoreTypeOK, Hdl!StoreTypeOK, CopiesOK, RowsOK, Holding, Counting
<1>5. TakingOK(p)'
  BY <1>0, Zenon DEF TypeOK, TakingOK, Counting, OrdinalOf, FreeIn
<1>6. FlowOK(p)'
  BY <1>0 DEF TypeOK, FlowOK, Deducting
<1>7. pc'[p] \notin {"write", "decQuery", "decWrite"}
  BY <1>0, ZenonT(30) DEF TypeOK
<1> QED BY <1>0, <1>1, <1>2, <1>3, <1>4, <1>5, <1>6, <1>7, QuietStep, Zenon

(* Or a release.                                                           *)
LEMMA BeginReleaseIPsOK ==
  ASSUME AccountsOK, NEW p \in Procs, BeginReleaseIPs(p)
  PROVE  AccountsOK' /\ OthersKeep(p)
<1>0. TypeOK /\ RowsOK /\ CopiesOK(p) /\ TakingOK(p) /\ FlowOK(p)
  BY Zenon DEF AccountsOK
<1> USE DEF Set, Goto, At, BeginReleaseIPs, Begin, stores
<1>1. UNCHANGED <<block, handle>>
  BY Zenon
<1>2. Mine(p)
  BY <1>0 DEF TypeOK, Blk!StoreTypeOK, Hdl!StoreTypeOK, Mine, Labels, AllOps
<1>3. TypeOK' /\ OthersKeep(p)
  <2>1. StoresKeep(p)
    BY <1>0, Zenon DEF TypeOK, StoresKeep, Blk!StoreTypeOK, Hdl!StoreTypeOK
  <2> QED BY <1>0, <1>2, <2>1, MineStep, Zenon
<1>4. CopiesOK(p)'
  BY <1>0, Zenon DEF TypeOK, Blk!StoreTypeOK, Hdl!StoreTypeOK, CopiesOK, RowsOK, Holding, Counting
<1>5. TakingOK(p)'
  BY <1>0, Zenon DEF TypeOK, TakingOK, Counting, OrdinalOf, FreeIn
<1>6. FlowOK(p)'
  BY <1>0, ZenonT(30) DEF TypeOK, FlowOK, Deducting
<1>7. pc'[p] \notin {"write", "decQuery", "decWrite"}
  BY <1>0, Zenon DEF TypeOK
<1> QED BY <1>0, <1>1, <1>2, <1>3, <1>4, <1>5, <1>6, <1>7, QuietStep, Zenon

(* Or a release by handle.                                                 *)
LEMMA BeginReleaseByHandleOK ==
  ASSUME AccountsOK, NEW p \in Procs, BeginReleaseByHandle(p)
  PROVE  AccountsOK' /\ OthersKeep(p)
<1>0. TypeOK /\ RowsOK /\ CopiesOK(p) /\ TakingOK(p) /\ FlowOK(p)
  BY Zenon DEF AccountsOK
<1> USE DEF Set, Goto, At, BeginReleaseByHandle, Begin, stores
<1>1. UNCHANGED <<block, handle>>
  BY Zenon
<1>2. Mine(p)
  BY <1>0 DEF TypeOK, Blk!StoreTypeOK, Hdl!StoreTypeOK, Mine, Labels, AllOps
<1>3. TypeOK' /\ OthersKeep(p)
  <2>1. StoresKeep(p)
    BY <1>0, Zenon DEF TypeOK, StoresKeep, Blk!StoreTypeOK, Hdl!StoreTypeOK
  <2> QED BY <1>0, <1>2, <2>1, MineStep, Zenon
<1>4. CopiesOK(p)'
  BY <1>0, Zenon DEF TypeOK, Blk!StoreTypeOK, Hdl!StoreTypeOK, CopiesOK, RowsOK, Holding, Counting
<1>5. TakingOK(p)'
  BY <1>0, Zenon DEF TypeOK, TakingOK, Counting, OrdinalOf, FreeIn
<1>6. FlowOK(p)'
  BY <1>0, ZenonT(30) DEF TypeOK, FlowOK, Deducting
<1>7. pc'[p] \notin {"write", "decQuery", "decWrite"}
  BY <1>0, Zenon DEF TypeOK
<1> QED BY <1>0, <1>1, <1>2, <1>3, <1>4, <1>5, <1>6, <1>7, QuietStep, Zenon

(* A block is read, and addresses taken in the copy.                       *)
LEMMA FindBlockOK ==
  ASSUME AccountsOK, NEW p \in Procs, FindBlock(p)
  PROVE  AccountsOK' /\ OthersKeep(p)
<1>0. TypeOK /\ RowsOK /\ CopiesOK(p) /\ TakingOK(p) /\ FlowOK(p)
  BY Zenon DEF AccountsOK
<1> USE DEF Set, Goto, At, FindBlock, AutoAssignFrom, Taking, FreeIn, queryBlock, SameHandles, Blk!Get
<1>1. UNCHANGED <<block, handle>>
  BY Zenon
<1>2. Mine(p)
  BY <1>0 DEF TypeOK, Blk!StoreTypeOK, Hdl!StoreTypeOK, Mine, Labels, AllOps
<1>3. TypeOK' /\ OthersKeep(p)
  <2>1. StoresKeep(p)
    BY <1>0 DEF TypeOK, StoresKeep, Blk!StoreTypeOK, Hdl!StoreTypeOK
  <2> QED BY <1>0, <1>2, <2>1, MineStep, Zenon
<1>4. CopiesOK(p)'
  BY <1>0 DEF TypeOK, Blk!StoreTypeOK, Hdl!StoreTypeOK, CopiesOK, RowsOK,
     Holding, Counting
<1>5. TakingOK(p)'
  <2>1. CASE pc'[p] = "find"
    BY <1>0, <2>1, ZenonT(30) DEF TypeOK, TakingOK, FlowOK, Counting
  <2>2. CASE pc'[p] = "incQuery"
    <3> HIDE DEF Taking, FreeIn, Blk!Get, SameHandles
    <3>1. PICK b \in Blocks : take'[p] \in Taking(p, block[b]) /\ obj'[p] = block[b]
      BY <1>0, <2>2 DEF TypeOK
    <3>2. take'[p] \subseteq FreeIn(block[b]) /\ Cardinality(take'[p]) <= want[p]
      BY <3>1, Zenon DEF Taking
    <3>3. op'[p] = op[p] /\ op[p] = "AutoAssign" /\ want'[p] = want[p]
      BY <1>0, ZenonT(30) DEF FlowOK
    <3> QED BY <2>2, <3>1, <3>2, <3>3, Zenon DEF TakingOK
  <2> QED BY <1>0, <2>1, <2>2 DEF TypeOK
<1>6. FlowOK(p)'
  BY <1>0, ZenonT(30) DEF TypeOK, FlowOK, Deducting
<1>7. pc'[p] \notin {"write", "decQuery", "decWrite"}
  BY <1>0 DEF TypeOK
<1> QED BY <1>0, <1>1, <1>2, <1>3, <1>4, <1>5, <1>6, <1>7, QuietStep, Zenon

(* The same block is read again.                                           *)
LEMMA AutoAssignQueryOK ==
  ASSUME AccountsOK, NEW p \in Procs, AutoAssignQuery(p)
  PROVE  AccountsOK' /\ OthersKeep(p)
<1>0. TypeOK /\ RowsOK /\ CopiesOK(p) /\ TakingOK(p) /\ FlowOK(p)
  BY Zenon DEF AccountsOK
<1> USE DEF Set, Goto, At, AutoAssignQuery, Blk!DoesNotExist, Blk!storeVars, AutoAssignFrom, Taking, FreeIn, queryBlock, SameHandles, Blk!Get
<1>1. UNCHANGED <<block, handle>>
  BY Zenon
<1>2. Mine(p)
  BY <1>0 DEF TypeOK, Blk!StoreTypeOK, Hdl!StoreTypeOK, Mine, Labels, AllOps
<1>3. TypeOK' /\ OthersKeep(p)
  <2>1. Blk!Get(p, blk[p]) \/ Blk!DoesNotExist(blk[p])
    BY <1>0, Zenon DEF TypeOK
  <2>2. UNCHANGED <<handle, hdlCur>>
    BY <1>0, Zenon DEF TypeOK
  <2>3. blk[p] \in Blocks /\ hdl[p] \in Handles
    BY <1>0, Zenon DEF TypeOK
  <2>4. StoresKeep(p)
    BY <1>0, <2>1, <2>2, <2>3, BlkStep, HdlStep, SomeRows, Zenon DEF StoresKeep
  <2> QED BY <1>0, <1>2, <2>4, MineStep, Zenon
<1>4. CopiesOK(p)'
  BY <1>0 DEF TypeOK, Blk!StoreTypeOK, Hdl!StoreTypeOK, CopiesOK, RowsOK,
     Holding, Counting
<1>5. TakingOK(p)'
  <2>1. CASE pc'[p] = "find"
    BY <1>0, <2>1, ZenonT(30) DEF TypeOK, TakingOK, FlowOK, Counting
  <2>2. CASE pc'[p] = "incQuery"
    <3> HIDE DEF Taking, FreeIn, Blk!Get, SameHandles
    <3>1. PICK b \in Blocks : take'[p] \in Taking(p, block[b]) /\ obj'[p] = block[b]
      BY <1>0, <2>2 DEF TypeOK
    <3>2. take'[p] \subseteq FreeIn(block[b]) /\ Cardinality(take'[p]) <= want[p]
      BY <3>1, Zenon DEF Taking
    <3>3. op'[p] = op[p] /\ op[p] = "AutoAssign" /\ want'[p] = want[p]
      BY <1>0, Zenon DEF FlowOK
    <3> QED BY <2>2, <3>1, <3>2, <3>3, ZenonT(30) DEF TakingOK
  <2> QED BY <1>0, <2>1, <2>2, Zenon DEF TypeOK
<1>6. FlowOK(p)'
  BY <1>0, ZenonT(30) DEF TypeOK, FlowOK, Deducting
<1>7. pc'[p] \notin {"write", "decQuery", "decWrite"}
  BY <1>0, ZenonT(30) DEF TypeOK
<1> QED BY <1>0, <1>1, <1>2, <1>3, <1>4, <1>5, <1>6, <1>7, QuietStep, Zenon

(* AssignIP reads the block of its address.                                *)
LEMMA AssignIPQueryOK ==
  ASSUME AccountsOK, NEW p \in Procs, AssignIPQuery(p), ~Return(p)
  PROVE  AccountsOK' /\ OthersKeep(p)
<1>0. TypeOK /\ RowsOK /\ CopiesOK(p) /\ TakingOK(p) /\ FlowOK(p)
  BY Zenon DEF AccountsOK
<1> USE DEF Set, Goto, At, AssignIPQuery, queryBlock, Blk!Get, SameHandles
<1>1. UNCHANGED <<block, handle>>
  BY Zenon
<1>2. Mine(p)
  BY <1>0 DEF TypeOK, Blk!StoreTypeOK, Hdl!StoreTypeOK, Mine, Labels, AllOps
<1>3. TypeOK' /\ OthersKeep(p)
  <2>1. Blk!Get(p, blk[p])
    BY <1>0, ZenonT(30) DEF TypeOK
  <2>2. UNCHANGED <<handle, hdlCur>>
    BY <1>0, ZenonT(30) DEF TypeOK
  <2>3. blk[p] \in Blocks /\ hdl[p] \in Handles
    BY <1>0, Zenon DEF TypeOK
  <2>4. StoresKeep(p)
    BY <1>0, <2>1, <2>2, <2>3, BlkStep, HdlStep, SomeRows, Zenon DEF StoresKeep
  <2> QED BY <1>0, <1>2, <2>4, MineStep, Zenon
<1>4. CopiesOK(p)'
  BY <1>0 DEF TypeOK, Blk!StoreTypeOK, Hdl!StoreTypeOK, CopiesOK, RowsOK,
     Holding, Counting
<1>5. TakingOK(p)'
  <2>1. PICK o \in Ordinals : take[p] = {o}
    BY <1>0, Zenon DEF TakingOK
  <2>2. Cardinality(take[p]) = 1
    BY <2>1, FS_Singleton, Zenon
  <2> HIDE DEF Blk!Get, SameHandles
  <2> QED BY <1>0, <2>2 DEF TypeOK, TakingOK, Counting, OrdinalOf, FreeIn
<1>6. FlowOK(p)'
  BY <1>0, Zenon DEF TypeOK, FlowOK, Deducting
<1>7. pc'[p] \notin {"write", "decQuery", "decWrite"}
  BY <1>0, ZenonT(30) DEF TypeOK
<1> QED BY <1>0, <1>1, <1>2, <1>3, <1>4, <1>5, <1>6, <1>7, QuietStep, Zenon

(* MoveIPToHandle reads the block of its address.                          *)
LEMMA MoveQueryOK ==
  ASSUME AccountsOK, NEW p \in Procs, MoveQuery(p), ~Return(p)
  PROVE  AccountsOK' /\ OthersKeep(p)
<1>0. TypeOK /\ RowsOK /\ CopiesOK(p) /\ TakingOK(p) /\ FlowOK(p)
  BY Zenon DEF AccountsOK
<1> USE DEF Set, Goto, At, MoveQuery, queryBlock, Blk!Get, SameHandles
<1>1. UNCHANGED <<block, handle>>
  BY Zenon
<1>2. Mine(p)
  BY <1>0 DEF TypeOK, Blk!StoreTypeOK, Hdl!StoreTypeOK, Mine, Labels, AllOps
<1>3. TypeOK' /\ OthersKeep(p)
  <2>1. Blk!Get(p, blk[p])
    BY <1>0, ZenonT(30) DEF TypeOK
  <2>2. UNCHANGED <<handle, hdlCur>>
    BY <1>0, Zenon DEF TypeOK
  <2>3. blk[p] \in Blocks /\ hdl[p] \in Handles
    BY ONLY <1>0 DEF TypeOK
  <2>4. StoresKeep(p)
    BY <1>0, <2>1, <2>2, <2>3, BlkStep, HdlStep, SomeRows, Zenon DEF StoresKeep
  <2> QED BY <1>0, <1>2, <2>4, MineStep, Zenon
<1>4. CopiesOK(p)'
  BY <1>0 DEF TypeOK, Blk!StoreTypeOK, Hdl!StoreTypeOK, CopiesOK, RowsOK,
     Holding, Counting
<1>5. TakingOK(p)'
  BY <1>0, Zenon DEF TypeOK, TakingOK, Counting, OrdinalOf, FreeIn
<1>6. FlowOK(p)'
  BY <1>0, Zenon DEF TypeOK, FlowOK, Deducting
<1>7. pc'[p] \notin {"write", "decQuery", "decWrite"}
  BY <1>0, Zenon DEF TypeOK
<1> QED BY <1>0, <1>1, <1>2, <1>3, <1>4, <1>5, <1>6, <1>7, QuietStep, Zenon

(* A release reads the block.                                              *)
LEMMA RelQueryOK ==
  ASSUME AccountsOK, NEW p \in Procs, RelQuery(p), ~Return(p)
  PROVE  AccountsOK' /\ OthersKeep(p)
<1>0. TypeOK /\ RowsOK /\ CopiesOK(p) /\ TakingOK(p) /\ FlowOK(p)
  BY Zenon DEF AccountsOK
<1> USE DEF Set, Goto, At, RelQuery, NothingToRelease, queryBlock, Blk!Get, SameHandles, stores, locals
<1>1. UNCHANGED <<block, handle>>
  BY Zenon
<1>2. Mine(p)
  BY <1>0 DEF TypeOK, Blk!StoreTypeOK, Hdl!StoreTypeOK, Mine, Labels, AllOps
<1>3. TypeOK' /\ OthersKeep(p)
  <2>1. Blk!Get(p, blk[p]) \/ UNCHANGED <<block, blkCur>>
    BY <1>0, ZenonT(30) DEF TypeOK
  <2>2. UNCHANGED <<handle, hdlCur>>
    BY <1>0, ZenonT(30) DEF TypeOK
  <2>3. blk[p] \in Blocks /\ hdl[p] \in Handles
    BY <1>0, Zenon DEF TypeOK
  <2>4. StoresKeep(p)
    BY <1>0, <2>1, <2>2, <2>3, BlkStep, HdlStep, SomeRows, Zenon DEF StoresKeep
  <2> QED BY <1>0, <1>2, <2>4, MineStep, Zenon
<1>4. CopiesOK(p)'
  BY <1>0 DEF TypeOK, Blk!StoreTypeOK, Hdl!StoreTypeOK, CopiesOK, RowsOK,
     Holding, Counting
<1>5. TakingOK(p)'
  BY <1>0, Zenon DEF TypeOK, TakingOK, Counting, OrdinalOf, FreeIn
<1>6. FlowOK(p)'
  BY <1>0 DEF TypeOK, FlowOK, Deducting
<1>7. pc'[p] \notin {"write", "decQuery", "decWrite"}
  BY <1>0, ZenonT(30) DEF TypeOK
<1> QED BY <1>0, <1>1, <1>2, <1>3, <1>4, <1>5, <1>6, <1>7, QuietStep, Zenon

(* ReleaseByHandle goes to the next block.                                 *)
LEMMA NextBlockOK ==
  ASSUME AccountsOK, NEW p \in Procs, NextBlock(p), ~Return(p)
  PROVE  AccountsOK' /\ OthersKeep(p)
<1>0. TypeOK /\ RowsOK /\ CopiesOK(p) /\ TakingOK(p) /\ FlowOK(p)
  BY Zenon DEF AccountsOK
<1> USE DEF Set, Goto, At, NextBlock, stores
<1>1. UNCHANGED <<block, handle>>
  BY ZenonT(30)
<1>2. Mine(p)
  BY <1>0 DEF TypeOK, Blk!StoreTypeOK, Hdl!StoreTypeOK, Mine, Labels, AllOps
<1>3. TypeOK' /\ OthersKeep(p)
  <2>1. StoresKeep(p)
    BY <1>0, Zenon DEF TypeOK, StoresKeep, Blk!StoreTypeOK, Hdl!StoreTypeOK
  <2> QED BY <1>0, <1>2, <2>1, MineStep, Zenon
<1>4. CopiesOK(p)'
  BY <1>0 DEF TypeOK, Blk!StoreTypeOK, Hdl!StoreTypeOK, CopiesOK, RowsOK, Holding, Counting
<1>5. TakingOK(p)'
  BY <1>0, Zenon DEF TypeOK, TakingOK, Counting, OrdinalOf, FreeIn
<1>6. FlowOK(p)'
  BY <1>0, Zenon DEF TypeOK, FlowOK, Deducting
<1>7. pc'[p] \notin {"write", "decQuery", "decWrite"}
  BY <1>0, Zenon DEF TypeOK
<1> QED BY <1>0, <1>1, <1>2, <1>3, <1>4, <1>5, <1>6, <1>7, QuietStep, ZenonT(30)

(* A full handle: look again.                                              *)
LEMMA MaxAllocReachedOK ==
  ASSUME AccountsOK, NEW p \in Procs, MaxAllocReached(p), ~Return(p)
  PROVE  AccountsOK' /\ OthersKeep(p)
<1>0. TypeOK /\ RowsOK /\ CopiesOK(p) /\ TakingOK(p) /\ FlowOK(p)
  BY Zenon DEF AccountsOK
<1> USE DEF Set, Goto, At, MaxAllocReached, stores, locals
<1>1. UNCHANGED <<block, handle>>
  BY Zenon
<1>2. Mine(p)
  BY <1>0, Zenon DEF TypeOK, Blk!StoreTypeOK, Hdl!StoreTypeOK, Mine, Labels, AllOps
<1>3. TypeOK' /\ OthersKeep(p)
  <2>1. StoresKeep(p)
    BY <1>0, Zenon DEF TypeOK, StoresKeep, Blk!StoreTypeOK, Hdl!StoreTypeOK
  <2> QED BY <1>0, <1>2, <2>1, MineStep, Zenon
<1>4. CopiesOK(p)'
  BY <1>0, Zenon DEF TypeOK, Blk!StoreTypeOK, Hdl!StoreTypeOK, CopiesOK, RowsOK, Holding, Counting
<1>5. TakingOK(p)'
  BY <1>0, Zenon DEF TypeOK, TakingOK, Counting, OrdinalOf, FreeIn
<1>6. FlowOK(p)'
  BY <1>0, Zenon DEF TypeOK, FlowOK, Deducting
<1>7. pc'[p] \notin {"write", "decQuery", "decWrite"}
  BY <1>0, Zenon DEF TypeOK
<1> QED BY <1>0, <1>1, <1>2, <1>3, <1>4, <1>5, <1>6, <1>7, QuietStep, Zenon

(* All counts are given back, and the operation goes on.                   *)
LEMMA DecrementedOK ==
  ASSUME AccountsOK, NEW p \in Procs, Decremented(p), ~Return(p)
  PROVE  AccountsOK' /\ OthersKeep(p)
<1>0. TypeOK /\ RowsOK /\ CopiesOK(p) /\ TakingOK(p) /\ FlowOK(p)
  BY Zenon DEF AccountsOK
<1> USE DEF Set, Goto, At, Decremented, FlowOK, stores, locals
<1>1. UNCHANGED <<block, handle>>
  BY Zenon
<1>2. Mine(p)
  BY <1>0, ZenonT(30) DEF TypeOK, Blk!StoreTypeOK, Hdl!StoreTypeOK, Mine, Labels, AllOps
<1>3. TypeOK' /\ OthersKeep(p)
  <2>1. StoresKeep(p)
    BY <1>0, Zenon DEF TypeOK, StoresKeep, Blk!StoreTypeOK, Hdl!StoreTypeOK
  <2> QED BY <1>0, <1>2, <2>1, MineStep, Zenon
<1>4. CopiesOK(p)'
  BY <1>0, Zenon DEF TypeOK, Blk!StoreTypeOK, Hdl!StoreTypeOK, CopiesOK, RowsOK, Holding, Counting
<1>5. TakingOK(p)'
  BY <1>0, Zenon DEF TypeOK, TakingOK, Counting, OrdinalOf, FreeIn
<1>6. FlowOK(p)'
  BY <1>0, Zenon DEF TypeOK, FlowOK, Deducting
<1>7. pc'[p] \notin {"write", "decQuery", "decWrite"}
  BY <1>0, Zenon DEF TypeOK
<1> QED BY <1>0, <1>1, <1>2, <1>3, <1>4, <1>5, <1>6, <1>7, QuietStep, Zenon

(* incrementHandle reads the row.                                          *)
LEMMA IncQueryOK ==
  ASSUME AccountsOK, NEW p \in Procs, IncQuery(p)
  PROVE  AccountsOK' /\ OthersKeep(p)
<1>0. TypeOK /\ RowsOK /\ CopiesOK(p) /\ TakingOK(p) /\ FlowOK(p)
  BY Zenon DEF AccountsOK
<1> USE DEF Set, Goto, At, IncQuery, Hdl!Get, Hdl!DoesNotExist, Hdl!storeVars, SameBlocks
<1>1. UNCHANGED <<block, handle>>
  BY Zenon
<1>2. Mine(p)
  BY <1>0, Zenon DEF TypeOK, Blk!StoreTypeOK, Hdl!StoreTypeOK, Mine, Labels, AllOps
<1>3. TypeOK' /\ OthersKeep(p)
  <2>1. UNCHANGED <<block, blkCur>>
    BY <1>0, Zenon DEF TypeOK
  <2>2. Hdl!Get(p, hdl[p]) \/ Hdl!DoesNotExist(hdl[p])
    BY <1>0, Zenon DEF TypeOK
  <2>3. blk[p] \in Blocks /\ hdl[p] \in Handles
    BY <1>0, Zenon DEF TypeOK
  <2>4. StoresKeep(p)
    BY <1>0, <2>1, <2>2, <2>3, BlkStep, HdlStep, SomeRows, Zenon DEF StoresKeep
  <2> QED BY <1>0, <1>2, <2>4, MineStep, Zenon
<1>4. CopiesOK(p)'
  BY <1>0 DEF TypeOK, Blk!StoreTypeOK, Hdl!StoreTypeOK, CopiesOK, RowsOK, Holding, Counting
<1>5. TakingOK(p)'
  BY <1>0, Zenon DEF TypeOK, TakingOK, Counting, OrdinalOf, FreeIn
<1>6. FlowOK(p)'
  BY <1>0, Zenon DEF TypeOK, FlowOK, Deducting
<1>7. pc'[p] \notin {"write", "decQuery", "decWrite"}
  BY <1>0, Zenon DEF TypeOK
<1> QED BY <1>0, <1>1, <1>2, <1>3, <1>4, <1>5, <1>6, <1>7, QuietStep, Zenon

(* Somebody else wrote the row, and incrementHandle starts again.          *)
LEMMA IncRetryOK ==
  ASSUME AccountsOK, NEW p \in Procs, IncWrite(p), pc'[p] # "write"
  PROVE  AccountsOK' /\ OthersKeep(p)
<1>0. TypeOK /\ RowsOK /\ CopiesOK(p) /\ TakingOK(p) /\ FlowOK(p)
  BY Zenon DEF AccountsOK
<1> USE DEF Set, Goto, At, IncWrite, Hdl!AlreadyExists, Hdl!UpdateConflict, Hdl!DoesNotExist, Hdl!storeVars, SameBlocks
<1>1. UNCHANGED <<block, handle>>
  BY <1>0, Zenon DEF TypeOK
<1>2. Mine(p)
  BY <1>0, Zenon DEF TypeOK, Blk!StoreTypeOK, Hdl!StoreTypeOK, Mine, Labels, AllOps
<1>3. TypeOK' /\ OthersKeep(p)
  <2>1. UNCHANGED <<block, blkCur>>
    BY <1>0, Zenon DEF TypeOK
  <2>2. UNCHANGED <<handle, hdlCur>>
    BY <1>0, Zenon DEF TypeOK
  <2>3. blk[p] \in Blocks /\ hdl[p] \in Handles
    BY <1>0, Zenon DEF TypeOK
  <2>4. StoresKeep(p)
    BY <1>0, <2>1, <2>2, <2>3, BlkStep, HdlStep, SomeRows, Zenon DEF StoresKeep
  <2> QED BY <1>0, <1>2, <2>4, MineStep, Zenon
<1>4. CopiesOK(p)'
  BY <1>0, Zenon DEF TypeOK, Blk!StoreTypeOK, Hdl!StoreTypeOK, CopiesOK, RowsOK, Holding, Counting
<1>5. TakingOK(p)'
  BY <1>0, Zenon DEF TypeOK, TakingOK, Counting, OrdinalOf, FreeIn
<1>6. FlowOK(p)'
  BY <1>0, Zenon DEF TypeOK, FlowOK, Deducting
<1>7. pc'[p] \notin {"write", "decQuery", "decWrite"}
  BY <1>0, Zenon DEF TypeOK
<1> QED BY <1>0, <1>1, <1>2, <1>3, <1>4, <1>5, <1>6, <1>7, QuietStep, Zenon

(* decrementHandle reads a row, or finds none.                             *)
LEMMA DecQueryOK ==
  ASSUME AccountsOK, NEW p \in Procs, DecQuery(p)
  PROVE  AccountsOK' /\ OthersKeep(p)
<1>0. TypeOK /\ RowsOK /\ CopiesOK(p) /\ TakingOK(p) /\ FlowOK(p)
  BY Zenon DEF AccountsOK
<1>1. PICK h \in Owing(p) :
        \/ Hdl!Get(p, h) /\ hobj' = Set(hobj, p, handle[h]) /\ Goto(p, "decWrite")
           /\ hdl' = Set(hdl, p, h) /\ UNCHANGED due
        \/ Hdl!DoesNotExist(h) /\ Settled(p, h) /\ UNCHANGED <<hobj, hdl>>
  BY Zenon DEF DecQuery
<1>2. h \in Handles /\ pc[p] = "decQuery"
  BY Zenon DEF Owing, DecQuery, At
<1>3. UNCHANGED <<block, blkCur, op, blk, num, want, take, obj, ret, left>>
  BY Zenon DEF DecQuery, SameBlocks
<1>4. handle' = handle
  BY <1>1, Zenon DEF Hdl!Get, Hdl!DoesNotExist, Hdl!storeVars
<1>5. due[p] \in [Handles -> Nat] /\ handle[h] \in HandleRows \cup {NoHandle}
  BY <1>0, <1>2, Zenon DEF TypeOK, Hdl!StoreTypeOK
<1>6. Mine(p)
  <2>1. CASE Hdl!Get(p, h) /\ hobj' = Set(hobj, p, handle[h]) /\ Goto(p, "decWrite")
             /\ hdl' = Set(hdl, p, h) /\ UNCHANGED due
    BY <1>0, <1>2, <1>3, <1>5, <2>1, Zenon DEF TypeOK, Mine, Labels, Set, Goto, Hdl!Get
  <2>2. CASE Hdl!DoesNotExist(h) /\ Settled(p, h) /\ UNCHANGED <<hobj, hdl>>
    BY <1>0, <1>2, <1>3, <1>5, <2>2, Zenon DEF TypeOK, Mine, Labels, Goto, Settled
  <2> QED BY <1>1, <2>1, <2>2, Zenon
<1>7. TypeOK' /\ OthersKeep(p)
  <2>1. StoresKeep(p)
    <3>1. Hdl!Get(p, h) \/ Hdl!DoesNotExist(h)
      BY <1>1, Zenon
    <3>2. UNCHANGED <<block, blkCur>>
      BY <1>3, Zenon
    <3>3. blk[p] \in Blocks
      BY <1>0, Zenon DEF TypeOK
    <3> QED BY <1>0, <1>2, <3>1, <3>2, <3>3, BlkStep, HdlStep, SomeRows, Zenon DEF StoresKeep
  <2> QED BY <1>0, <1>6, <2>1, MineStep, Zenon
<1>8. pc'[p] \in Deducting
  BY <1>0, <1>1, Zenon DEF TypeOK, Goto, Settled, Deducting
<1>9. CopiesOK(p)'
  <2>1. pc'[p] \notin Holding /\ pc'[p] # "incWrite"
    BY <1>8, Zenon DEF Holding, Counting, Deducting
  <2>2. CASE hdl' = Set(hdl, p, h) /\ hobj' = Set(hobj, p, handle[h])
    <3>1. hdl'[p] = h /\ hobj'[p] = handle[h]
      BY <1>0, <2>2, Zenon DEF TypeOK, Set
    <3> QED BY <1>4, <2>1, <3>1, Zenon DEF CopiesOK
  <2>3. CASE Goto(p, "decQuery")
    <3>1. pc'[p] = "decQuery"
      BY <1>0, <2>3, Zenon DEF TypeOK, Goto
    <3> QED BY <2>1, <3>1, Zenon DEF CopiesOK
  <2> QED BY <1>1, <2>2, <2>3, Zenon DEF Settled
<1>10. TakingOK(p)' /\ FlowOK(p)'
  BY <1>0, <1>2, <1>3, <1>8, Zenon DEF TakingOK, FlowOK, Counting, Deducting
<1>11. ASSUME NEW g \in Handles, NEW b \in Blocks
       PROVE  InFlight(p, g, b)' <= InFlight(p, g, b)
  <2>1. due'[p][g] <= due[p][g] /\ due'[p][g] \in Nat /\ due[p][g] \in Nat
    <3>1. due' = due \/ due' = [due EXCEPT ![p][h] = 0]
      BY <1>1, Zenon DEF Settled
    <3>2. due'[p] = due[p] \/ due'[p] = [due[p] EXCEPT ![h] = 0]
      BY <1>0, <3>1, Zenon DEF TypeOK
    <3> QED BY ONLY <1>2, <1>5, <3>2
  <2> QED BY ONLY <1>2, <1>3, <1>8, <2>1, SMTT(30) DEF InFlight, Deducting
<1> QED BY <1>3, <1>4, <1>7, <1>9, <1>10, <1>11, QuietBalance, Zenon

-----------------------------------------------------------------------------
(* The other half of Balanced: no count is left without what it counts.    *)
Kept(p) ==
  \A h \in Handles, b \in Blocks :
    Cardinality(Allocs(h, b)) + InFlight(p, h, b) + Count(h, b)'
      <= Cardinality(Allocs(h, b)') + InFlight(p, h, b)' + Count(h, b)

(* Both halves.                                                            *)
Even(p) ==
  \A h \in Handles, b \in Blocks :
    Cardinality(Allocs(h, b)') + InFlight(p, h, b)' + Count(h, b)
      = Cardinality(Allocs(h, b)) + InFlight(p, h, b) + Count(h, b)'

(* An even step is balanced, and leaves no count behind.                   *)
LEMMA EvenSuffices ==
  ASSUME TypeOK, TypeOK', NEW p \in Procs, Even(p)
  PROVE  Balanced(p) /\ Kept(p)
<1> SUFFICES ASSUME NEW h \in Handles, NEW b \in Blocks
             PROVE  /\ Cardinality(Allocs(h, b)') + InFlight(p, h, b)' + Count(h, b)
                         <= Cardinality(Allocs(h, b)) + InFlight(p, h, b) + Count(h, b)'
                    /\ Cardinality(Allocs(h, b)) + InFlight(p, h, b) + Count(h, b)'
                         <= Cardinality(Allocs(h, b)') + InFlight(p, h, b)' + Count(h, b)
  BY Zenon DEF Balanced, Kept
<1>1. /\ Cardinality(Allocs(h, b)) \in Nat /\ InFlight(p, h, b) \in Nat /\ Count(h, b) \in Nat
      /\ Cardinality(Allocs(h, b)') \in Nat /\ InFlight(p, h, b)' \in Nat /\ Count(h, b)' \in Nat
  BY AmountTypes, AmountTypesNext, Zenon
<1>2. Cardinality(Allocs(h, b)') + InFlight(p, h, b)' + Count(h, b)
        = Cardinality(Allocs(h, b)) + InFlight(p, h, b) + Count(h, b)'
  BY Zenon DEF Even
<1> QED BY ONLY <1>1, <1>2

(* incrementHandle has counted.                                            *)
LEMMA Counted ==
  ASSUME AccountsOK, NEW p \in Procs, IncWrite(p), pc'[p] = "write"
  PROVE  AccountsOK' /\ OthersKeep(p) /\ Kept(p)
<1>0. TypeOK /\ RowsOK /\ CopiesOK(p) /\ TakingOK(p) /\ FlowOK(p)
  BY Zenon DEF AccountsOK
<1>1. UNCHANGED <<block, blkCur, op, hdl, blk, num, want, take, obj, due, ret, left>>
  BY Zenon DEF IncWrite, SameBlocks
<1>2. pc[p] = "incWrite" /\ pc' = [pc EXCEPT ![p] = "write"] /\ hobj' = [hobj EXCEPT ![p] = NoHandle]
  BY <1>0, Zenon DEF IncWrite, At, Set, Goto, TypeOK
<1>3. hdl[p] \in Handles /\ blk[p] \in Blocks /\ want[p] \in Nat /\ hobj[p] \in HandleRows \cup {NoHandle}
  BY <1>0, Zenon DEF TypeOK
<1> DEFINE old == IF hobj[p] = NoHandle THEN NewRow ELSE hobj[p]
<1> DEFINE row == incrementBlock(old, blk[p], want[p])
<1>4. Hdl!Create(p, hdl[p], row) \/ Hdl!Update(p, hdl[p], row)
  BY <1>0, Zenon DEF IncWrite, Goto, TypeOK
<1>5. old \in HandleRows /\ \A b \in Blocks : old[b] = Count(hdl[p], b)
  <2>1. NewRow \in HandleRows
    BY Zenon DEF NewRow, HandleRows
  <2>2. CASE hobj[p] = NoHandle
    <3>1. handle[hdl[p]] = NoHandle
      BY <1>0, <2>2, Zenon DEF IncWrite, Goto, TypeOK, Hdl!Create
    <3> QED BY <2>1, <2>2, <3>1, Zenon DEF Count, NewRow
  <2>3. CASE hobj[p] # NoHandle
    <3>1. p \in hdlCur[hdl[p]]
      BY <1>0, <2>3, Zenon DEF IncWrite, Goto, TypeOK, Hdl!Update
    <3>2. handle[hdl[p]] = hobj[p]
      BY <1>0, <1>2, <2>3, <3>1, Zenon DEF CopiesOK
    <3> QED BY <1>3, <2>3, <3>2, Zenon DEF Count
  <2> QED BY <2>2, <2>3, Zenon
<1>6. row \in HandleRows /\ \A b \in Blocks : row[b] = IF b = blk[p] THEN old[b] + want[p] ELSE old[b]
  <2> HIDE DEF old
  <2> QED BY ONLY <1>3, <1>5 DEF incrementBlock, HandleRows
<1>7. handle' = [handle EXCEPT ![hdl[p]] = row]
  BY <1>4, Zenon DEF Hdl!Create, Hdl!Update
<1> HIDE DEF old, row
<1>8. Mine(p)
  BY <1>0, <1>1, <1>2, Zenon DEF TypeOK, Mine, Labels, CopiesOK, Holding, Counting
<1>9. TypeOK' /\ OthersKeep(p)
  <2>1. StoresKeep(p)
    BY <1>0, <1>1, <1>3, <1>4, <1>6, BlkStep, HdlStep, SomeRows, Zenon DEF StoresKeep
  <2> QED BY <1>0, <1>8, <2>1, MineStep, Zenon
<1>10. RowsOK' /\ CopiesOK(p)'
  BY <1>0, <1>1, <1>2, Zenon DEF RowsOK, CopiesOK, Holding, Counting
<1>11. TakingOK(p)' /\ FlowOK(p)'
  BY <1>0, <1>1, <1>2, Zenon DEF TakingOK, FlowOK, Counting, Deducting, FreeIn, OrdinalOf
<1>12. ASSUME NEW h \in Handles, NEW b \in Blocks
       PROVE  Cardinality(Allocs(h, b)') + InFlight(p, h, b)' + Count(h, b)
                = Cardinality(Allocs(h, b)) + InFlight(p, h, b) + Count(h, b)'
  <2>1. Allocs(h, b)' = Allocs(h, b)
    BY <1>1, Zenon DEF Allocs, Held
  <2>2. InFlight(p, h, b) = 0 /\ InFlight(p, h, b)' = IF blk[p] = b /\ hdl[p] = h THEN want[p] ELSE 0
    BY ONLY <1>1, <1>2, <1>3, <1>0 DEF InFlight, TypeOK
  <2>3. Count(h, b)' = Count(h, b) + (IF blk[p] = b /\ hdl[p] = h THEN want[p] ELSE 0)
    <3>1. row # NoHandle /\ row \in HandleRows \cup {NoHandle}
      BY <1>6, AbsentAssumption, Zenon
    <3>2. Count(h, b)' = IF h # hdl[p] THEN Count(h, b) ELSE row[b]
      <4>1. handle'[h] = IF h = hdl[p] THEN row ELSE handle[h]
        BY <1>0, <1>3, <1>7, Zenon DEF TypeOK, Hdl!StoreTypeOK
      <4> QED BY <3>1, <4>1, Zenon DEF Count
    <3>3. Count(h, b) \in Nat
      BY <1>0, AmountTypes, Zenon
    <3> QED BY ONLY <1>5, <1>6, <3>2, <3>3
  <2>4. Cardinality(Allocs(h, b)) \in Nat /\ Count(h, b) \in Nat
    BY <1>0, AmountTypes, Zenon
  <2> QED BY ONLY <1>3, <2>1, <2>2, <2>3, <2>4
<1>13. Balanced(p) /\ Kept(p)
  BY <1>0, <1>9, <1>12, EvenSuffices, Zenon DEF Even
<1> QED BY <1>9, <1>10, <1>11, <1>12, <1>13, StepOK, Zenon

(* decrementHandle fails, or starts again.                                 *)
LEMMA NotDeducted ==
  ASSUME AccountsOK, NEW p \in Procs, DecWrite(p), UNCHANGED <<handle, hdlCur>>
  PROVE  AccountsOK' /\ OthersKeep(p)
<1>0. TypeOK /\ RowsOK /\ CopiesOK(p) /\ TakingOK(p) /\ FlowOK(p)
  BY Zenon DEF AccountsOK
<1>1. /\ UNCHANGED <<block, blkCur, op, hdl, blk, num, want, take, obj, ret, left>>
      /\ pc[p] = "decWrite" /\ hobj' = [hobj EXCEPT ![p] = NoHandle]
  BY Zenon DEF DecWrite, SameBlocks, At, Set
<1>2. pc' = [pc EXCEPT ![p] = "decQuery"]
  BY Zenon DEF DecWrite, Settled, Goto
<1>3. due' = due \/ due' = [due EXCEPT ![p][hdl[p]] = 0]
  BY Zenon DEF DecWrite, Settled
<1>4. due[p] \in [Handles -> Nat] /\ hdl[p] \in Handles /\ blk[p] \in Blocks
  BY <1>0, Zenon DEF TypeOK
<1>5. due'[p] = due[p] \/ due'[p] = [due[p] EXCEPT ![hdl[p]] = 0]
  BY <1>0, <1>3, Zenon DEF TypeOK
<1>6. Mine(p)
  <2>1. due' = [due EXCEPT ![p] = due'[p]] /\ due'[p] \in [Handles -> Nat]
    BY ONLY <1>0, <1>3, <1>4, <1>5 DEF TypeOK
  <2> QED BY <1>0, <1>1, <1>2, <2>1, Zenon DEF TypeOK, Mine, Labels
<1>7. TypeOK' /\ OthersKeep(p)
  <2>1. StoresKeep(p)
    BY <1>0, <1>1, <1>4, BlkStep, HdlStep, SomeRows, Zenon DEF StoresKeep
  <2> QED BY <1>0, <1>6, <2>1, MineStep, Zenon
<1>8. pc'[p] = "decQuery"
  BY <1>0, <1>2, Zenon DEF TypeOK
<1>9. CopiesOK(p)' /\ TakingOK(p)' /\ FlowOK(p)'
  BY <1>0, <1>1, <1>8, Zenon DEF CopiesOK, TakingOK, FlowOK, Holding, Counting, Deducting
<1>10. ASSUME NEW g \in Handles, NEW b \in Blocks
       PROVE  InFlight(p, g, b)' <= InFlight(p, g, b)
  <2>1. due'[p][g] <= due[p][g] /\ due'[p][g] \in Nat /\ due[p][g] \in Nat
    BY ONLY <1>4, <1>5
  <2> QED BY ONLY <1>1, <1>8, <2>1 DEF InFlight
<1> QED BY <1>1, <1>7, <1>9, <1>10, QuietBalance, Zenon

(* decrementHandle takes the count off, and deletes a row that is empty.   *)
Deducts(p) ==
  LET row == decrementBlock(hobj[p], blk[p], due[p][hdl[p]])
  IN /\ ~decrementBlockFails(p)
     /\ IF row = NewRow THEN Hdl!Delete(p, hdl[p]) ELSE Hdl!Update(p, hdl[p], row)
     /\ Settled(p, hdl[p])

(* It does so, or the row stays as it is.                                  *)
LEMMA DeductsOrNot ==
  ASSUME NEW p \in Procs, DecWrite(p)
  PROVE  Deducts(p) \/ UNCHANGED <<handle, hdlCur>>
  BY Zenon DEF DecWrite, Deducts, SameHandles, Hdl!UpdateConflict, Hdl!DoesNotExist, Hdl!storeVars

(* What is taken off the row is no longer in flight.                       *)
LEMMA Deducted ==
  ASSUME AccountsOK, NEW p \in Procs, DecWrite(p), Deducts(p)
  PROVE  AccountsOK' /\ OthersKeep(p) /\ Kept(p)
<1>0. TypeOK /\ RowsOK /\ CopiesOK(p) /\ TakingOK(p) /\ FlowOK(p)
  BY Zenon DEF AccountsOK
<1>1. /\ UNCHANGED <<block, blkCur, op, hdl, blk, num, want, take, obj, ret, left>>
      /\ pc[p] = "decWrite" /\ hobj' = [hobj EXCEPT ![p] = NoHandle]
  BY Zenon DEF DecWrite, SameBlocks, At, Set
<1> DEFINE row == decrementBlock(hobj[p], blk[p], due[p][hdl[p]])
<1>2. /\ ~decrementBlockFails(p)
      /\ IF row = NewRow THEN Hdl!Delete(p, hdl[p]) ELSE Hdl!Update(p, hdl[p], row)
      /\ due' = [due EXCEPT ![p][hdl[p]] = 0] /\ pc' = [pc EXCEPT ![p] = "decQuery"]
  BY Zenon DEF Deducts, Settled, Goto
<1>3. /\ due[p] \in [Handles -> Nat] /\ hdl[p] \in Handles /\ blk[p] \in Blocks
      /\ hobj[p] \in HandleRows
  BY <1>0, <1>1, Zenon DEF TypeOK
<1>4. p \in hdlCur[hdl[p]]
  BY <1>2, Zenon DEF Hdl!Delete, Hdl!Update
<1>5. handle[hdl[p]] = hobj[p] /\ handle[hdl[p]] # NoHandle
  BY <1>0, <1>1, <1>3, <1>4, AbsentAssumption, Zenon DEF CopiesOK
<1>6. row \in HandleRows /\ \A b \in Blocks :
        row[b] = IF b = blk[p] THEN hobj[p][b] - due[p][hdl[p]] ELSE hobj[p][b]
  <2>1. due[p][hdl[p]] \in Nat /\ hobj[p][blk[p]] \in Nat /\ hobj[p][blk[p]] >= due[p][hdl[p]]
    BY ONLY <1>2, <1>3 DEF decrementBlockFails, HandleRows
  <2>2. hobj[p][blk[p]] - due[p][hdl[p]] \in Nat
    BY ONLY <2>1
  <2> QED BY <1>3, <2>2, Zenon DEF decrementBlock, HandleRows
<1> HIDE DEF row
<1>7. due'[p] = [due[p] EXCEPT ![hdl[p]] = 0] /\ pc'[p] = "decQuery"
  BY <1>0, <1>2, Zenon DEF TypeOK
<1>8. Mine(p)
  <2>1. due' = [due EXCEPT ![p] = due'[p]] /\ due'[p] \in [Handles -> Nat]
    BY <1>0, <1>2, <1>3, <1>7, Zenon DEF TypeOK
  <2> QED BY <1>0, <1>1, <1>2, <2>1, ZenonT(30) DEF TypeOK, Mine, Labels
<1>9. TypeOK' /\ OthersKeep(p)
  <2>1. Hdl!Delete(p, hdl[p]) \/ Hdl!Update(p, hdl[p], row)
    BY <1>2, Zenon
  <2>2. StoresKeep(p)
    BY <1>0, <1>1, <1>3, <1>6, <2>1, BlkStep, HdlStep, SomeRows, Zenon DEF StoresKeep
  <2> QED BY <1>0, <1>8, <2>2, MineStep, Zenon
<1>10. RowsOK' /\ CopiesOK(p)' /\ TakingOK(p)' /\ FlowOK(p)'
  BY <1>0, <1>1, <1>7, Zenon DEF RowsOK, CopiesOK, TakingOK, FlowOK, Holding, Counting, Deducting
<1>11. ASSUME NEW h \in Handles, NEW b \in Blocks
       PROVE  Cardinality(Allocs(h, b)') + InFlight(p, h, b)' + Count(h, b)
                = Cardinality(Allocs(h, b)) + InFlight(p, h, b) + Count(h, b)'
  <2> DEFINE n == IF blk[p] = b /\ hdl[p] = h THEN due[p][h] ELSE 0
  <2>1. Allocs(h, b)' = Allocs(h, b)
    BY <1>1, Zenon DEF Allocs, Held
  <2>2. InFlight(p, h, b) = InFlight(p, h, b)' + n
    BY ONLY <1>1, <1>3, <1>7 DEF InFlight
  <2>3. Count(h, b) = Count(h, b)' + n
    <3>1. CASE h # hdl[p]
      <4>1. handle'[h] = handle[h]
        BY <1>0, <1>2, <3>1, ZenonT(30) DEF TypeOK, Hdl!StoreTypeOK, Hdl!Delete, Hdl!Update
      <4>2. Count(h, b)' = Count(h, b) /\ Count(h, b) \in Nat
        BY <1>0, <4>1, AmountTypes, Zenon DEF Count
      <4> QED BY ONLY <3>1, <4>2
    <3>2. CASE h = hdl[p]
      <4>1. Count(h, b) = hobj[p][b] /\ hobj[p][b] \in Nat
        BY <1>3, <1>5, <3>2, Zenon DEF Count, HandleRows
      <4>2. Count(h, b)' = row[b]
        <5>1. CASE row = NewRow
          <6>1. handle'[h] = NoHandle
            BY <1>0, <1>2, <3>2, <5>1, Zenon DEF TypeOK, Hdl!StoreTypeOK, Hdl!Delete
          <6> QED BY <5>1, <6>1, ZenonT(30) DEF Count, NewRow
        <5>2. CASE row # NewRow
          <6>1. handle'[h] = row /\ row # NoHandle
            BY <1>0, <1>2, <1>6, <3>2, <5>2, AbsentAssumption, ZenonT(30) DEF TypeOK, Hdl!StoreTypeOK,
               Hdl!Update
          <6> QED BY <6>1, ZenonT(30) DEF Count
        <5> QED BY <5>1, <5>2, Zenon
      <4> QED BY ONLY <1>3, <1>6, <3>2, <4>1, <4>2
    <3> QED BY <3>1, <3>2, Zenon
  <2>4. /\ Cardinality(Allocs(h, b)) \in Nat /\ Count(h, b)' \in Nat /\ n \in Nat
        /\ InFlight(p, h, b)' \in Nat
    BY <1>0, <1>3, <1>9, AmountTypes, AmountTypesNext, Zenon
  <2> HIDE DEF n
  <2> QED BY ONLY <2>1, <2>2, <2>3, <2>4
<1>12. Balanced(p) /\ Kept(p)
  BY <1>0, <1>9, <1>11, EvenSuffices, Zenon DEF Even
<1> QED BY <1>9, <1>10, <1>11, <1>12, StepOK, Zenon

(* A block in which some addresses have changed hands.                     *)
LEMMA Redirected ==
  ASSUME NEW row \in BlockRows, NEW S \in SUBSET Ordinals, NEW v \in Handles \cup {Free}
  PROVE  /\ Redirect(row, S, v) \in BlockRows /\ Redirect(row, S, v).aff = row.aff
         /\ \A h \in Handles \ {v} : Held(Redirect(row, S, v), h) = Held(row, h) \ S
         /\ v \in Handles => Held(Redirect(row, S, v), v) = Held(row, v) \cup S
<1>1. row = [aff |-> row.aff, ips |-> row.ips] /\ row.aff \in BOOLEAN /\ row.ips \in [Ordinals -> Handles \cup {Free}]
  BY Zenon DEF BlockRows
<1>2. Redirect(row, S, v) = [aff |-> row.aff, ips |-> [o \in Ordinals |-> IF o \in S THEN v ELSE row.ips[o]]]
  BY ONLY <1>1 DEF Redirect
<1>3. [o \in Ordinals |-> IF o \in S THEN v ELSE row.ips[o]] \in [Ordinals -> Handles \cup {Free}]
  BY <1>1, Zenon
<1>4. Redirect(row, S, v) \in BlockRows /\ Redirect(row, S, v).aff = row.aff
  BY ONLY <1>1, <1>2, <1>3 DEF BlockRows
<1>5. \A o \in Ordinals : Redirect(row, S, v).ips[o] = IF o \in S THEN v ELSE row.ips[o]
  BY ONLY <1>2
<1>6. \A h \in Handles \ {v} : Held(Redirect(row, S, v), h) = Held(row, h) \ S
  BY <1>5, Zenon DEF Held
<1>7. Held(Redirect(row, S, v), v) = Held(row, v) \cup S
  BY <1>5, Zenon DEF Held
<1> QED BY <1>4, <1>6, <1>7, Zenon

(* Sets of addresses have a size, the sum of those of their parts.         *)
LEMMA Sizes ==
  ASSUME NEW S \in SUBSET Ordinals, NEW T \in SUBSET Ordinals
  PROVE  /\ Cardinality(S) \in Nat /\ Cardinality(T) \in Nat
         /\ Cardinality(S \cup T) + Cardinality(S \cap T) = Cardinality(S) + Cardinality(T)
         /\ Cardinality(S \ T) + Cardinality(S \cap T) = Cardinality(S)
         /\ Cardinality({}) = 0
         /\ Cardinality(S \ T) \in Nat /\ Cardinality(S \cap T) \in Nat /\ Cardinality(S \cup T) \in Nat
<1>1. IsFiniteSet(S) /\ IsFiniteSet(T)
  BY HandlesAssumption, FS_Subset, Zenon
<1>2. IsFiniteSet(S \cap T) /\ IsFiniteSet(S \ T) /\ IsFiniteSet(S \cup T)
  BY <1>1, FS_Union, FS_Difference, FS_Intersection, Zenon
<1>3. /\ Cardinality(S) \in Nat /\ Cardinality(T) \in Nat
      /\ Cardinality(S \ T) \in Nat /\ Cardinality(S \cap T) \in Nat /\ Cardinality(S \cup T) \in Nat
  BY <1>1, <1>2, FS_CardinalityType, Zenon
<1>4. Cardinality(S \cup T) = Cardinality(S) + Cardinality(T) - Cardinality(S \cap T)
  BY <1>1, FS_Union, Zenon
<1>5. Cardinality(S \ T) = Cardinality(S) - Cardinality(S \cap T)
  BY <1>1, FS_Difference, Zenon
<1>6. Cardinality({}) = 0
  BY FS_EmptySet, Zenon
<1> QED BY ONLY <1>3, <1>4, <1>5, <1>6

(* The ordinal in hand.                                                    *)
LEMMA OrdinalTaken ==
  ASSUME NEW p \in Procs, NEW o \in Ordinals, take[p] = {o}
  PROVE  OrdinalOf(p) = o
  BY Zenon DEF OrdinalOf

(* The write failed, and the count is to be given back, or is forgotten.   *)
LEMMA NotWritten ==
  ASSUME AccountsOK, NEW p \in Procs, Write(p), WriteConflicts(p) \/ WriteFails(p)
  PROVE  /\ AccountsOK' /\ OthersKeep(p) /\ UNCHANGED <<block, handle>>
         /\ op[p] # "AssignIP" =>
              \A h \in Handles, b \in Blocks : InFlight(p, h, b)' = InFlight(p, h, b)
<1>0. TypeOK /\ RowsOK /\ CopiesOK(p) /\ TakingOK(p) /\ FlowOK(p)
  BY Zenon DEF AccountsOK
<1>1. /\ UNCHANGED <<handle, hdlCur, op, hdl, blk, num, take, hobj, left>>
      /\ pc[p] = "write" /\ obj' = [obj EXCEPT ![p] = NoBlock]
  BY Zenon DEF Write, SameHandles, At, Set
<1>2. UNCHANGED <<block, blkCur, want>>
  BY Zenon DEF WriteConflicts, WriteFails, Blk!UpdateConflict, Blk!DoesNotExist, Blk!storeVars
<1>3. /\ due[p] \in [Handles -> Nat] /\ hdl[p] \in Handles /\ blk[p] \in Blocks /\ want[p] \in Nat
      /\ op[p] \in {"AutoAssign", "AssignIP", "MoveIPToHandle"}
  BY <1>0, <1>1, Zenon DEF TypeOK, TakingOK, Counting
<1> DEFINE owe == [h \in Handles |-> IF h = hdl[p] THEN want[p] ELSE 0]
<1>4. \/ pc' = [pc EXCEPT ![p] = "query"] /\ UNCHANGED <<due, ret>> /\ op[p] = "AssignIP"
      \/ /\ pc' = [pc EXCEPT ![p] = "decQuery"] /\ due' = [due EXCEPT ![p] = owe]
         /\ \/ ret' = [ret EXCEPT ![p] = "query"] \/ ret' = [ret EXCEPT ![p] = "idle"]
            \/ ret' = [ret EXCEPT ![p] = "find"] /\ op[p] = "AutoAssign"
  <2>1. Unit(hdl[p], want[p]) = owe
    BY <1>3, ZenonT(30) DEF Unit, Zero
  <2>2. CASE WriteConflicts(p)
    BY <2>1, <2>2, Zenon DEF WriteConflicts, Decrement, Goto, Set
  <2>3. CASE WriteFails(p)
    BY <2>1, <2>3, Zenon DEF WriteFails, Decrement, Goto, Set
  <2> QED BY <2>2, <2>3, Zenon
<1>5. owe \in [Handles -> Nat] /\ \A h \in Handles : owe[h] = IF h = hdl[p] THEN want[p] ELSE 0
  BY <1>3, ZenonT(30)
<1> HIDE DEF owe
<1>6. Mine(p)
  BY ONLY <1>0, <1>1, <1>2, <1>4, <1>5 DEF TypeOK, Mine, Labels
<1>7. TypeOK' /\ OthersKeep(p)
  <2>1. StoresKeep(p)
    BY <1>0, <1>1, <1>2, <1>3, BlkStep, HdlStep, SomeRows, Zenon DEF StoresKeep
  <2> QED BY <1>0, <1>6, <2>1, MineStep, Zenon
<1>8. /\ pc'[p] \in {"query", "decQuery"} /\ (pc'[p] = "decQuery" => due'[p] = owe)
      /\ op[p] # "AssignIP" => pc'[p] = "decQuery"
  BY <1>0, <1>4, ZenonT(30) DEF TypeOK
<1>9. CopiesOK(p)' /\ TakingOK(p)'
  BY <1>0, <1>1, <1>2, <1>8, Zenon DEF CopiesOK, TakingOK, Holding, Counting
<1>10. FlowOK(p)'
  BY ONLY <1>0, <1>1, <1>4, <1>8 DEF TypeOK, FlowOK, Deducting
<1>11. ASSUME NEW g \in Handles, NEW b \in Blocks
       PROVE  InFlight(p, g, b)' <= InFlight(p, g, b)
  BY ONLY <1>1, <1>2, <1>3, <1>5, <1>8 DEF InFlight
<1>12. ASSUME op[p] # "AssignIP", NEW g \in Handles, NEW b \in Blocks
       PROVE  InFlight(p, g, b)' = InFlight(p, g, b)
  BY ONLY <1>1, <1>2, <1>3, <1>5, <1>8, <1>12 DEF InFlight
<1> QED BY <1>1, <1>2, <1>7, <1>9, <1>10, <1>11, <1>12, QuietBalance, Zenon

(* What a successful write leaves p to do.                                 *)
LEMMA AfterWriting ==
  ASSUME AccountsOK, NEW p \in Procs, Write(p), WriteSucceeds(p)
  PROVE  /\ want' = [want EXCEPT ![p] = want'[p]] /\ want'[p] \in Nat
         /\ pc' = [pc EXCEPT ![p] = pc'[p]] /\ pc'[p] \in {"find", "decQuery"}
         /\ ret' = [ret EXCEPT ![p] = ret'[p]] /\ ret'[p] \in {ret[p], "idle"}
         /\ due' = [due EXCEPT ![p] = due'[p]] /\ due'[p] \in [Handles -> Nat]
         /\ op[p] # "AutoAssign" => want'[p] = want[p] /\ pc'[p] = "decQuery"
         /\ pc'[p] = "decQuery" =>
              /\ ret'[p] = "idle"
              /\ \A h \in Handles :
                   due'[p][h] = IF op[p] = "MoveIPToHandle" /\ h = obj[p].ips[OrdinalOf(p)] THEN 1 ELSE 0
<1>0. TypeOK /\ CopiesOK(p) /\ TakingOK(p) /\ pc[p] = "write"
  BY Zenon DEF AccountsOK, Write, At
<1>1. Zero \in [Handles -> Nat] /\ \A h \in Handles : Zero[h] = 0
  BY Zenon DEF Zero
<1>2. CASE op[p] = "AutoAssign"
  <2>1. /\ want' = [want EXCEPT ![p] = want[p] - Cardinality(take[p])]
        /\ \/ /\ due' = [due EXCEPT ![p] = Zero] /\ ret' = [ret EXCEPT ![p] = "idle"]
              /\ pc' = [pc EXCEPT ![p] = "decQuery"]
           \/ pc' = [pc EXCEPT ![p] = "find"] /\ UNCHANGED <<due, ret>>
    BY <1>2, Zenon DEF WriteSucceeds, Finish, Decrement, Goto, Set
  <2>2. Cardinality(take[p]) \in Nat
    BY <1>0, Sizes, Zenon DEF TypeOK
  <2>3. want[p] - Cardinality(take[p]) \in Nat
    BY ONLY <1>0, <1>2, <2>2 DEF TypeOK, TakingOK, Counting
  <2> QED BY <1>0, <1>1, <1>2, <2>1, <2>3, Zenon DEF TypeOK
<1>3. CASE op[p] = "AssignIP"
  <2>1. /\ want' = want /\ due' = [due EXCEPT ![p] = Zero] /\ ret' = [ret EXCEPT ![p] = "idle"]
        /\ pc' = [pc EXCEPT ![p] = "decQuery"]
    BY <1>3, ZenonT(30) DEF WriteSucceeds, Finish, Decrement, Goto, Set
  <2> QED BY <1>0, <1>1, <1>3, <2>1, Zenon DEF TypeOK
<1>4. CASE op[p] = "MoveIPToHandle"
  <2> DEFINE from == obj[p].ips[OrdinalOf(p)]
  <2>1. /\ want' = want /\ due' = [due EXCEPT ![p] = Unit(from, 1)] /\ ret' = [ret EXCEPT ![p] = "idle"]
        /\ pc' = [pc EXCEPT ![p] = "decQuery"]
    BY <1>4, Zenon DEF WriteSucceeds, Decrement, Goto, Set
  <2>2. from \in Handles
    <3>1. OrdinalOf(p) \in Ordinals
      BY <1>0, <1>4, OrdinalTaken, Zenon DEF TakingOK
    <3> QED BY <1>0, <1>4, <3>1, Zenon DEF CopiesOK, TakingOK, Holding, Counting, BlockRows
  <2> HIDE DEF from
  <2>3. Unit(from, 1) \in [Handles -> Nat] /\ \A h \in Handles : Unit(from, 1)[h] = IF h = from THEN 1 ELSE 0
    BY <1>1, <2>2, Zenon DEF Unit
  <2> QED BY <1>0, <1>4, <2>1, <2>3, Zenon DEF TypeOK, from
<1> QED BY <1>0, <1>2, <1>3, <1>4, Zenon DEF TakingOK, Counting

(* The addresses are assigned, or moved.                                   *)
LEMMA Written ==
  ASSUME AccountsOK, NEW p \in Procs, Write(p), WriteSucceeds(p)
  PROVE  /\ AccountsOK' /\ OthersKeep(p)
         /\ Cardinality(take[p]) = want[p] => Kept(p)
<1>0. TypeOK /\ RowsOK /\ CopiesOK(p) /\ TakingOK(p) /\ FlowOK(p)
  BY Zenon DEF AccountsOK
<1>1. /\ UNCHANGED <<handle, hdlCur, op, hdl, blk, num, take, hobj, left>>
      /\ pc[p] = "write" /\ obj' = [obj EXCEPT ![p] = NoBlock]
  BY Zenon DEF Write, SameHandles, At, Set
<1>2. /\ hdl[p] \in Handles /\ blk[p] \in Blocks /\ want[p] \in Nat /\ take[p] \in SUBSET Ordinals
      /\ obj[p] \in BlockRows /\ op[p] \in {"AutoAssign", "AssignIP", "MoveIPToHandle"}
  BY <1>0, <1>1, Zenon DEF TypeOK, TakingOK, CopiesOK, Holding, Counting
<1> DEFINE row == Redirect(obj[p], take[p], hdl[p])
<1>3. Blk!Update(p, blk[p], row)
  BY Zenon DEF WriteSucceeds, updateBlock
<1>4. block[blk[p]] = obj[p] /\ block' = [block EXCEPT ![blk[p]] = row]
  BY <1>0, <1>1, <1>3, Zenon DEF Blk!Update, CopiesOK, Holding, Counting
<1>5. /\ row \in BlockRows /\ row.aff = obj[p].aff
      /\ \A h \in Handles \ {hdl[p]} : Held(row, h) = Held(obj[p], h) \ take[p]
      /\ Held(row, hdl[p]) = Held(obj[p], hdl[p]) \cup take[p]
  <2>1. hdl[p] \in Handles \cup {Free}
    BY <1>2, Zenon
  <2>2. /\ row \in BlockRows /\ row.aff = obj[p].aff
        /\ \A h \in Handles \ {hdl[p]} : Held(row, h) = Held(obj[p], h) \ take[p]
        /\ hdl[p] \in Handles => Held(row, hdl[p]) = Held(obj[p], hdl[p]) \cup take[p]
    BY ONLY <1>2, <2>1, Redirected
  <2> QED BY <1>2, <2>2, Zenon
<1> HIDE DEF row
<1>6. Mine(p)
  BY <1>0, <1>1, <1>2, AfterWriting, ZenonT(60) DEF TypeOK, Mine, Labels
<1>7. TypeOK' /\ OthersKeep(p)
  <2>1. StoresKeep(p)
    BY <1>0, <1>1, <1>2, <1>3, <1>5, BlkStep, HdlStep, SomeRows, Zenon DEF StoresKeep
  <2> QED BY <1>0, <1>6, <2>1, MineStep, Zenon
<1>8. RowsOK'
  BY <1>0, <1>1, <1>4, <1>5, Zenon DEF RowsOK, TypeOK, Blk!StoreTypeOK, CopiesOK, Holding, Counting
<1>9. CopiesOK(p)' /\ TakingOK(p)'
  BY <1>0, <1>1, AfterWriting, Zenon DEF CopiesOK, TakingOK, Holding, Counting
<1>10. FlowOK(p)'
  BY <1>0, <1>1, <1>2, AfterWriting, Zenon DEF FlowOK, Deducting
<1>11. ASSUME NEW h \in Handles, NEW b \in Blocks
       PROVE  Cardinality(Allocs(h, b)') + InFlight(p, h, b)' + Count(h, b)
                    + (IF h = hdl[p] /\ b = blk[p] THEN want[p] ELSE 0)
                = Cardinality(Allocs(h, b)) + InFlight(p, h, b) + Count(h, b)'
                    + (IF h = hdl[p] /\ b = blk[p] THEN Cardinality(take[p]) ELSE 0)
  <2>1. Count(h, b)' = Count(h, b) /\ Count(h, b) \in Nat
    BY <1>0, <1>1, AmountTypes, Zenon DEF Count
  <2>2. CASE b # blk[p]
    <3>1. Allocs(h, b)' = Allocs(h, b) /\ Cardinality(Allocs(h, b)) \in Nat
      BY <1>0, <1>4, <2>2, AmountTypes, Zenon DEF Allocs, Held, TypeOK, Blk!StoreTypeOK
    <3>2. InFlight(p, h, b) = 0 /\ InFlight(p, h, b)' = 0
      BY <1>1, <2>2, Zenon DEF InFlight
    <3> QED BY ONLY <2>1, <2>2, <3>1, <3>2
  <2>3. CASE b = blk[p]
    <3>1. Allocs(h, b) = Held(obj[p], h) /\ Allocs(h, b)' = Held(row, h)
      <4>1. block'[b] = row /\ block[b] = obj[p]
        BY <1>0, <1>4, <2>3, Zenon DEF TypeOK, Blk!StoreTypeOK
      <4> QED BY <1>2, <1>5, <4>1, AbsentAssumption, Zenon DEF Allocs, Held
    <3>2. Held(obj[p], h) \in SUBSET Ordinals
      BY Zenon DEF Held
    <3> DEFINE H == Held(obj[p], h)
    <3>3. /\ Cardinality(H) \in Nat /\ Cardinality(take[p]) \in Nat
          /\ Cardinality(H \cup take[p]) + Cardinality(H \cap take[p]) = Cardinality(H) + Cardinality(take[p])
          /\ Cardinality(H \ take[p]) + Cardinality(H \cap take[p]) = Cardinality(H)
          /\ Cardinality({}) = 0
          /\ Cardinality(H \ take[p]) \in Nat /\ Cardinality(H \cap take[p]) \in Nat
          /\ Cardinality(H \cup take[p]) \in Nat
      BY <1>2, <3>2, Sizes, Zenon
    <3>4. InFlight(p, h, b) = IF h = hdl[p] THEN want[p] ELSE 0
      BY ONLY <1>1, <1>2, <2>3 DEF InFlight
    <3>5. InFlight(p, h, b)' =
            IF op[p] = "MoveIPToHandle" /\ h = obj[p].ips[OrdinalOf(p)] THEN 1 ELSE 0
      BY <1>1, <2>3, <1>2, AfterWriting DEF InFlight
    <3>6. Cardinality(H \cap take[p]) = InFlight(p, h, b)' /\ (h = hdl[p] => InFlight(p, h, b)' = 0)
      <4>1. CASE op[p] = "MoveIPToHandle"
        <5>1. PICK o \in Ordinals : take[p] = {o} /\ OrdinalOf(p) = o
          BY <1>0, <4>1, OrdinalTaken, Zenon DEF TakingOK
        <5>2. obj[p].ips[o] # hdl[p]
          BY <1>0, <1>1, <4>1, <5>1, Zenon DEF TakingOK, Counting
        <5>3. CASE h = obj[p].ips[o]
          <6>1. H \cap take[p] = {o}
            BY <5>1, <5>3, Zenon DEF Held
          <6>2. Cardinality({o}) = 1
            BY FS_Singleton, Zenon
          <6>3. InFlight(p, h, b)' = 1 /\ h # hdl[p]
            BY <3>5, <4>1, <5>1, <5>2, <5>3, Zenon
          <6> QED BY <6>1, <6>2, <6>3, Zenon
        <5>4. CASE h # obj[p].ips[o]
          <6>1. H \cap take[p] = {}
            BY <5>1, <5>4, Zenon DEF Held
          <6>2. InFlight(p, h, b)' = 0
            BY <3>5, <5>1, <5>4, Zenon
          <6> QED BY <3>3, <6>1, <6>2, Zenon
        <5> QED BY <5>3, <5>4, Zenon
      <4>2. CASE op[p] # "MoveIPToHandle"
        <5>1. take[p] \subseteq FreeIn(obj[p])
          BY <1>0, <1>1, <4>2, Zenon DEF TakingOK, Counting
        <5>2. H \cap take[p] = {}
          BY <5>1, HandlesAssumption, Zenon DEF Held, FreeIn
        <5>3. InFlight(p, h, b)' = 0
          BY <3>5, <4>2, Zenon
        <5> QED BY <3>3, <5>2, <5>3, Zenon
      <4> QED BY <4>1, <4>2, Zenon
    <3>7. Allocs(h, b) = H /\ Allocs(h, b)' = IF h = hdl[p] THEN H \cup take[p] ELSE H \ take[p]
      BY <1>5, <3>1, Zenon
    <3> HIDE DEF H
    <3> QED BY ONLY <1>2, <2>1, <2>3, <3>3, <3>4, <3>6, <3>7
  <2> QED BY <2>2, <2>3, ZenonT(30)
<1>12. Cardinality(take[p]) \in Nat /\ Cardinality(take[p]) <= want[p]
  <2>1. CASE op[p] = "MoveIPToHandle"
    <3>1. want[p] = 1 /\ \E o \in Ordinals : take[p] = {o}
      BY <1>0, <2>1, Zenon DEF TakingOK
    <3>2. Cardinality(take[p]) = 1
      BY <3>1, FS_Singleton, Zenon
    <3> QED BY ONLY <3>1, <3>2
  <2>2. CASE op[p] # "MoveIPToHandle"
    BY <1>0, <1>1, <1>2, <2>2, Sizes, Zenon DEF TakingOK, Counting
  <2> QED BY <2>1, <2>2, Zenon
<1>13. Balanced(p) /\ (Cardinality(take[p]) = want[p] => Kept(p))
  <2> SUFFICES ASSUME NEW h \in Handles, NEW b \in Blocks
               PROVE  /\ Cardinality(Allocs(h, b)') + InFlight(p, h, b)' + Count(h, b)
                           <= Cardinality(Allocs(h, b)) + InFlight(p, h, b) + Count(h, b)'
                      /\ Cardinality(take[p]) = want[p] =>
                           Cardinality(Allocs(h, b)) + InFlight(p, h, b) + Count(h, b)'
                             <= Cardinality(Allocs(h, b)') + InFlight(p, h, b)' + Count(h, b)
    BY Zenon DEF Balanced, Kept
  <2>1. /\ Cardinality(Allocs(h, b)) \in Nat /\ InFlight(p, h, b) \in Nat /\ Count(h, b) \in Nat
        /\ Cardinality(Allocs(h, b)') \in Nat /\ InFlight(p, h, b)' \in Nat /\ Count(h, b)' \in Nat
    BY <1>0, <1>7, AmountTypes, AmountTypesNext, Zenon
  <2> QED BY ONLY <1>2, <1>11, <1>12, <2>1
<1> QED BY <1>7, <1>8, <1>9, <1>10, <1>13, StepOK, Zenon

(* No ReleaseByHandle runs while affinities are released.                  *)
Separate == "ReleaseByHandle" \notin Ops \/ "ReleaseAffinity" \notin Ops

(* Addresses that are freed are no handle's.                               *)
LEMMA Freed ==
  ASSUME NEW row \in BlockRows, NEW S \in SUBSET Ordinals
  PROVE  \A h \in Handles : Held(Redirect(row, S, Free), h) = Held(row, h) \ S
<1>1. Free \in Handles \cup {Free} /\ \A h \in Handles : h \in Handles \ {Free}
  BY HandlesAssumption, Zenon
<1>2. \A h \in Handles \ {Free} : Held(Redirect(row, S, Free), h) = Held(row, h) \ S
  BY <1>1, Redirected, ZenonT(60)
<1> QED BY <1>1, <1>2, Zenon

(* What is released is counted by handle.                                  *)
LEMMA ReleasedTypes ==
  ASSUME NEW p \in Procs, obj[p] \in BlockRows
  PROVE  Releasing(p, obj[p]) \in SUBSET Ordinals /\ Released(p) \in [Handles -> Nat]
<1>1. Releasing(p, obj[p]) \in SUBSET Ordinals
  BY Zenon DEF Releasing, Assigned, Held
<1>2. \A h \in Handles : Cardinality(Releasing(p, obj[p]) \cap Held(obj[p], h)) \in Nat
  BY <1>1, Sizes, Zenon DEF Held
<1> QED BY <1>1, <1>2, Zenon DEF Released

(* Somebody else has deleted the block: there is nothing to give back.     *)
LEMMA ReleasedGone ==
  ASSUME AccountsOK, Separate, NEW p \in Procs, RelWrite(p), Blk!DoesNotExist(blk[p])
  PROVE  AccountsOK' /\ OthersKeep(p)
<1>0. TypeOK /\ RowsOK /\ CopiesOK(p) /\ TakingOK(p) /\ FlowOK(p)
  BY Zenon DEF AccountsOK
<1>1. /\ UNCHANGED <<handle, hdlCur, op, hdl, blk, num, want, take, hobj, left>>
      /\ pc[p] = "relWrite" /\ obj' = [obj EXCEPT ![p] = NoBlock]
  BY Zenon DEF RelWrite, SameHandles, At, Set
<1>2. UNCHANGED <<block, blkCur>> /\ block[blk[p]] = NoBlock
  BY Zenon DEF Blk!DoesNotExist, Blk!storeVars
<1>3. blk[p] \in Blocks /\ obj[p] \in BlockRows
  BY <1>0, <1>1, Zenon DEF TypeOK, CopiesOK, Holding
<1> DEFINE row == Redirect(obj[p], Releasing(p, obj[p]), Free)
<1>4. row.aff = obj[p].aff
  BY <1>3, ReleasedTypes, Redirected, ZenonT(60)
<1>5. ~(Disposable(row) /\ op[p] = "ReleaseByHandle")
  BY <1>0, <1>1, <1>4, Zenon DEF Separate, Disposable, FlowOK, CopiesOK, Holding
<1>6. /\ due' = [due EXCEPT ![p] = Zero] /\ pc' = [pc EXCEPT ![p] = "decQuery"]
      /\ ret' = [ret EXCEPT ![p] = "idle"] \/ ret' = [ret EXCEPT ![p] = "nextBlock"]
  BY <1>2, <1>5, Zenon DEF RelWrite, Decrement, Set, Goto, AfterRelease, Blk!Delete, Blk!Update,
     Blk!UpdateConflict
<1> HIDE DEF row
<1>7. Zero \in [Handles -> Nat] /\ \A h \in Handles : Zero[h] = 0
  BY Zenon DEF Zero
<1>8. Mine(p)
  BY <1>0, <1>1, <1>6, <1>7, Zenon DEF TypeOK, Mine, Labels
<1>9. TypeOK' /\ OthersKeep(p)
  <2>1. hdl[p] \in Handles
    BY <1>0, Zenon DEF TypeOK
  <2>2. StoresKeep(p)
    BY <1>0, <1>1, <1>2, <1>3, <2>1, BlkStep, HdlStep, SomeRows, Zenon DEF StoresKeep
  <2> QED BY <1>0, <1>8, <2>2, MineStep, Zenon
<1>10. pc'[p] = "decQuery" /\ due'[p] = Zero /\ ret'[p] \in {"idle", "nextBlock"}
  BY <1>0, <1>6, Zenon DEF TypeOK
<1>11. CopiesOK(p)' /\ TakingOK(p)' /\ FlowOK(p)'
  BY <1>0, <1>1, <1>10, Zenon DEF CopiesOK, TakingOK, FlowOK, Holding, Counting, Deducting
<1>12. ASSUME NEW g \in Handles, NEW b \in Blocks
       PROVE  InFlight(p, g, b)' <= InFlight(p, g, b)
  <2>1. InFlight(p, g, b)' = 0
    BY ONLY <1>1, <1>7, <1>10 DEF InFlight
  <2>2. InFlight(p, g, b) \in Nat
    BY <1>0, AmountTypes, Zenon
  <2> QED BY ONLY <2>1, <2>2
<1> QED BY <1>1, <1>2, <1>9, <1>11, <1>12, QuietBalance, Zenon

(* The addresses are released, the counts still to be taken off.           *)
LEMMA ReleasedOK ==
  ASSUME AccountsOK, NEW p \in Procs, RelWrite(p), block[blk[p]] # NoBlock, p \in blkCur[blk[p]]
  PROVE  AccountsOK' /\ OthersKeep(p) /\ Kept(p)
<1>0. TypeOK /\ RowsOK /\ CopiesOK(p) /\ TakingOK(p) /\ FlowOK(p)
  BY Zenon DEF AccountsOK
<1>1. /\ UNCHANGED <<handle, hdlCur, op, hdl, blk, num, want, take, hobj, left>>
      /\ pc[p] = "relWrite" /\ obj' = [obj EXCEPT ![p] = NoBlock]
  BY Zenon DEF RelWrite, SameHandles, At, Set
<1>2. blk[p] \in Blocks /\ hdl[p] \in Handles /\ obj[p] \in BlockRows /\ block[blk[p]] = obj[p]
  BY <1>0, <1>1, Zenon DEF TypeOK, CopiesOK, Holding
<1> DEFINE R == Releasing(p, obj[p])
<1> DEFINE row == Redirect(obj[p], R, Free)
<1>3. /\ IF Disposable(row) THEN Blk!Delete(p, blk[p]) ELSE Blk!Update(p, blk[p], row)
      /\ due' = [due EXCEPT ![p] = Released(p)] /\ pc' = [pc EXCEPT ![p] = "decQuery"]
      /\ ret' = [ret EXCEPT ![p] = "idle"] \/ ret' = [ret EXCEPT ![p] = "nextBlock"]
  BY Zenon DEF RelWrite, Decrement, Set, Goto, AfterRelease, Blk!UpdateConflict, Blk!DoesNotExist
<1>4. R \in SUBSET Ordinals /\ Released(p) \in [Handles -> Nat]
  BY <1>2, ReleasedTypes, Zenon
<1>5. \A h \in Handles : Released(p)[h] = Cardinality(R \cap Held(obj[p], h))
  BY Zenon DEF Released
<1>6. /\ row \in BlockRows /\ row.aff = obj[p].aff
      /\ \A h \in Handles : Held(row, h) = Held(obj[p], h) \ R
  <2>0. obj[p] \in BlockRows /\ R \in SUBSET Ordinals
    BY <1>2, <1>4, Zenon
  <2>1. row \in BlockRows /\ row.aff = obj[p].aff
    BY <2>0, Redirected, Zenon
  <2>2. \A h \in Handles : Held(row, h) = Held(obj[p], h) \ R
    BY <2>0, Freed, Zenon
  <2> QED BY <2>1, <2>2, Zenon
<1> HIDE DEF R, row
<1>7. Mine(p)
  BY <1>0, <1>1, <1>3, <1>4, Zenon DEF TypeOK, Mine, Labels
<1>8. TypeOK' /\ OthersKeep(p)
  <2>1. Blk!Delete(p, blk[p]) \/ Blk!Update(p, blk[p], row)
    BY <1>3, Zenon
  <2>2. StoresKeep(p)
    BY <1>0, <1>1, <1>2, <1>6, <2>1, BlkStep, HdlStep, SomeRows, Zenon DEF StoresKeep
  <2> QED BY <1>0, <1>7, <2>2, MineStep, Zenon
<1>9. block' = [block EXCEPT ![blk[p]] = IF Disposable(row) THEN NoBlock ELSE row]
  BY <1>3, Zenon DEF Blk!Delete, Blk!Update
<1>10. RowsOK'
  BY <1>0, <1>1, <1>6, <1>9, Zenon DEF RowsOK, TypeOK, Blk!StoreTypeOK, CopiesOK, Holding
<1>11. pc'[p] = "decQuery" /\ due'[p] = Released(p) /\ ret'[p] \in {"idle", "nextBlock"}
  BY <1>0, <1>3, Zenon DEF TypeOK
<1>12. CopiesOK(p)' /\ TakingOK(p)' /\ FlowOK(p)'
  BY <1>0, <1>1, <1>11, Zenon DEF CopiesOK, TakingOK, FlowOK, Holding, Counting, Deducting
<1>13. ASSUME NEW h \in Handles, NEW b \in Blocks
       PROVE  Cardinality(Allocs(h, b)') + InFlight(p, h, b)' + Count(h, b)
                = Cardinality(Allocs(h, b)) + InFlight(p, h, b) + Count(h, b)'
  <2>1. Count(h, b)' = Count(h, b) /\ Count(h, b) \in Nat
    BY <1>0, <1>1, AmountTypes, Zenon DEF Count
  <2>2. InFlight(p, h, b) = 0
    BY ONLY <1>1 DEF InFlight
  <2>3. CASE b # blk[p]
    <3>1. Allocs(h, b)' = Allocs(h, b) /\ Cardinality(Allocs(h, b)) \in Nat
      BY <1>0, <1>9, <2>3, AmountTypes, Zenon DEF Allocs, Held, TypeOK, Blk!StoreTypeOK
    <3>2. InFlight(p, h, b)' = 0
      BY <1>1, <2>3, Zenon DEF InFlight
    <3> QED BY ONLY <2>1, <2>2, <3>1, <3>2
  <2>4. CASE b = blk[p]
    <3> DEFINE H == Held(obj[p], h)
    <3>1. Allocs(h, b) = H
      BY <1>2, <2>4, AbsentAssumption, Zenon DEF Allocs
    <3>2. Allocs(h, b)' = Held(row, h)
      <4>1. block'[b] = IF Disposable(row) THEN NoBlock ELSE row
        BY <1>0, <1>9, <2>4, Zenon DEF TypeOK, Blk!StoreTypeOK
      <4>2. CASE Disposable(row)
        <5>1. Held(row, h) = {}
          BY <4>2, HandlesAssumption, Zenon DEF Disposable, Assigned, FreeIn, Held
        <5> QED BY <4>1, <4>2, <5>1, Zenon DEF Allocs
      <4>3. CASE ~Disposable(row)
        <5>1. row # NoBlock
          BY <1>6, AbsentAssumption, Zenon
        <5> QED BY <4>1, <4>3, <5>1, Zenon DEF Allocs, Held
      <4> QED BY <4>2, <4>3, Zenon
    <3>3. Allocs(h, b)' = H \ R
      BY <1>6, <3>2, Zenon
    <3>4. InFlight(p, h, b)' = Cardinality(H \cap R)
      <4>1. InFlight(p, h, b)' = due'[p][h]
        BY ONLY <1>1, <1>4, <1>11, <2>4 DEF InFlight
      <4>2. R \cap H = H \cap R
        BY Zenon
      <4> QED BY <1>5, <1>11, <4>1, <4>2, Zenon
    <3>5. H \in SUBSET Ordinals
      BY Zenon DEF Held
    <3> HIDE DEF H
    <3>6. /\ Cardinality(H \ R) + Cardinality(H \cap R) = Cardinality(H)
          /\ Cardinality(H \ R) \in Nat /\ Cardinality(H \cap R) \in Nat /\ Cardinality(H) \in Nat
      BY <1>4, <3>5, Sizes, Zenon
    <3> QED BY ONLY <2>1, <2>2, <3>1, <3>3, <3>4, <3>6
  <2> QED BY <2>3, <2>4, Zenon
<1>14. Balanced(p) /\ Kept(p)
  BY <1>0, <1>8, <1>13, EvenSuffices, Zenon DEF Even
<1> QED BY <1>8, <1>10, <1>12, <1>13, <1>14, StepOK, Zenon

(* Somebody else has written the block, and the release starts again.      *)
LEMMA ReleaseConflictOK ==
  ASSUME AccountsOK, NEW p \in Procs, RelWrite(p), Blk!UpdateConflict(p, blk[p])
  PROVE  AccountsOK' /\ OthersKeep(p)
<1>0. TypeOK /\ RowsOK /\ CopiesOK(p) /\ TakingOK(p) /\ FlowOK(p)
  BY Zenon DEF AccountsOK
<1> USE DEF Set, Goto, At, RelWrite, Blk!UpdateConflict, Blk!Delete, Blk!Update, Blk!DoesNotExist, Blk!storeVars, SameHandles
<1>1. UNCHANGED <<block, handle>>
  BY <1>0, Zenon DEF TypeOK
<1>2. Mine(p)
  BY <1>0, Zenon DEF TypeOK, Blk!StoreTypeOK, Hdl!StoreTypeOK, Mine, Labels, AllOps
<1>3. TypeOK' /\ OthersKeep(p)
  <2>1. StoresKeep(p)
    BY <1>0, Zenon DEF TypeOK, StoresKeep, Blk!StoreTypeOK, Hdl!StoreTypeOK
  <2> QED BY <1>0, <1>2, <2>1, MineStep, Zenon
<1>4. CopiesOK(p)'
  BY <1>0, Zenon DEF TypeOK, Blk!StoreTypeOK, Hdl!StoreTypeOK, CopiesOK, RowsOK, Holding, Counting
<1>5. TakingOK(p)'
  BY <1>0, Zenon DEF TypeOK, TakingOK, Counting, OrdinalOf, FreeIn
<1>6. FlowOK(p)'
  BY <1>0, Zenon DEF TypeOK, FlowOK, Deducting
<1>7. pc'[p] \notin {"write", "decQuery", "decWrite"}
  BY <1>0, Zenon DEF TypeOK
<1> QED BY <1>0, <1>1, <1>2, <1>3, <1>4, <1>5, <1>6, <1>7, QuietStep, Zenon

(* A block comes or loses its affinity: no address changes hands.          *)
LEMMA AffinityOK ==
  ASSUME AccountsOK, NEW k \in Blocks, ClaimBlock(k) \/ ReleaseAffinity(k)
  PROVE  AccountsOK' /\ \A h \in Handles, b \in Blocks : Allocs(h, b)' = Allocs(h, b)
<1>0. TypeOK /\ RowsOK /\ block \in [Blocks -> BlockRows \cup {NoBlock}] /\ blkCur \in [Blocks -> SUBSET Procs]
  BY Zenon DEF AccountsOK, TypeOK, Blk!StoreTypeOK
<1>1. UNCHANGED <<handle, hdlCur, pc, locals>>
  BY Zenon DEF ClaimBlock, ReleaseAffinity, SameHandles
<1>2. block' = [block EXCEPT ![k] = block'[k]] /\ blkCur' = [blkCur EXCEPT ![k] = {}]
  BY <1>0, Zenon DEF ClaimBlock, ReleaseAffinity, Set
<1>3. /\ block'[k] \in BlockRows \cup {NoBlock}
      /\ block'[k] # NoBlock => "ReleaseAffinity" \in Ops \/ block'[k].aff
  <2>1. CASE ClaimBlock(k)
    BY <1>0, <2>1, Zenon DEF ClaimBlock, Set, BlockRows
  <2>2. CASE ReleaseAffinity(k)
    <3>1. block[k] \in BlockRows /\ [block[k] EXCEPT !.aff = FALSE] \in BlockRows
      BY <1>0, <2>2, Zenon DEF ReleaseAffinity, BlockRows
    <3> QED BY <1>0, <2>2, <3>1, Zenon DEF ReleaseAffinity, Set
  <2> QED BY <2>1, <2>2, Zenon
<1>4. ASSUME NEW h \in Handles
      PROVE  Allocs(h, k)' = Allocs(h, k)
  <2>1. CASE ClaimBlock(k)
    <3>1. block[k] = NoBlock /\ \A o \in Ordinals : block'[k].ips[o] = Free
      BY <1>0, <2>1, Zenon DEF ClaimBlock, Set
    <3> QED BY <3>1, HandlesAssumption, Zenon DEF Allocs, Held
  <2>2. CASE ReleaseAffinity(k)
    <3>1. block[k] \in BlockRows /\ block[k] # NoBlock
      BY <1>0, <2>2, Zenon DEF ReleaseAffinity
    <3>2. block'[k] = IF Assigned(block[k]) = {} THEN NoBlock ELSE [block[k] EXCEPT !.aff = FALSE]
      BY <1>0, <2>2, Zenon DEF ReleaseAffinity, Set
    <3>3. CASE Assigned(block[k]) = {}
      <4>1. Held(block[k], h) = {}
        BY <3>3, HandlesAssumption, Zenon DEF Assigned, FreeIn, Held
      <4> QED BY <3>1, <3>2, <3>3, <4>1, Zenon DEF Allocs
    <3>4. CASE Assigned(block[k]) # {}
      <4>1. block'[k].ips = block[k].ips /\ block'[k] \in BlockRows
        BY <3>1, <3>2, <3>4, Zenon DEF BlockRows
      <4>2. block'[k] # NoBlock
        BY <4>1, AbsentAssumption, Zenon
      <4> QED BY <3>1, <4>1, <4>2, Zenon DEF Allocs, Held
    <3> QED BY <3>3, <3>4, Zenon
  <2> QED BY <2>1, <2>2, Zenon
<1>5. TypeOK'
  BY <1>0, <1>1, <1>2, <1>3, Zenon DEF TypeOK, Blk!StoreTypeOK, Hdl!StoreTypeOK, locals
<1>6. RowsOK'
  BY <1>0, <1>2, <1>3, Zenon DEF RowsOK
<1>7. ASSUME NEW p \in Procs
      PROVE  CopiesOK(p)' /\ TakingOK(p)' /\ FlowOK(p)'
  <2>1. blk[p] \in Blocks /\ CopiesOK(p) /\ TakingOK(p) /\ FlowOK(p)
    BY Zenon DEF AccountsOK, TypeOK
  <2>2. p \in blkCur'[blk[p]] => p \in blkCur[blk[p]] /\ block'[blk[p]] = block[blk[p]]
    BY <1>0, <1>2, <2>1, Zenon
  <2>3. CopiesOK(p)'
    BY <1>1, <2>1, <2>2, Zenon DEF CopiesOK, locals
  <2>4. TakingOK(p)' /\ FlowOK(p)'
    BY <1>1, <2>1, Zenon DEF TakingOK, FlowOK, OrdinalOf, FreeIn, locals
  <2> QED BY <2>3, <2>4, Zenon
<1>8. ASSUME NEW h \in Handles, NEW b \in Blocks
      PROVE  Allocs(h, b)' = Allocs(h, b)
  <2>1. CASE b # k
    <3>1. block'[b] = block[b]
      BY <1>0, <1>2, <2>1, Zenon
    <3> QED BY <3>1, Zenon DEF Allocs, Held
  <2> QED BY <1>4, <2>1, Zenon
<1>9. ASSUME NEW h \in Handles, NEW b \in Blocks
      PROVE  Cardinality(Allocs(h, b)') + Cardinality(Owed(h, b)') <= Count(h, b)'
  <2>1. Owed(h, b)' = Owed(h, b) /\ Count(h, b)' = Count(h, b)
    BY <1>1, Zenon DEF Owed, InFlight, Count, locals
  <2> QED BY <1>8, <2>1, Zenon DEF AccountsOK, ClaimsCovered
<1> QED BY <1>5, <1>6, <1>7, <1>8, <1>9, Zenon DEF AccountsOK, ClaimsCovered

(* In the beginning there is nothing.                                      *)
LEMMA InitOK ==
  ASSUME Init
  PROVE  AccountsOK
<1>1. (CHOOSE h \in Handles : TRUE) \in Handles /\ (CHOOSE b \in Blocks : TRUE) \in Blocks
  BY HandlesAssumption, Zenon
<1>2. TypeOK
  BY <1>1, Zenon DEF Init, TypeOK, Blk!StoreInit, Hdl!StoreInit, Blk!StoreTypeOK, Hdl!StoreTypeOK,
     Labels, Zero
<1>3. RowsOK /\ \A p \in Procs : CopiesOK(p) /\ TakingOK(p) /\ FlowOK(p)
  BY Zenon DEF Init, Blk!StoreInit, RowsOK, CopiesOK, TakingOK, FlowOK, Holding, Counting, Deducting
<1>4. ASSUME NEW h \in Handles, NEW b \in Blocks
      PROVE  Cardinality(Allocs(h, b)) + Cardinality(Owed(h, b)) <= Count(h, b)
  <2>1. Allocs(h, b) = {} /\ Count(h, b) = 0
    BY Zenon DEF Init, Blk!StoreInit, Hdl!StoreInit, Allocs, Count
  <2>2. \A p \in Procs : InFlight(p, h, b) = 0
    BY DEF Init, InFlight
  <2>3. Owed(h, b) = {}
    BY ONLY <2>2 DEF Owed
  <2> QED BY ONLY <2>1, <2>3, FS_EmptySet
<1> QED BY <1>2, <1>3, <1>4, Zenon DEF AccountsOK, ClaimsCovered

(* Every step of an operation keeps the accounts.                          *)
LEMMA OperationOK ==
  ASSUME AccountsOK, Separate, NEW p \in Procs, Step(p)
  PROVE  AccountsOK' /\ OthersKeep(p)
<1>1. CASE Return(p)
  BY <1>1, ReturnOK, Zenon
<1>2. CASE ~Return(p)
  <2>1. CASE \/ BeginAutoAssign(p) \/ BeginAssignIP(p) \/ BeginMoveIPToHandle(p)
             \/ BeginReleaseIPs(p) \/ BeginReleaseByHandle(p)
    BY <2>1, BeginAutoAssignOK, BeginOnAddressOK, BeginReleaseIPsOK, BeginReleaseByHandleOK, Zenon
  <2>2. CASE FindBlock(p) \/ AutoAssignQuery(p) \/ AssignIPQuery(p) \/ MoveQuery(p)
    BY <1>2, <2>2, FindBlockOK, AutoAssignQueryOK, AssignIPQueryOK, MoveQueryOK, Zenon
  <2>3. CASE IncQuery(p) \/ IncWrite(p) \/ MaxAllocReached(p)
    BY <1>2, <2>3, IncQueryOK, IncRetryOK, Counted, MaxAllocReachedOK, Zenon
  <2>4. CASE Write(p)
    BY <2>4, Written, NotWritten, Zenon DEF Write
  <2>5. CASE DecQuery(p) \/ DecWrite(p) \/ Decremented(p)
    BY <1>2, <2>5, DecQueryOK, DeductsOrNot, NotDeducted, Deducted, DecrementedOK, Zenon
  <2>6. CASE NextBlock(p) \/ RelQuery(p)
    BY <1>2, <2>6, NextBlockOK, RelQueryOK, Zenon
  <2>7. CASE RelWrite(p)
    <3>1. \/ block[blk[p]] # NoBlock /\ p \in blkCur[blk[p]]
          \/ Blk!UpdateConflict(p, blk[p]) \/ Blk!DoesNotExist(blk[p])
      BY <2>7, Zenon DEF RelWrite, Blk!Delete, Blk!Update
    <3> QED BY <2>7, <3>1, ReleasedOK, ReleasedGone, ReleaseConflictOK, Zenon
  <2>8. CASE NoFreeBlocks(p) \/ Crash(p)
    BY <1>2, <2>8, Zenon DEF NoFreeBlocks, Crash
  <2> QED BY <2>1, <2>2, <2>3, <2>4, <2>5, <2>6, <2>7, <2>8, Zenon DEF Step
<1> QED BY <1>1, <1>2, Zenon

(* So does every step of the system.                                       *)
LEMMA NextOK ==
  ASSUME AccountsOK, Separate, [Next]_vars
  PROVE  AccountsOK'
<1>1. CASE Next
  BY <1>1, OperationOK, AffinityOK, Zenon DEF Next
<1>2. CASE UNCHANGED vars
  <2>1. UNCHANGED <<block, blkCur, handle, hdlCur, pc, op, hdl, blk, num, want, take, obj, hobj, due, ret, left>>
    BY <1>2, Zenon DEF vars, stores, locals
  <2>2. TypeOK'
    BY <2>1, Zenon DEF AccountsOK, TypeOK, Blk!StoreTypeOK, Hdl!StoreTypeOK
  <2>3. RowsOK' /\ \A p \in Procs : (CopiesOK(p) /\ TakingOK(p) /\ FlowOK(p))'
    BY <2>1, ZenonT(60) DEF AccountsOK, RowsOK, CopiesOK, TakingOK, FlowOK, OrdinalOf, FreeIn
  <2>4. ClaimsCovered'
    <3>1. ASSUME NEW h \in Handles, NEW b \in Blocks
          PROVE  Allocs(h, b)' = Allocs(h, b) /\ Owed(h, b)' = Owed(h, b) /\ Count(h, b)' = Count(h, b)
      BY <2>1, Zenon DEF Allocs, Held, Owed, InFlight, Count
    <3> QED BY <3>1, Zenon DEF AccountsOK, ClaimsCovered
  <2> QED BY <2>2, <2>3, <2>4, Zenon DEF AccountsOK
<1> QED BY <1>1, <1>2, Zenon

(* incrementHandle counts before the block is written and decrementHandle  *)
(* after it (ipam.go), so the counts cover the addresses and everything    *)
(* that is in flight.                                                      *)
THEOREM CountsCover ==
  ASSUME Separate
  PROVE  Spec => []ClaimsCovered
<1>1. Init => AccountsOK
  BY InitOK, Zenon
<1>2. AccountsOK /\ [Next]_vars => AccountsOK'
  BY NextOK, Zenon
<1>3. AccountsOK => ClaimsCovered
  BY Zenon DEF AccountsOK
<1> QED BY <1>1, <1>2, <1>3, PTL DEF Spec

(* Every variable keeps its type, and what is written was read before.     *)
THEOREM HandleTypes ==
  ASSUME Separate
  PROVE  Spec => []TypeOK
<1>1. Init => AccountsOK
  BY InitOK, Zenon
<1>2. AccountsOK /\ [Next]_vars => AccountsOK'
  BY NextOK, Zenon
<1>3. AccountsOK => TypeOK
  BY Zenon DEF AccountsOK
<1> QED BY <1>1, <1>2, <1>3, PTL DEF Spec

(* A share of the sum is at most the sum.                                  *)
LEMMA Shares ==
  ASSUME AccountsOK, NEW h \in Handles, NEW b \in Blocks
  PROVE  /\ Cardinality(Allocs(h, b)) <= Count(h, b)
         /\ \A p \in Procs : InFlight(p, h, b) <= Count(h, b)
<1> DEFINE n == [p \in Procs |-> InFlight(p, h, b)]
<1>1. n \in [Procs -> Nat] /\ Owed(h, b) = Tokens(n, Procs)
  BY AmountTypes, Zenon DEF AccountsOK
<1>2. /\ Cardinality(Allocs(h, b)) \in Nat /\ Count(h, b) \in Nat
      /\ \A p \in Procs : InFlight(p, h, b) = n[p] /\ n[p] \in Nat
  BY AmountTypes, Zenon DEF AccountsOK
<1> HIDE DEF n
<1>3. Cardinality(Owed(h, b)) \in Nat /\ \A p \in Procs : n[p] <= Cardinality(Owed(h, b))
  BY <1>1, TokensFinite, TokensOfOne, HandlesAssumption, Zenon
<1>4. Cardinality(Allocs(h, b)) + Cardinality(Owed(h, b)) <= Count(h, b)
  BY Zenon DEF AccountsOK, ClaimsCovered
<1> QED BY ONLY <1>2, <1>3, <1>4

(* A handle row never counts fewer addresses of a block than are assigned  *)
(* there under the handle: ReleaseByHandle and IPsByHandle (ipam.go) miss  *)
(* none of them.                                                           *)
THEOREM HandlesCover ==
  ASSUME Separate
  PROVE  Spec => []AllocationsCovered
<1>1. Init => AccountsOK
  BY InitOK, Zenon
<1>2. AccountsOK /\ [Next]_vars => AccountsOK'
  BY NextOK, Zenon
<1>3. AccountsOK => AllocationsCovered
  BY Shares, Zenon DEF AllocationsCovered
<1> QED BY <1>1, <1>2, <1>3, PTL DEF Spec

(* decrementBlock (ipam_handle.go) never finds too small a count.          *)
THEOREM DecrementsAlwaysFit ==
  ASSUME Separate
  PROVE  Spec => []DecrementsFit
<1>1. Init => AccountsOK
  BY InitOK, Zenon
<1>2. AccountsOK /\ [Next]_vars => AccountsOK'
  BY NextOK, Zenon
<1>3. AccountsOK => DecrementsFit
  <2> SUFFICES ASSUME AccountsOK, NEW p \in Procs, pc[p] = "decQuery", NEW h \in Handles
               PROVE  due[p][h] <= Count(h, blk[p])
    BY Zenon DEF DecrementsFit
  <2>1. blk[p] \in Blocks /\ due[p][h] \in Nat
    BY Zenon DEF AccountsOK, TypeOK
  <2>2. InFlight(p, h, blk[p]) = due[p][h]
    BY <2>1 DEF InFlight
  <2> QED BY <2>1, <2>2, Shares, Zenon
<1> QED BY <1>1, <1>2, <1>3, PTL DEF Spec

-----------------------------------------------------------------------------
(* Exact counts, of requests of one address each.                          *)

(* Requests of one address, no AssignIP, which forgets what it has counted *)
(* when it meets a conflict, no block deleted under a release and nobody   *)
(* that dies.                                                              *)
OneByOne == Nums = {1} /\ Ops \cap {"AssignIP", "ReleaseAffinity", "Crash"} = {}

(* Nothing is counted that is neither assigned nor in flight.              *)
NoMore ==
  \A h \in Handles, b \in Blocks :
    Count(h, b) <= Cardinality(Allocs(h, b)) + Cardinality(Owed(h, b))

(* An assignment wants one address until it has it; a count that is about  *)
(* to be taken off is in the copy.                                         *)
ExactLocal(p) ==
  /\ op[p] \in Ops \cup {"none"}
  /\ op[p] = "AutoAssign" => want[p] = 1 \/ (pc[p] \in Deducting /\ ret[p] = "idle")
  /\ pc[p] \in Counting => take[p] # {}
  /\ pc[p] = "decWrite" => due[p][hdl[p]] > 0 /\ due[p][hdl[p]] <= hobj[p][blk[p]]

ExactOK == AccountsOK /\ NoMore /\ \A p \in Procs : ExactLocal(p)

(* A step that leaves no count behind keeps the counts low enough.         *)
LEMMA KeptKeeps ==
  ASSUME TypeOK, TypeOK', NoMore, NEW p \in Procs, OthersKeep(p), Kept(p)
  PROVE  NoMore'
<1> SUFFICES ASSUME NEW h \in Handles, NEW b \in Blocks
             PROVE  Count(h, b)' <= Cardinality(Allocs(h, b)') + Cardinality(Owed(h, b)')
  BY Zenon DEF NoMore
<1> DEFINE n == [q \in Procs |-> InFlight(q, h, b)]
<1> DEFINE m == [q \in Procs |-> InFlight(q, h, b)']
<1>1. n \in [Procs -> Nat] /\ Owed(h, b) = Tokens(n, Procs)
  BY AmountTypes, Zenon
<1>2. m \in [Procs -> Nat] /\ Owed(h, b)' = Tokens(m, Procs)
  <2>1. \A q \in Procs : InFlight(q, h, b)' \in Nat
    BY AmountTypesNext, Zenon
  <2>2. Owed(h, b)' = Tokens(m, Procs)
    BY Zenon DEF Owed, Tokens
  <2> QED BY <2>1, <2>2, Zenon
<1>3. \A q \in Procs \ {p} : m[q] = n[q]
  BY Zenon DEF OthersKeep, InFlight
<1>4. n[p] = InFlight(p, h, b) /\ m[p] = InFlight(p, h, b)'
  BY Zenon
<1> HIDE DEF n, m
<1>5. Cardinality(Owed(h, b)') + n[p] = Cardinality(Owed(h, b)) + m[p]
  BY ONLY <1>1, <1>2, <1>3, TokensMove, HandlesAssumption, p \in Procs
<1>6. Cardinality(Owed(h, b)) \in Nat /\ Cardinality(Owed(h, b)') \in Nat
  BY <1>1, <1>2, TokensFinite, HandlesAssumption, Zenon
<1>7. /\ Cardinality(Allocs(h, b)) \in Nat /\ Cardinality(Allocs(h, b)') \in Nat
      /\ Count(h, b) \in Nat /\ Count(h, b)' \in Nat
  BY AmountTypes, AmountTypesNext, Zenon
<1>8. Count(h, b) <= Cardinality(Allocs(h, b)) + Cardinality(Owed(h, b))
  BY Zenon DEF NoMore
<1>9. Cardinality(Allocs(h, b)) + n[p] + Count(h, b)' <= Cardinality(Allocs(h, b)') + m[p] + Count(h, b)
  BY <1>4, Zenon DEF Kept
<1>10. n[p] \in Nat /\ m[p] \in Nat
  BY <1>1, <1>2, Zenon
<1> QED BY ONLY <1>5, <1>6, <1>7, <1>8, <1>9, <1>10

(* A step that writes no row and owes no less than before.                 *)
LEMMA QuietKept ==
  ASSUME TypeOK, TypeOK', NEW p \in Procs, UNCHANGED <<block, handle>>,
         \A h \in Handles, b \in Blocks : InFlight(p, h, b) <= InFlight(p, h, b)'
  PROVE  Kept(p)
<1> SUFFICES ASSUME NEW h \in Handles, NEW b \in Blocks
             PROVE  Cardinality(Allocs(h, b)) + InFlight(p, h, b) + Count(h, b)'
                      <= Cardinality(Allocs(h, b)') + InFlight(p, h, b)' + Count(h, b)
  BY Zenon DEF Kept
<1>1. Allocs(h, b)' = Allocs(h, b) /\ Count(h, b)' = Count(h, b)
  BY Zenon DEF Allocs, Held, Count
<1>2. /\ Cardinality(Allocs(h, b)) \in Nat /\ InFlight(p, h, b) \in Nat /\ Count(h, b) \in Nat
      /\ InFlight(p, h, b)' \in Nat
  BY AmountTypes, AmountTypesNext, Zenon
<1>3. InFlight(p, h, b) <= InFlight(p, h, b)'
  BY Zenon
<1> QED BY ONLY <1>1, <1>2, <1>3

(* A process that owes nothing forgets nothing.                            *)
LEMMA IdleKept ==
  ASSUME TypeOK, TypeOK', NEW p \in Procs, UNCHANGED <<block, handle>>,
         \/ pc[p] \notin {"write", "decQuery", "decWrite"}
         \/ pc[p] \in Deducting /\ Owing(p) = {}
  PROVE  Kept(p)
<1>1. ASSUME NEW h \in Handles, NEW b \in Blocks
      PROVE  InFlight(p, h, b) <= InFlight(p, h, b)'
  <2>1. InFlight(p, h, b) = 0
    <3>1. CASE pc[p] \notin {"write", "decQuery", "decWrite"}
      BY ONLY <3>1 DEF InFlight
    <3>2. CASE pc[p] \in Deducting /\ Owing(p) = {}
      <4>1. due[p][h] \in Nat
        BY Zenon DEF TypeOK
      <4>2. ~(due[p][h] > 0)
        BY <3>2, Zenon DEF Owing
      <4>3. due[p][h] = 0
        BY ONLY <4>1, <4>2
      <4> QED BY ONLY <3>2, <4>3 DEF InFlight, Deducting
    <3> QED BY <3>1, <3>2, Zenon
  <2>2. InFlight(p, h, b)' \in Nat
    BY AmountTypesNext, Zenon
  <2> QED BY ONLY <2>1, <2>2
<1> QED BY <1>1, QuietKept, Zenon

(* What decrementHandle does not take off is still owed.                   *)
LEMMA OwesStill ==
  ASSUME TypeOK, TypeOK', NEW p \in Procs, UNCHANGED <<block, handle, blk>>, pc[p] \in Deducting,
         pc'[p] \in Deducting, due'[p] = due[p]
  PROVE  Kept(p)
<1>1. ASSUME NEW h \in Handles, NEW b \in Blocks
      PROVE  InFlight(p, h, b) <= InFlight(p, h, b)'
  <2>1. due[p][h] \in Nat
    BY Zenon DEF TypeOK
  <2> QED BY ONLY <2>1, pc[p] \in Deducting, pc'[p] \in Deducting, due'[p] = due[p], UNCHANGED blk DEF InFlight, Deducting
<1> QED BY <1>1, QuietKept, Zenon

(* A write of the block, of one address.                                   *)
LEMMA WriteKept ==
  ASSUME ExactOK, OneByOne, NEW p \in Procs, Write(p)
  PROVE  Kept(p) /\ ExactLocal(p)'
<1>0. /\ AccountsOK /\ TypeOK /\ TakingOK(p) /\ ExactLocal(p) /\ pc[p] = "write"
      /\ UNCHANGED <<op, take>>
  BY Zenon DEF ExactOK, AccountsOK, Write, At
<1>1. op[p] \in {"AutoAssign", "MoveIPToHandle"}
  BY <1>0, Zenon DEF TakingOK, Counting, ExactLocal, OneByOne
<1>2. Cardinality(take[p]) = want[p] /\ want[p] = 1
  <2>1. CASE op[p] = "AutoAssign"
    <3>1. want[p] = 1 /\ take[p] # {} /\ Cardinality(take[p]) <= want[p]
      BY <1>0, <2>1, Zenon DEF TakingOK, ExactLocal, Counting, Deducting
    <3>2. IsFiniteSet(take[p]) /\ Cardinality(take[p]) \in Nat
      BY <1>0, FS_Subset, FS_CardinalityType, HandlesAssumption, Zenon DEF TypeOK
    <3>3. Cardinality(take[p]) # 0
      BY <3>1, <3>2, FS_EmptySet, Zenon
    <3> QED BY ONLY <3>1, <3>2, <3>3
  <2>2. CASE op[p] = "MoveIPToHandle"
    <3>1. want[p] = 1 /\ \E o \in Ordinals : take[p] = {o}
      BY <1>0, <2>2, Zenon DEF TakingOK
    <3> QED BY <3>1, FS_Singleton, Zenon
  <2> QED BY <1>1, <2>1, <2>2, Zenon
<1>3. CASE WriteSucceeds(p)
  <2>1. Kept(p)
    BY <1>0, <1>2, <1>3, Written, Zenon
  <2>2. pc'[p] = "decQuery" /\ ret'[p] = "idle"
    <3>1. CASE op[p] = "AutoAssign"
      <4>1. pc' = [pc EXCEPT ![p] = "decQuery"] /\ ret' = [ret EXCEPT ![p] = "idle"]
        BY <1>2, <1>3, <3>1, Zenon DEF WriteSucceeds, Finish, Decrement, Goto, Set
      <4> QED BY <1>0, <4>1, Zenon DEF TypeOK
    <3>2. CASE op[p] = "MoveIPToHandle"
      BY <1>0, <1>3, <3>2, AfterWriting, Zenon
    <3> QED BY <1>1, <3>1, <3>2, Zenon
  <2>3. ExactLocal(p)'
    BY <1>0, <2>2, Zenon DEF ExactLocal, Counting, Deducting
  <2> QED BY <2>1, <2>3, Zenon
<1>4. CASE WriteConflicts(p) \/ WriteFails(p)
  <2>1. /\ AccountsOK' /\ UNCHANGED <<block, handle>>
        /\ \A h \in Handles, b \in Blocks : InFlight(p, h, b)' = InFlight(p, h, b)
    BY <1>0, <1>1, <1>4, NotWritten, Zenon
  <2>2. Kept(p)
    <3>1. TypeOK'
      BY <2>1, Zenon DEF AccountsOK
    <3>2. ASSUME NEW h \in Handles, NEW b \in Blocks
          PROVE  InFlight(p, h, b) <= InFlight(p, h, b)'
      <4>1. InFlight(p, h, b) \in Nat /\ InFlight(p, h, b)' = InFlight(p, h, b)
        BY <1>0, <2>1, AmountTypes, Zenon
      <4> QED BY ONLY <4>1
    <3> QED BY <1>0, <2>1, <3>1, <3>2, QuietKept, Zenon
  <2>3. pc'[p] = "decQuery" /\ want' = want
    <3>1. pc' = [pc EXCEPT ![p] = "decQuery"] /\ want' = want
      BY <1>1, <1>4, Zenon DEF WriteConflicts, WriteFails, Decrement, Goto
    <3> QED BY <1>0, <3>1, Zenon DEF TypeOK
  <2>4. ExactLocal(p)'
    BY <1>0, <1>2, <2>3, Zenon DEF ExactLocal, Counting
  <2> QED BY <2>2, <2>4, Zenon
<1> QED BY <1>3, <1>4, Zenon DEF Write

(* A read of the handle, to take a count off that is there.                *)
LEMMA DecQueryKept ==
  ASSUME ExactOK, NEW p \in Procs, DecQuery(p)
  PROVE  Kept(p) /\ ExactLocal(p)'
<1>0. /\ AccountsOK /\ TypeOK /\ ExactLocal(p) /\ pc[p] = "decQuery"
      /\ UNCHANGED <<block, op, blk, want, take, ret>>
  BY Zenon DEF ExactOK, AccountsOK, DecQuery, At, SameBlocks
<1>1. AccountsOK' /\ TypeOK'
  BY <1>0, DecQueryOK, Zenon DEF AccountsOK
<1>2. PICK h \in Owing(p) :
        \/ Hdl!Get(p, h) /\ hobj' = Set(hobj, p, handle[h]) /\ Goto(p, "decWrite")
           /\ hdl' = Set(hdl, p, h) /\ UNCHANGED due
        \/ Hdl!DoesNotExist(h) /\ Settled(p, h) /\ UNCHANGED <<hobj, hdl>>
  BY Zenon DEF DecQuery
<1>3. h \in Handles /\ due[p][h] > 0 /\ due[p][h] \in Nat /\ blk[p] \in Blocks
  BY <1>0, Zenon DEF Owing, TypeOK
<1>4. InFlight(p, h, blk[p]) = due[p][h]
  BY ONLY <1>0, <1>3 DEF InFlight
<1>5. due[p][h] <= Count(h, blk[p])
  BY <1>0, <1>3, <1>4, Shares, Zenon
<1>6. handle[h] # NoHandle /\ Count(h, blk[p]) = handle[h][blk[p]]
  <2>1. handle[h] = NoHandle => Count(h, blk[p]) = 0
    BY Zenon DEF Count
  <2>2. handle[h] # NoHandle
    BY ONLY <1>3, <1>5, <2>1
  <2> QED BY <2>2, Zenon DEF Count
<1>7. /\ UNCHANGED <<handle, due>> /\ hobj' = [hobj EXCEPT ![p] = handle[h]]
      /\ pc' = [pc EXCEPT ![p] = "decWrite"] /\ hdl' = [hdl EXCEPT ![p] = h]
  BY <1>2, <1>6, Zenon DEF Hdl!DoesNotExist, Hdl!Get, Set, Goto
<1>8. pc'[p] = "decWrite" /\ hdl'[p] = h /\ hobj'[p] = handle[h] /\ due'[p] = due[p]
  BY <1>0, <1>7, Zenon DEF TypeOK
<1>9. Kept(p)
  <2>1. pc[p] \in Deducting /\ pc'[p] \in Deducting
    BY <1>0, <1>8, Zenon DEF Deducting
  <2> QED BY <1>0, <1>1, <1>7, <1>8, <2>1, OwesStill, Zenon
<1>10. ExactLocal(p)'
  BY <1>0, <1>3, <1>5, <1>6, <1>8, Zenon DEF ExactLocal, Counting, Deducting
<1> QED BY <1>9, <1>10, Zenon

(* The count is taken off; on a conflict it is still owed.                 *)
LEMMA DecWriteKept ==
  ASSUME ExactOK, NEW p \in Procs, DecWrite(p)
  PROVE  Kept(p) /\ ExactLocal(p)'
<1>0. /\ AccountsOK /\ TypeOK /\ ExactLocal(p) /\ pc[p] = "decWrite"
      /\ UNCHANGED <<block, op, hdl, blk, want, take, ret>>
  BY Zenon DEF ExactOK, AccountsOK, DecWrite, At, SameBlocks
<1>1. pc'[p] = "decQuery"
  <2>1. pc' = [pc EXCEPT ![p] = "decQuery"]
    BY Zenon DEF DecWrite, Settled, Goto
  <2> QED BY <1>0, <2>1, Zenon DEF TypeOK
<1>2. ExactLocal(p)'
  BY <1>0, <1>1, Zenon DEF ExactLocal, Counting, Deducting
<1>3. CASE ~Deducts(p)
  <2>1. hdl[p] \in Handles /\ blk[p] \in Blocks /\ due[p][hdl[p]] \in Nat /\ due[p][hdl[p]] > 0
    BY <1>0, Zenon DEF TypeOK, ExactLocal
  <2>2. handle[hdl[p]] # NoHandle
    <3>1. InFlight(p, hdl[p], blk[p]) = due[p][hdl[p]]
      BY ONLY <1>0, <2>1 DEF InFlight
    <3>2. due[p][hdl[p]] <= Count(hdl[p], blk[p])
      BY <1>0, <2>1, <3>1, Shares, Zenon
    <3>3. handle[hdl[p]] = NoHandle => Count(hdl[p], blk[p]) = 0
      BY Zenon DEF Count
    <3> QED BY ONLY <2>1, <3>2, <3>3
  <2>3. ~decrementBlockFails(p)
    <3>1. hobj[p][blk[p]] \in Nat
      BY <1>0, <2>1, Zenon DEF TypeOK, HandleRows
    <3>2. due[p][hdl[p]] <= hobj[p][blk[p]]
      BY <1>0, Zenon DEF ExactLocal
    <3> QED BY ONLY <2>1, <3>1, <3>2 DEF decrementBlockFails
  <2>4. UNCHANGED <<handle, hdlCur, due>>
    BY <1>3, <2>2, <2>3, Zenon DEF DecWrite, Deducts, Hdl!DoesNotExist, Hdl!UpdateConflict, Hdl!storeVars
  <2>5. pc[p] \in Deducting /\ pc'[p] \in Deducting
    BY <1>0, <1>1, Zenon DEF Deducting
  <2>6. TypeOK'
    BY <1>0, <2>4, NotDeducted, Zenon DEF AccountsOK
  <2> QED BY <1>0, <1>2, <2>4, <2>5, <2>6, OwesStill, Zenon
<1>4. CASE Deducts(p)
  BY <1>0, <1>2, <1>4, Deducted, Zenon
<1> QED BY <1>3, <1>4, Zenon

(* The other steps of an operation: p has nothing in flight before them,   *)
(* or counts with the row.                                                 *)
LEMMA OtherKept ==
  ASSUME ExactOK, OneByOne, NEW p \in Procs, AccountsOK', Step(p),
         ~Write(p), ~DecQuery(p), ~DecWrite(p)
  PROVE  Kept(p)
<1>0. AccountsOK /\ TypeOK /\ TypeOK' /\ Separate
  BY Zenon DEF ExactOK, AccountsOK, OneByOne, Separate
<1>1. CASE IncWrite(p) /\ pc'[p] = "write"
  BY <1>0, <1>1, Counted, Zenon
<1>2. CASE RelWrite(p) /\ block[blk[p]] # NoBlock /\ p \in blkCur[blk[p]]
  BY <1>0, <1>2, ReleasedOK, Zenon
<1>3. CASE ~(IncWrite(p) /\ pc'[p] = "write")
           /\ ~(RelWrite(p) /\ block[blk[p]] # NoBlock /\ p \in blkCur[blk[p]])
  <2>1. UNCHANGED <<block, handle>>
    <3>1. CASE Return(p)
      BY <3>1, Zenon DEF Return
    <3>2. CASE \/ BeginAutoAssign(p) \/ BeginAssignIP(p) \/ BeginMoveIPToHandle(p)
               \/ BeginReleaseIPs(p) \/ BeginReleaseByHandle(p) \/ NextBlock(p) \/ MaxAllocReached(p)
               \/ Decremented(p)
      BY <3>1, <3>2, Zenon DEF BeginAutoAssign, BeginAssignIP, BeginMoveIPToHandle, BeginOnAddress,
         BeginReleaseIPs, BeginReleaseByHandle, NextBlock, MaxAllocReached, Decremented, stores
    <3>3. CASE FindBlock(p) \/ AutoAssignQuery(p) \/ AssignIPQuery(p) \/ MoveQuery(p) \/ RelQuery(p)
      BY <3>1, <3>3, Zenon DEF FindBlock, AutoAssignQuery, AssignIPQuery, MoveQuery, RelQuery,
         AutoAssignFrom, queryBlock, NothingToRelease, SameHandles, Blk!Get, Blk!DoesNotExist,
         Blk!storeVars, stores
    <3>4. CASE IncQuery(p)
      BY <3>4, Zenon DEF IncQuery, SameBlocks, Hdl!Get, Hdl!DoesNotExist, Hdl!storeVars
    <3>5. CASE IncWrite(p)
      <4>1. pc' # [pc EXCEPT ![p] = "write"]
        BY <1>0, <1>3, <3>5, Zenon DEF TypeOK
      <4> QED BY <3>5, <4>1, Zenon DEF IncWrite, Goto, SameBlocks, Hdl!AlreadyExists,
                Hdl!UpdateConflict, Hdl!DoesNotExist, Hdl!storeVars
    <3>6. CASE RelWrite(p)
      BY <1>3, <3>6, Zenon DEF RelWrite, SameHandles, Blk!Update, Blk!Delete, Blk!UpdateConflict,
         Blk!DoesNotExist, Blk!storeVars
    <3>7. CASE NoFreeBlocks(p) \/ Crash(p)
      BY <3>1, <3>7, Zenon DEF NoFreeBlocks, Crash
    <3> QED BY <3>2, <3>3, <3>4, <3>5, <3>6, <3>7, Zenon DEF Step
  <2>2. \/ pc[p] \notin {"write", "decQuery", "decWrite"}
        \/ pc[p] \in Deducting /\ Owing(p) = {}
    <3>1. CASE Decremented(p)
      BY <3>1, Zenon DEF Decremented, At, Deducting
    <3>2. CASE ~Decremented(p)
      <4>1. ~Crash(p)
        BY Zenon DEF Crash, OneByOne
      <4>2. pc[p] \in {"idle", "find", "query", "incQuery", "incWrite", "maxAlloc", "nextBlock",
                       "relQuery", "relWrite"}
        BY <3>2, <4>1, Zenon DEF Step, At, Begin, BeginAutoAssign, BeginAssignIP,
           BeginMoveIPToHandle, BeginOnAddress, BeginReleaseIPs, BeginReleaseByHandle, FindBlock,
           NoFreeBlocks, AutoAssignQuery, AssignIPQuery, MoveQuery, IncQuery, IncWrite,
           MaxAllocReached, NextBlock, RelQuery, RelWrite
      <4> QED BY <4>2, Zenon
    <3> QED BY <3>1, <3>2, Zenon
  <2> QED BY <1>0, <2>1, <2>2, IdleKept, Zenon
<1> QED BY <1>1, <1>2, <1>3, Zenon

(* An operation that returns, or begins.                                   *)
LEMMA EndsExact ==
  ASSUME ExactOK, OneByOne, NEW p \in Procs,
         \/ Return(p) \/ BeginAutoAssign(p) \/ BeginAssignIP(p) \/ BeginMoveIPToHandle(p)
         \/ BeginReleaseIPs(p) \/ BeginReleaseByHandle(p)
  PROVE  ExactLocal(p)'
<1>0. TypeOK
  BY Zenon DEF ExactOK, AccountsOK
<1>1. CASE Return(p)
  <2>1. pc'[p] = "idle" /\ op'[p] = "none"
    BY <1>0, <1>1, Zenon DEF Return, Goto, Set, TypeOK
  <2> QED BY <2>1, Zenon DEF ExactLocal, Counting
<1>2. CASE BeginAutoAssign(p)
  <2>1. PICK n \in Nums : want' = [want EXCEPT ![p] = n]
    BY <1>2, Zenon DEF BeginAutoAssign, Set
  <2>2. pc'[p] = "find" /\ op'[p] \in Ops /\ want'[p] = 1
    BY <1>0, <1>2, <2>1, Zenon DEF BeginAutoAssign, Begin, Goto, Set, TypeOK, OneByOne
  <2> QED BY <2>2, Zenon DEF ExactLocal, Counting
<1>3. CASE \/ BeginAssignIP(p) \/ BeginMoveIPToHandle(p) \/ BeginReleaseIPs(p) \/ BeginReleaseByHandle(p)
  <2>1. PICK name \in Ops \ {"AutoAssign"} : op' = [op EXCEPT ![p] = name]
    BY <1>3, Zenon DEF BeginAssignIP, BeginMoveIPToHandle, BeginOnAddress, BeginReleaseIPs,
       BeginReleaseByHandle, Begin, Set
  <2>2. PICK l \in {"query", "relQuery", "nextBlock"} : pc' = [pc EXCEPT ![p] = l]
    BY <1>3, Zenon DEF BeginAssignIP, BeginMoveIPToHandle, BeginOnAddress, BeginReleaseIPs,
       BeginReleaseByHandle, Goto
  <2>3. op'[p] = name /\ pc'[p] = l
    BY <1>0, <2>1, <2>2, Zenon DEF TypeOK
  <2> QED BY <2>1, <2>2, <2>3, Zenon DEF ExactLocal, Counting
<1> QED BY <1>1, <1>2, <1>3, Zenon

(* A read of the block, which AutoAssign leaves with an address to write.  *)
LEMMA ReadsExact ==
  ASSUME ExactOK, OneByOne, NEW p \in Procs, ~Return(p),
         FindBlock(p) \/ AutoAssignQuery(p) \/ AssignIPQuery(p) \/ MoveQuery(p)
  PROVE  ExactLocal(p)'
<1>0. TypeOK /\ TakingOK(p) /\ ExactLocal(p)
  BY Zenon DEF ExactOK, AccountsOK
<1>1. UNCHANGED <<op, want>> /\ pc[p] \in {"find", "query"}
  BY Zenon DEF FindBlock, AutoAssignQuery, AssignIPQuery, MoveQuery, At
<1>2. PICK l \in {"find", "incQuery"} : pc' = [pc EXCEPT ![p] = l]
  BY Zenon DEF FindBlock, AutoAssignQuery, AutoAssignFrom, AssignIPQuery, MoveQuery, Goto
<1>3. pc'[p] = l
  BY <1>0, <1>2, Zenon DEF TypeOK
<1>4. l = "incQuery" => take'[p] # {}
  <2>1. CASE FindBlock(p) \/ AutoAssignQuery(p)
    <3> SUFFICES ASSUME l = "incQuery"
                 PROVE  take'[p] # {}
      OBVIOUS
    <3>1. pc' # [pc EXCEPT ![p] = "find"]
      BY <1>0, <1>3, Zenon DEF TypeOK
    <3>2. PICK b \in Blocks : \E S \in Taking(p, block[b]) : take' = [take EXCEPT ![p] = S]
      BY <1>0, <2>1, <3>1, Zenon DEF FindBlock, AutoAssignQuery, AutoAssignFrom, Goto, Set, TypeOK
    <3>3. PICK S \in Taking(p, block[b]) : take' = [take EXCEPT ![p] = S]
      BY <3>2, Zenon
    <3>4. S # {}
      BY Zenon DEF Taking
    <3> QED BY <1>0, <3>3, <3>4, Zenon DEF TypeOK
  <2>2. CASE AssignIPQuery(p) \/ MoveQuery(p)
    <3>1. take' = take /\ op[p] \in {"AssignIP", "MoveIPToHandle"}
      BY <2>2, Zenon DEF AssignIPQuery, MoveQuery
    <3> QED BY <1>0, <3>1, Zenon DEF TakingOK
  <2> QED BY <2>1, <2>2, Zenon
<1> QED BY <1>0, <1>1, <1>2, <1>3, <1>4, Zenon DEF ExactLocal, Counting, Deducting

(* The steps that leave the request as it is.                              *)
LEMMA GoesOnExact ==
  ASSUME ExactOK, OneByOne, NEW p \in Procs, ~Return(p),
         \/ IncQuery(p) \/ IncWrite(p) \/ MaxAllocReached(p) \/ Decremented(p)
         \/ NextBlock(p) \/ RelQuery(p) \/ RelWrite(p)
  PROVE  ExactLocal(p)'
<1>0. TypeOK /\ TakingOK(p) /\ FlowOK(p) /\ ExactLocal(p)
  BY Zenon DEF ExactOK, AccountsOK
<1>1. UNCHANGED <<op, want, take>>
  BY Zenon DEF IncQuery, IncWrite, MaxAllocReached, Decremented, NextBlock, RelQuery, RelWrite,
     NothingToRelease, locals
<1>2. CASE IncQuery(p) \/ IncWrite(p)
  <2>1. pc[p] \in {"incQuery", "incWrite"}
    BY <1>2, Zenon DEF IncQuery, IncWrite, At
  <2>2. PICK l \in {"incQuery", "incWrite", "maxAlloc", "write"} : pc' = [pc EXCEPT ![p] = l]
    BY <1>2, Zenon DEF IncQuery, IncWrite, Goto
  <2>3. pc'[p] = l
    BY <1>0, <2>2, Zenon DEF TypeOK
  <2> QED BY <1>0, <1>1, <2>1, <2>2, <2>3, Zenon DEF ExactLocal, Counting, Deducting
<1>3. CASE MaxAllocReached(p) \/ NextBlock(p) \/ RelQuery(p) \/ RelWrite(p)
  <2>1. pc[p] \in {"maxAlloc", "nextBlock", "relQuery", "relWrite"}
    BY <1>3, Zenon DEF MaxAllocReached, NextBlock, RelQuery, RelWrite, At
  <2>2. PICK l \in {"query", "nextBlock", "relQuery", "relWrite", "decQuery"} : pc' = [pc EXCEPT ![p] = l]
    BY <1>3, Zenon DEF MaxAllocReached, NextBlock, RelQuery, RelWrite, NothingToRelease, Decrement, Goto
  <2>3. pc'[p] = l
    BY <1>0, <2>2, Zenon DEF TypeOK
  <2> QED BY <1>0, <1>1, <2>1, <2>2, <2>3, Zenon DEF ExactLocal, Counting, Deducting
<1>4. CASE Decremented(p)
  <2>1. pc[p] = "decQuery" /\ ret[p] # "idle" /\ pc' = [pc EXCEPT ![p] = ret[p]]
    BY <1>4, Zenon DEF Decremented, At, Goto
  <2>2. pc'[p] \in {"find", "query", "nextBlock"}
    BY <1>0, <2>1, Zenon DEF TypeOK, FlowOK
  <2> QED BY <1>0, <1>1, <2>1, <2>2, Zenon DEF ExactLocal, Counting, Deducting
<1> QED BY <1>2, <1>3, <1>4, Zenon

(* What the counts are compared with is a number.                          *)
LEMMA OwedTypes ==
  ASSUME AccountsOK, NEW h \in Handles, NEW b \in Blocks
  PROVE  Cardinality(Allocs(h, b)) \in Nat /\ Cardinality(Owed(h, b)) \in Nat
<1> DEFINE n == [p \in Procs |-> InFlight(p, h, b)]
<1>1. n \in [Procs -> Nat] /\ Owed(h, b) = Tokens(n, Procs) /\ Cardinality(Allocs(h, b)) \in Nat
  BY AmountTypes, Zenon DEF AccountsOK
<1> HIDE DEF n
<1> QED BY <1>1, TokensFinite, HandlesAssumption, Zenon

(* So every step leaves no count behind.                                   *)
LEMMA ExactNext ==
  ASSUME ExactOK, OneByOne, [Next]_vars
  PROVE  ExactOK'
<1>0. AccountsOK /\ TypeOK /\ NoMore /\ Separate
  BY Zenon DEF ExactOK, AccountsOK, OneByOne, Separate
<1>1. AccountsOK' /\ TypeOK'
  BY <1>0, NextOK, Zenon DEF AccountsOK
<1>2. ASSUME NEW p \in Procs, Step(p)
      PROVE  ExactOK'
  <2>1. OthersKeep(p)
    BY <1>0, <1>2, OperationOK, Zenon
  <2>2. Kept(p)
    BY <1>1, <1>2, WriteKept, DecQueryKept, DecWriteKept, OtherKept, Zenon
  <2>3. ExactLocal(p)'
    <3>1. CASE Return(p)
      BY <3>1, EndsExact, Zenon
    <3>2. CASE ~Return(p)
      <4>1. ~NoFreeBlocks(p) /\ ~Crash(p)
        BY <3>2, Zenon DEF NoFreeBlocks, Crash
      <4> QED BY <1>2, <3>2, <4>1, EndsExact, ReadsExact, GoesOnExact, WriteKept, DecQueryKept,
                DecWriteKept, ZenonT(30) DEF Step
    <3> QED BY <3>1, <3>2, Zenon
  <2>4. ASSUME NEW q \in Procs \ {p}
        PROVE  ExactLocal(q)'
    <3>1. ExactLocal(q)
      BY Zenon DEF ExactOK
    <3>2. /\ pc'[q] = pc[q] /\ op'[q] = op[q] /\ hdl'[q] = hdl[q] /\ blk'[q] = blk[q] /\ want'[q] = want[q]
          /\ take'[q] = take[q] /\ hobj'[q] = hobj[q] /\ due'[q] = due[q] /\ ret'[q] = ret[q]
      BY <2>1, Zenon DEF OthersKeep
    <3> QED BY <3>1, <3>2, Zenon DEF ExactLocal
  <2>5. NoMore'
    BY <1>0, <1>1, <2>1, <2>2, KeptKeeps, Zenon
  <2> QED BY <1>1, <2>3, <2>4, <2>5, Zenon DEF ExactOK
<1>3. ASSUME UNCHANGED <<handle, pc, locals>>,
             \A h \in Handles, b \in Blocks : Allocs(h, b)' = Allocs(h, b)
      PROVE  ExactOK'
  <2>1. ASSUME NEW h \in Handles, NEW b \in Blocks
        PROVE  Owed(h, b)' = Owed(h, b) /\ Count(h, b)' = Count(h, b)
    BY <1>3, Zenon DEF Owed, InFlight, Count, locals
  <2>2. NoMore'
    BY <1>0, <1>3, <2>1, Zenon DEF NoMore
  <2>3. \A p \in Procs : ExactLocal(p)'
    BY <1>3, Zenon DEF ExactOK, ExactLocal, locals
  <2> QED BY <1>1, <2>2, <2>3, Zenon DEF ExactOK
<1>4. ASSUME NEW b \in Blocks, ClaimBlock(b) \/ ReleaseAffinity(b)
      PROVE  ExactOK'
  <2>1. UNCHANGED <<handle, pc, locals>>
    BY <1>4, Zenon DEF ClaimBlock, ReleaseAffinity, SameHandles
  <2> QED BY <1>0, <1>3, <1>4, <2>1, AffinityOK, Zenon
<1>5. CASE UNCHANGED vars
  <2>1. UNCHANGED <<block, handle, pc, locals>>
    BY <1>5, Zenon DEF vars, stores
  <2>2. \A h \in Handles, b \in Blocks : Allocs(h, b)' = Allocs(h, b)
    BY <2>1, Zenon DEF Allocs, Held
  <2> QED BY <1>3, <2>1, <2>2, Zenon
<1> QED BY <1>2, <1>4, <1>5, Zenon DEF Next

(* Of requests of one address each, and as long as nobody dies and no      *)
(* affinity is released, a handle row counts exactly the addresses that    *)
(* are assigned when nothing is in flight (totalCount, ipam_handle.go): no *)
(* count is left behind for a row that decrementHandle would never delete. *)
THEOREM HandleCountsExact ==
  ASSUME OneByOne
  PROVE  Spec => []CountsExact
<1>1. Init => ExactOK
  <2> SUFFICES ASSUME Init
               PROVE  ExactOK
    OBVIOUS
  <2>1. AccountsOK
    BY InitOK, Zenon
  <2>2. \A p \in Procs : ExactLocal(p)
    BY Zenon DEF Init, ExactLocal, Counting
  <2>3. ASSUME NEW h \in Handles, NEW b \in Blocks
        PROVE  Count(h, b) <= Cardinality(Allocs(h, b)) + Cardinality(Owed(h, b))
    <3>1. Count(h, b) = 0
      BY Zenon DEF Init, Hdl!StoreInit, Count
    <3>2. Cardinality(Allocs(h, b)) \in Nat /\ Cardinality(Owed(h, b)) \in Nat
      BY <2>1, OwedTypes, Zenon
    <3> QED BY ONLY <3>1, <3>2
  <2> QED BY <2>1, <2>2, <2>3, Zenon DEF ExactOK, NoMore
<1>2. ExactOK /\ [Next]_vars => ExactOK'
  BY ExactNext, Zenon
<1>3. ExactOK => CountsExact
  <2> SUFFICES ASSUME ExactOK, \A p \in Procs : pc[p] = "idle", NEW h \in Handles, NEW b \in Blocks
               PROVE  Count(h, b) = Cardinality(Allocs(h, b))
    BY Zenon DEF CountsExact
  <2>1. \A p \in Procs : InFlight(p, h, b) = 0
    BY DEF InFlight
  <2>2. Owed(h, b) = {}
    BY ONLY <2>1 DEF Owed
  <2>3. /\ Cardinality(Allocs(h, b)) + Cardinality(Owed(h, b)) <= Count(h, b)
        /\ Count(h, b) <= Cardinality(Allocs(h, b)) + Cardinality(Owed(h, b))
    BY Zenon DEF ExactOK, NoMore, AccountsOK, ClaimsCovered
  <2>4. Cardinality(Allocs(h, b)) \in Nat /\ Count(h, b) \in Nat
    BY AmountTypes, Zenon DEF ExactOK, AccountsOK
  <2> QED BY ONLY <2>2, <2>3, <2>4, FS_EmptySet
<1> QED BY <1>1, <1>2, <1>3, PTL DEF Spec

-----------------------------------------------------------------------------
(* The cap.                                                                *)

(* totalCount counts tokens, so that a row whose entry of one block        *)
(* changes counts as many more or fewer.                                   *)
LEMMA TotalMoves ==
  ASSUME NEW row \in HandleRows, NEW b \in Blocks, NEW n \in Nat
  PROVE  /\ totalCount(row) \in Nat /\ totalCount([row EXCEPT ![b] = n]) \in Nat
         /\ totalCount([row EXCEPT ![b] = n]) + row[b] = totalCount(row) + n
<1> DEFINE new == [row EXCEPT ![b] = n]
<1>1. row \in [Blocks -> Nat] /\ new \in [Blocks -> Nat] /\ new[b] = n
  BY Zenon DEF HandleRows
<1>2. \A c \in Blocks \ {b} : new[c] = row[c]
  BY <1>1, Zenon
<1>3. totalCount(row) = Cardinality(Tokens(row, Blocks)) /\ totalCount(new) = Cardinality(Tokens(new, Blocks))
  BY Zenon DEF totalCount, Tokens
<1> HIDE DEF new
<1>4. Cardinality(Tokens(row, Blocks)) \in Nat /\ Cardinality(Tokens(new, Blocks)) \in Nat
  BY <1>1, HandlesAssumption, TokensFinite, Zenon
<1>5. Cardinality(Tokens(new, Blocks)) + row[b] = Cardinality(Tokens(row, Blocks)) + new[b]
  BY ONLY <1>1, <1>2, HandlesAssumption, TokensMove
<1> QED BY <1>1, <1>3, <1>4, <1>5, Zenon DEF new

(* A new row counts nothing.                                               *)
LEMMA TotalOfNew == NewRow \in HandleRows /\ totalCount(NewRow) = 0
<1>1. NewRow \in HandleRows
  BY Zenon DEF NewRow, HandleRows
<1>2. UNION {{b} \X (1..NewRow[b]) : b \in Blocks} = {}
  BY DEF NewRow
<1> QED BY <1>1, <1>2, FS_EmptySet, Zenon DEF totalCount

(* The copy of the row that p is about to add to.                          *)
Copy(p) == IF hobj[p] = NoHandle THEN NewRow ELSE hobj[p]

(* No row counts more than the cap, and nor will one that is about to be   *)
(* written.                                                                *)
CapOK ==
  /\ \A p \in Procs : op[p] \in Ops \cup {"none"}
  /\ \A h \in Handles : handle[h] # NoHandle => totalCount(handle[h]) <= MaxAlloc
  /\ \A p \in Procs : pc[p] = "incWrite" => totalCount(Copy(p)) + want[p] <= MaxAlloc

(* Only p moves.                                                           *)
Apart(p) ==
  \A q \in Procs \ {p} : pc'[q] = pc[q] /\ op'[q] = op[q] /\ want'[q] = want[q] /\ hobj'[q] = hobj[q]

(* A step that writes no handle row and does not check the cap.            *)
LEMMA CapQuiet ==
  ASSUME AccountsOK, CapOK, NEW p \in Procs, Apart(p), handle' = handle,
         op'[p] \in Ops \cup {"none"}, pc'[p] # "incWrite"
  PROVE  CapOK'
<1>1. \A q \in Procs : op'[q] \in Ops \cup {"none"}
  BY Zenon DEF Apart, CapOK
<1>2. ASSUME NEW q \in Procs, pc'[q] = "incWrite" PROVE totalCount(Copy(q)') + want'[q] <= MaxAlloc
  <2>1. q \in Procs \ {p} /\ pc[q] = "incWrite" /\ want'[q] = want[q] /\ hobj'[q] = hobj[q]
    BY <1>2, Zenon DEF Apart
  <2>2. Copy(q)' = Copy(q)
    BY <2>1, Zenon DEF Copy
  <2> QED BY <2>1, <2>2, Zenon DEF CapOK
<1> QED BY <1>1, <1>2, Zenon DEF CapOK

(* The cap is checked against the row that is about to be written.         *)
LEMMA CapChecked ==
  ASSUME AccountsOK, CapOK, NEW p \in Procs, IncQuery(p), Apart(p),
         MaxAlloc > 0, "MoveIPToHandle" \notin Ops
  PROVE  CapOK'
<1>0. /\ handle' = handle /\ op' = op /\ want' = want /\ op[p] # "MoveIPToHandle"
      /\ hdl[p] \in Handles /\ hobj \in [Procs -> HandleRows \cup {NoHandle}]
      /\ handle \in [Handles -> HandleRows \cup {NoHandle}] /\ want[p] \in Nat
      /\ pc \in [Procs -> Labels]
  BY Zenon DEF IncQuery, Hdl!Get, Hdl!DoesNotExist, Hdl!storeVars, AccountsOK, TypeOK, Hdl!StoreTypeOK, CapOK
<1>1. hobj'[p] = handle[hdl[p]]
  BY <1>0, Zenon DEF IncQuery, Hdl!Get, Hdl!DoesNotExist, Set
<1>2. pc'[p] = "incWrite" => ~OverCap(p, Copy(p)')
  BY <1>0, <1>1, Zenon DEF IncQuery, Goto, Copy
<1>3. Copy(p)' \in HandleRows
  BY <1>0, <1>1, TotalOfNew, Zenon DEF Copy
<1>4. pc'[p] = "incWrite" => totalCount(Copy(p)') + want'[p] <= MaxAlloc
  <2>1. totalCount(Copy(p)') \in Nat
    <3>1. \E b : b \in Blocks
      BY HandlesAssumption, Zenon
    <3> QED BY <1>3, <3>1, TotalMoves, Zenon
  <2>2. MaxAlloc \in Nat
    BY HandlesAssumption, Zenon
  <2>3. pc'[p] = "incWrite" => ~(totalCount(Copy(p)') + want[p] > MaxAlloc)
    BY <1>0, <1>2, Zenon DEF OverCap
  <2>4. want'[p] = want[p] /\ want[p] \in Nat
    BY <1>0, Zenon
  <2> QED BY ONLY <2>1, <2>2, <2>3, <2>4
<1>5. ASSUME NEW q \in Procs \ {p}, pc'[q] = "incWrite" PROVE totalCount(Copy(q)') + want'[q] <= MaxAlloc
  <2>1. pc[q] = "incWrite" /\ want'[q] = want[q] /\ hobj'[q] = hobj[q]
    BY <1>5, Zenon DEF Apart
  <2>2. Copy(q)' = Copy(q)
    BY <2>1, Zenon DEF Copy
  <2> QED BY <2>1, <2>2, Zenon DEF CapOK
<1> QED BY <1>0, <1>4, <1>5, Zenon DEF CapOK

(* What p does when it neither counts nor takes a count off.               *)
Quiet(p) == Apart(p) /\ op'[p] \in Ops \cup {"none", op[p]} /\ pc'[p] # "incWrite" /\ handle' = handle

(* Back to the caller.                                                     *)
LEMMA ReturnQuiet ==
  ASSUME AccountsOK, NEW p \in Procs, Return(p)
  PROVE  Quiet(p)
<1>1. /\ pc \in [Procs -> Labels] /\ op \in [Procs -> AllOps \cup {"none"}]
      /\ want \in [Procs -> Nat] /\ hobj \in [Procs -> HandleRows \cup {NoHandle}]
  BY Zenon DEF AccountsOK, TypeOK
<1> QED BY <1>1, Zenon DEF Return, Goto, Set, Quiet, Apart

(* An operation begins, or looks for a block.                              *)
LEMMA BeginQuiet ==
  ASSUME AccountsOK, NEW p \in Procs,
         \/ BeginAutoAssign(p) \/ BeginAssignIP(p) \/ BeginMoveIPToHandle(p)
         \/ BeginReleaseIPs(p) \/ BeginReleaseByHandle(p) \/ FindBlock(p)
  PROVE  Quiet(p)
<1>1. /\ pc \in [Procs -> Labels] /\ op \in [Procs -> AllOps \cup {"none"}]
      /\ want \in [Procs -> Nat] /\ hobj \in [Procs -> HandleRows \cup {NoHandle}]
  BY Zenon DEF AccountsOK, TypeOK
<1> USE DEF Begin, Goto, Set, At, Quiet, Apart, stores, SameHandles
<1>2. CASE BeginAutoAssign(p)
  BY <1>1, <1>2, Zenon DEF BeginAutoAssign
<1>3. CASE BeginAssignIP(p) \/ BeginMoveIPToHandle(p)
  BY <1>1, <1>3, Zenon DEF BeginAssignIP, BeginMoveIPToHandle, BeginOnAddress
<1>4. CASE BeginReleaseIPs(p)
  BY <1>1, <1>4, Zenon DEF BeginReleaseIPs
<1>5. CASE BeginReleaseByHandle(p)
  BY <1>1, <1>5, Zenon DEF BeginReleaseByHandle
<1>6. CASE FindBlock(p)
  BY <1>1, <1>6, Zenon DEF FindBlock, AutoAssignFrom
<1> QED BY <1>2, <1>3, <1>4, <1>5, <1>6, Zenon

(* A block is read.                                                        *)
LEMMA QueryQuiet ==
  ASSUME AccountsOK, NEW p \in Procs,
         \/ AutoAssignQuery(p) \/ AssignIPQuery(p) \/ MoveQuery(p) \/ NextBlock(p) \/ RelQuery(p)
  PROVE  Quiet(p)
<1>1. /\ pc \in [Procs -> Labels] /\ op \in [Procs -> AllOps \cup {"none"}]
      /\ want \in [Procs -> Nat] /\ hobj \in [Procs -> HandleRows \cup {NoHandle}]
  BY Zenon DEF AccountsOK, TypeOK
<1>2. CASE AutoAssignQuery(p)
  BY <1>1, <1>2, Zenon DEF AutoAssignQuery, AutoAssignFrom, Goto, Set, At, Quiet, Apart, SameHandles
<1>3. CASE Return(p)
  BY <1>3, ReturnQuiet, Zenon
<1>4. CASE AssignIPQuery(p) /\ ~Return(p)
  BY <1>1, <1>4, Zenon DEF AssignIPQuery, Goto, Set, At, Quiet, Apart, SameHandles
<1>5. CASE MoveQuery(p) /\ ~Return(p)
  BY <1>1, <1>5, Zenon DEF MoveQuery, Goto, Set, At, Quiet, Apart, SameHandles
<1>6. CASE NextBlock(p) /\ ~Return(p)
  BY <1>1, <1>6, Zenon DEF NextBlock, Goto, Set, At, Quiet, Apart, stores
<1>7. CASE RelQuery(p) /\ ~Return(p)
  BY <1>1, <1>7, Zenon DEF RelQuery, NothingToRelease, Goto, Set, At, Quiet, Apart, SameHandles, stores, locals
<1> QED BY <1>2, <1>3, <1>4, <1>5, <1>6, <1>7, Zenon

(* A block is written, or the cap is met.                                  *)
LEMMA WriteQuiet ==
  ASSUME AccountsOK, NEW p \in Procs, Write(p) \/ RelWrite(p) \/ MaxAllocReached(p)
  PROVE  Quiet(p)
<1>1. /\ pc \in [Procs -> Labels] /\ op \in [Procs -> AllOps \cup {"none"}]
      /\ want \in [Procs -> Nat] /\ hobj \in [Procs -> HandleRows \cup {NoHandle}]
      /\ ret \in [Procs -> Labels]
  BY Zenon DEF AccountsOK, TypeOK
<1>2. CASE Write(p)
  <2>1. op[p] \in {"AutoAssign", "AssignIP", "MoveIPToHandle"}
    BY <1>2, Zenon DEF AccountsOK, TakingOK, Counting, Write, At
  <2>2. pc' = [pc EXCEPT ![p] = pc'[p]] /\ pc'[p] \in {"decQuery", "find", "query"}
    BY <1>1, <1>2, <2>1, Zenon DEF Write, WriteSucceeds, WriteConflicts, WriteFails, Finish, Decrement, Goto
  <2>3. want' = [want EXCEPT ![p] = want'[p]]
    BY <1>1, <1>2, <2>1, Zenon DEF Write, WriteSucceeds, WriteConflicts, WriteFails, Set
  <2>4. op' = op /\ hobj' = hobj /\ handle' = handle
    BY <1>2, Zenon DEF Write, SameHandles
  <2> QED BY <1>1, <2>2, <2>3, <2>4, Zenon DEF Quiet, Apart
<1>3. CASE RelWrite(p)
  <2>1. pc' = [pc EXCEPT ![p] = pc'[p]] /\ pc'[p] \in {"decQuery", "relQuery"}
    BY <1>1, <1>3, Zenon DEF RelWrite, Decrement, Goto
  <2>2. op' = op /\ hobj' = hobj /\ handle' = handle /\ want' = want
    BY <1>3, Zenon DEF RelWrite, SameHandles
  <2> QED BY <1>1, <2>1, <2>2, Zenon DEF Quiet, Apart
<1>4. CASE MaxAllocReached(p) /\ Return(p)
  BY <1>4, ReturnQuiet, Zenon
<1>5. CASE MaxAllocReached(p) /\ ~Return(p)
  BY <1>1, <1>5, Zenon DEF MaxAllocReached, Goto, Quiet, Apart, stores, locals
<1> QED BY <1>2, <1>3, <1>4, <1>5, Zenon

(* decrementHandle reads a row, or there is none left to do.               *)
LEMMA DecQuiet ==
  ASSUME AccountsOK, NEW p \in Procs, DecQuery(p) \/ Decremented(p)
  PROVE  Quiet(p)
<1>1. /\ pc \in [Procs -> Labels] /\ op \in [Procs -> AllOps \cup {"none"}]
      /\ want \in [Procs -> Nat] /\ hobj \in [Procs -> HandleRows \cup {NoHandle}]
      /\ ret[p] \in {"idle", "find", "query", "nextBlock"}
  BY Zenon DEF AccountsOK, TypeOK, FlowOK
<1>2. CASE DecQuery(p)
  BY <1>1, <1>2, Zenon DEF DecQuery, Settled, Goto, Set, Quiet, Apart, Hdl!Get, Hdl!DoesNotExist, Hdl!storeVars
<1>3. CASE Decremented(p) /\ Return(p)
  BY <1>3, ReturnQuiet, Zenon
<1>4. CASE Decremented(p) /\ ~Return(p)
  BY <1>1, <1>4, Zenon DEF Decremented, Goto, Quiet, Apart, stores, locals
<1> QED BY <1>2, <1>3, <1>4, Zenon

(* A row that is written counts no more than the cap.                      *)
LEMMA CapWritten ==
  ASSUME AccountsOK, CapOK, NEW p \in Procs, Apart(p), op'[p] = op[p], pc'[p] # "incWrite",
         NEW h \in Handles, NEW row \in HandleRows \cup {NoHandle},
         handle' = [handle EXCEPT ![h] = row], row # NoHandle => totalCount(row) <= MaxAlloc
  PROVE  CapOK'
<1>1. handle \in [Handles -> HandleRows \cup {NoHandle}]
  BY Zenon DEF AccountsOK, TypeOK, Hdl!StoreTypeOK
<1>2. \A g \in Handles : handle'[g] # NoHandle => totalCount(handle'[g]) <= MaxAlloc
  BY <1>1, Zenon DEF CapOK
<1>3. \A q \in Procs : op'[q] \in Ops \cup {"none"}
  BY Zenon DEF Apart, CapOK
<1>4. ASSUME NEW q \in Procs, pc'[q] = "incWrite" PROVE totalCount(Copy(q)') + want'[q] <= MaxAlloc
  <2>1. q \in Procs \ {p} /\ pc[q] = "incWrite" /\ want'[q] = want[q] /\ hobj'[q] = hobj[q]
    BY <1>4, Zenon DEF Apart
  <2>2. Copy(q)' = Copy(q)
    BY <2>1, Zenon DEF Copy
  <2> QED BY <2>1, <2>2, Zenon DEF CapOK
<1> QED BY <1>2, <1>3, <1>4, Zenon DEF CapOK

(* incrementHandle adds no more than the cap allows.                       *)
LEMMA CapCounted ==
  ASSUME AccountsOK, CapOK, NEW p \in Procs, IncWrite(p)
  PROVE  CapOK'
<1>1. /\ pc \in [Procs -> Labels] /\ op' = op /\ want' = want
      /\ hobj \in [Procs -> HandleRows \cup {NoHandle}]
      /\ handle \in [Handles -> HandleRows \cup {NoHandle}]
      /\ hdl[p] \in Handles /\ blk[p] \in Blocks /\ want[p] \in Nat /\ pc[p] = "incWrite"
      /\ op[p] \in Ops \cup {"none"}
  BY Zenon DEF AccountsOK, TypeOK, Hdl!StoreTypeOK, IncWrite, At, CapOK
<1>2. Apart(p) /\ pc'[p] # "incWrite"
  BY <1>1, Zenon DEF IncWrite, Goto, Set, Apart
<1> DEFINE row == incrementBlock(Copy(p), blk[p], want[p])
<1>3. handle' = handle \/ handle' = [handle EXCEPT ![hdl[p]] = row]
  BY <1>1, Zenon DEF IncWrite, Copy, Hdl!Create, Hdl!AlreadyExists, Hdl!Update, Hdl!UpdateConflict,
     Hdl!DoesNotExist, Hdl!storeVars
<1>4. Copy(p) \in HandleRows
  BY <1>1, TotalOfNew, Zenon DEF Copy
<1>5. row = [Copy(p) EXCEPT ![blk[p]] = Copy(p)[blk[p]] + want[p]] /\ row \in HandleRows
  BY ONLY <1>1, <1>4 DEF incrementBlock, HandleRows
<1>6. totalCount(row) <= MaxAlloc
  <2>1. Copy(p)[blk[p]] \in Nat /\ Copy(p)[blk[p]] + want[p] \in Nat
    BY ONLY <1>1, <1>4 DEF HandleRows
  <2>2. /\ totalCount(Copy(p)) \in Nat /\ totalCount(row) \in Nat
        /\ totalCount(row) + Copy(p)[blk[p]] = totalCount(Copy(p)) + (Copy(p)[blk[p]] + want[p])
    BY ONLY <1>1, <1>4, <1>5, <2>1, TotalMoves
  <2>3. totalCount(Copy(p)) + want[p] <= MaxAlloc
    BY <1>1, Zenon DEF CapOK
  <2> HIDE DEF row
  <2> QED BY ONLY <1>1, <2>1, <2>2, <2>3, HandlesAssumption
<1> HIDE DEF row
<1>7. CASE handle' = handle
  BY <1>1, <1>2, <1>7, CapQuiet, Zenon
<1>8. CASE handle' = [handle EXCEPT ![hdl[p]] = row]
  BY <1>1, <1>2, <1>5, <1>6, <1>8, CapWritten, Zenon
<1> QED BY <1>3, <1>7, <1>8, Zenon

(* decrementHandle only takes off.                                         *)
LEMMA CapDeducted ==
  ASSUME AccountsOK, CapOK, NEW p \in Procs, DecWrite(p)
  PROVE  CapOK'
<1>1. /\ pc \in [Procs -> Labels] /\ op' = op /\ want' = want
      /\ hobj \in [Procs -> HandleRows \cup {NoHandle}] /\ hobj[p] \in HandleRows
      /\ handle \in [Handles -> HandleRows \cup {NoHandle}]
      /\ hdl[p] \in Handles /\ blk[p] \in Blocks /\ due[p][hdl[p]] \in Nat /\ pc[p] = "decWrite"
      /\ op[p] \in Ops \cup {"none"}
  BY Zenon DEF AccountsOK, TypeOK, Hdl!StoreTypeOK, DecWrite, At, CapOK
<1>2. Apart(p) /\ pc'[p] # "incWrite"
  BY <1>1, Zenon DEF DecWrite, Settled, Goto, Set, Apart
<1> DEFINE n == hobj[p][blk[p]] - due[p][hdl[p]]
           row == [hobj[p] EXCEPT ![blk[p]] = n]
<1>3. decrementBlock(hobj[p], blk[p], due[p][hdl[p]]) = row
  BY <1>1, Zenon DEF decrementBlock
<1>4. CASE handle' = handle
  BY <1>1, <1>2, <1>4, CapQuiet, Zenon
<1>5. CASE Hdl!Delete(p, hdl[p])
  <2>1. handle' = [handle EXCEPT ![hdl[p]] = NoHandle]
    BY <1>5, Zenon DEF Hdl!Delete
  <2> QED BY <1>1, <1>2, <2>1, CapWritten, Zenon
<1>6. CASE Hdl!Update(p, hdl[p], row) /\ ~decrementBlockFails(p)
  <2>1. handle' = [handle EXCEPT ![hdl[p]] = row] /\ p \in hdlCur[hdl[p]]
    BY <1>6, Zenon DEF Hdl!Update
  <2>2. handle[hdl[p]] = hobj[p] /\ hobj[p] # NoHandle
    BY <1>1, <2>1, AbsentAssumption, Zenon DEF AccountsOK, CopiesOK
  <2>3. hobj[p][blk[p]] \in Nat /\ n \in Nat /\ row \in HandleRows
    BY ONLY <1>1, <1>6 DEF decrementBlockFails, HandleRows
  <2>4. /\ totalCount(hobj[p]) \in Nat /\ totalCount(row) \in Nat
        /\ totalCount(row) + hobj[p][blk[p]] = totalCount(hobj[p]) + n
    BY ONLY <1>1, <2>3, TotalMoves
  <2>5. totalCount(hobj[p]) <= MaxAlloc
    BY <1>1, <2>2, Zenon DEF CapOK
  <2>6. totalCount(row) <= MaxAlloc
    <3> HIDE DEF row
    <3> QED BY ONLY <1>1, <2>3, <2>4, <2>5, HandlesAssumption
  <2> HIDE DEF row
  <2> QED BY <1>1, <1>2, <2>1, <2>3, <2>6, CapWritten, Zenon
<1>7. handle' = handle \/ Hdl!Delete(p, hdl[p]) \/ (Hdl!Update(p, hdl[p], row) /\ ~decrementBlockFails(p))
  BY <1>3, Zenon DEF DecWrite, Hdl!UpdateConflict, Hdl!DoesNotExist, Hdl!storeVars, SameHandles
<1> QED BY <1>4, <1>5, <1>6, <1>7, Zenon

(* Every step keeps to the cap.                                            *)
LEMMA CapStep ==
  ASSUME AccountsOK, CapOK, [Next]_vars, MaxAlloc > 0, "MoveIPToHandle" \notin Ops
  PROVE  CapOK'
<1>1. ASSUME NEW p \in Procs, Quiet(p) PROVE CapOK'
  <2>1. op'[p] \in Ops \cup {"none"}
    BY <1>1, Zenon DEF Quiet, CapOK
  <2> QED BY <1>1, <2>1, CapQuiet, Zenon DEF Quiet
<1>2. ASSUME NEW p \in Procs, Step(p) PROVE CapOK'
  <2>1. CASE IncQuery(p)
    <3>1. Apart(p)
      BY <2>1, Zenon DEF IncQuery, Apart, Set, Goto, AccountsOK, TypeOK
    <3> QED BY <2>1, <3>1, CapChecked, ZenonT(30)
  <2>2. CASE IncWrite(p)
    BY <2>2, CapCounted, Zenon
  <2>3. CASE DecWrite(p)
    BY <2>3, CapDeducted, Zenon
  <2>4. CASE NoFreeBlocks(p) \/ Crash(p)
    BY <1>1, <2>4, ReturnQuiet, Zenon DEF NoFreeBlocks, Crash
  <2>5. CASE ~(IncQuery(p) \/ IncWrite(p) \/ DecWrite(p) \/ NoFreeBlocks(p) \/ Crash(p))
    <3>1. Quiet(p)
      BY <1>2, <2>5, BeginQuiet, QueryQuiet, WriteQuiet, DecQuiet, Zenon DEF Step
    <3> QED BY <1>1, <3>1, Zenon
  <2> QED BY <2>1, <2>2, <2>3, <2>4, <2>5, Zenon
<1>3. CASE UNCHANGED <<op, pc, want, hobj, handle>>
  BY <1>3, Zenon DEF CapOK, Copy
<1>4. ASSUME NEW b \in Blocks, ClaimBlock(b) \/ ReleaseAffinity(b) PROVE CapOK'
  <2>1. UNCHANGED <<op, pc, want, hobj, handle>>
    BY <1>4, Zenon DEF ClaimBlock, ReleaseAffinity, SameHandles, locals
  <2> QED BY <1>3, <2>1, Zenon
<1>5. CASE UNCHANGED vars
  BY <1>3, <1>5, Zenon DEF vars, stores, locals
<1> QED BY <1>2, <1>4, <1>5, Zenon DEF Next

(* Sets of at most n[b] elements for each b have together at most as many  *)
(* elements as there are tokens.                                           *)
LEMMA FewerThanTokens ==
  ASSUME NEW D, IsFiniteSet(D), NEW n \in [D -> Nat], NEW A \in [D -> SUBSET Ordinals],
         \A b \in D : Cardinality(A[b]) <= n[b]
  PROVE  Cardinality(UNION {{b} \X A[b] : b \in D}) <= Cardinality(Tokens(n, D))
<1> DEFINE U == UNION {{b} \X A[b] : b \in D}
           T == Tokens(n, D)
           g == [b \in D |-> CHOOSE f \in [A[b] -> 1..n[b]] : \A x, y \in A[b] : f[x] = f[y] => x = y]
           F == [u \in U |-> <<u[1], g[u[1]][u[2]]>>]
<1>1. ASSUME NEW b \in D
      PROVE  \E f \in [A[b] -> 1..n[b]] : \A x, y \in A[b] : f[x] = f[y] => x = y
  <2> DEFINE m == Cardinality(A[b])
  <2>1. IsFiniteSet(A[b])
    BY HandlesAssumption, FS_Subset, Zenon
  <2>2. IsFiniteSet(1..m) /\ m \in Nat /\ Cardinality(1..m) = m
    BY ONLY <2>1, FS_CardinalityType, FS_Interval
  <2>3. ExistsBijection(A[b], 1..m)
    <3> HIDE DEF m
    <3> QED BY <2>1, <2>2, FS_SameCardinalityBij, Zenon DEF m
  <2>4. PICK f \in [A[b] -> 1..m] : \A x, y \in A[b] : f[x] = f[y] => x = y
    BY <2>3, Zenon DEF ExistsBijection, Bijection, Injection, IsInjective
  <2>5. f \in [A[b] -> 1..n[b]]
    BY <2>2
  <2> QED BY <2>4, <2>5, Zenon
<1>2. \A b \in D : g[b] \in [A[b] -> 1..n[b]] /\ \A x, y \in A[b] : g[b][x] = g[b][y] => x = y
  BY <1>1, Zenon
<1> HIDE DEF g
<1>3. \A u \in U : u[1] \in D /\ u[2] \in A[u[1]] /\ u = <<u[1], u[2]>>
  OBVIOUS
<1>4. F \in [U -> T]
  BY ONLY <1>2, <1>3 DEF Tokens
<1>5. \A u, v \in U : F[u] = F[v] => u = v
  <2> SUFFICES ASSUME NEW u \in U, NEW v \in U, F[u] = F[v] PROVE u = v
    BY Zenon
  <2>1. u[1] = v[1] /\ g[u[1]][u[2]] = g[v[1]][v[2]]
    BY Zenon
  <2>2. u[2] = v[2]
    BY ONLY <1>2, <1>3, <2>1
  <2> QED BY <1>3, <2>1, <2>2, Zenon
<1>6. F \in Injection(U, T)
  BY <1>4, <1>5, Zenon DEF Injection, IsInjective
<1>7. IsFiniteSet(T)
  BY TokensFinite, Zenon
<1> HIDE DEF U, T, F
<1> QED BY <1>6, <1>7, FS_Injection, Zenon DEF U, T

(* A handle has no more addresses than its row counts, in all blocks.      *)
LEMMA CapHolds ==
  ASSUME AccountsOK, CapOK
  PROVE  HandleCapped
<1> SUFFICES ASSUME NEW h \in Handles
             PROVE  Cardinality(UNION {{b} \X Allocs(h, b) : b \in Blocks}) <= MaxAlloc
  BY Zenon DEF HandleCapped
<1> DEFINE n == [b \in Blocks |-> Count(h, b)]
           A == [b \in Blocks |-> Allocs(h, b)]
<1>1. n \in [Blocks -> Nat] /\ A \in [Blocks -> SUBSET Ordinals]
  <2>1. \A b \in Blocks : Count(h, b) \in Nat
    BY AmountTypes, Zenon DEF AccountsOK
  <2>2. \A b \in Blocks : Allocs(h, b) \in SUBSET Ordinals
    BY Zenon DEF Allocs, Held
  <2> QED BY <2>1, <2>2, Zenon
<1>2. \A b \in Blocks : Cardinality(A[b]) <= n[b]
  BY Shares, Zenon
<1>3. UNION {{b} \X Allocs(h, b) : b \in Blocks} = UNION {{b} \X A[b] : b \in Blocks}
  BY Zenon
<1>4. handle \in [Handles -> HandleRows \cup {NoHandle}]
  BY Zenon DEF AccountsOK, TypeOK, Hdl!StoreTypeOK
<1>5. Cardinality(Tokens(n, Blocks)) <= MaxAlloc
  <2>1. CASE handle[h] = NoHandle
    <3>1. n = NewRow
      BY <2>1, Zenon DEF Count, NewRow
    <3>2. Cardinality(Tokens(n, Blocks)) = 0
      BY <3>1, TotalOfNew, Zenon DEF Tokens, totalCount
    <3> QED BY ONLY <3>2, HandlesAssumption
  <2>2. CASE handle[h] # NoHandle
    <3>1. n = handle[h]
      BY <1>4, <2>2, Zenon DEF Count, HandleRows
    <3>2. totalCount(handle[h]) <= MaxAlloc
      BY <2>2, Zenon DEF CapOK
    <3> HIDE DEF n
    <3> QED BY <3>1, <3>2, Zenon DEF Tokens, totalCount
  <2> QED BY <2>1, <2>2, Zenon
<1>6. Cardinality(Tokens(n, Blocks)) \in Nat
  BY <1>1, HandlesAssumption, TokensFinite, Zenon
<1>7. IsFiniteSet(UNION {{b} \X A[b] : b \in Blocks}) /\ Cardinality(UNION {{b} \X A[b] : b \in Blocks}) \in Nat
  <2> DEFINE U == UNION {{b} \X A[b] : b \in Blocks}
  <2>1. U \in SUBSET (Blocks \X Ordinals)
    BY ONLY <1>1
  <2>2. IsFiniteSet(Blocks \X Ordinals)
    BY HandlesAssumption, FS_Product, Zenon
  <2> HIDE DEF U
  <2>3. IsFiniteSet(U) /\ Cardinality(U) \in Nat
    BY <2>1, <2>2, FS_Subset, FS_CardinalityType, Zenon
  <2> QED BY <2>3, Zenon DEF U
<1> HIDE DEF n, A
<1> DEFINE U == UNION {{b} \X A[b] : b \in Blocks}
<1>8. Cardinality(U) \in Nat /\ Cardinality(U) <= Cardinality(Tokens(n, Blocks))
  BY <1>1, <1>2, <1>7, HandlesAssumption, FewerThanTokens, Zenon
<1> HIDE DEF U
<1>9. Cardinality(U) <= MaxAlloc
  BY ONLY <1>5, <1>6, <1>8, HandlesAssumption
<1> QED BY <1>3, <1>9, Zenon DEF U

(* A handle never has more addresses than MaxAllocToHandlePerIPVersion,    *)
(* however many AutoAssigns and AssignIPs race for it on whatever blocks,  *)
(* and whoever dies (incrementHandle checks the cap against the row that   *)
(* it then writes by compare-and-swap).  MoveIPToHandle does not check it. *)
THEOREM CapNeverExceeded ==
  ASSUME Separate, MaxAlloc > 0, "MoveIPToHandle" \notin Ops
  PROVE  Spec => []HandleCapped
<1>1. Init => AccountsOK /\ CapOK
  <2>1. Init => CapOK
    BY DEF Init, CapOK, Hdl!StoreInit
  <2> QED BY <2>1, InitOK, Zenon
<1>2. AccountsOK /\ CapOK /\ [Next]_vars => (AccountsOK /\ CapOK)'
  BY NextOK, CapStep, Zenon
<1>3. AccountsOK /\ CapOK => HandleCapped
  BY CapHolds, Zenon
<1> QED BY <1>1, <1>2, <1>3, PTL DEF Spec

=============================================================================
