----------------------------- MODULE TyphaLink -----------------------------
(***************************************************************************)
(* What InSync promises on its way from Typha's syncer to the client.  The *)
(* value of a key that has not changed stays ahead of it in the cache, and *)
(* the messages on the wire lead from what the client has to the crumb the *)
(* server has followed to, whatever the client and the sender do.          *)
(***************************************************************************)
EXTENDS TyphaStages

-----------------------------------------------------------------------------
(* A key that has not changed since Typha started.                         *)

(* Its value is in the cache, or among the updates and the first n calls   *)
(* that the cache has yet to apply.                                        *)
Coming(k, v, ic, pu, f, n) ==
  \/ f[k] = v \/ Has(pu, k)
  \/ \E i \in 1..n : ic[i].tag # "status" /\ Has(ic[i].updates, k)

(* No other value is under way, and InSync comes behind it.                *)
Full(k, v, ic, ps, pu, f, cs, un) ==
  /\ \A i \in 1..Len(ic) : ic[i].tag # "status" => Within(ic[i].updates, k, {v})
  /\ Within(pu, k, {v})
  /\ \A i \in 1..Len(cs) : Within(cs[i].deltas, k, {v}) /\ cs[i].kvs[k] \in {Absent, v}
  /\ k \notin un => Coming(k, v, ic, pu, f, Len(ic))
  /\ \A j \in 1..Len(ic) :
       ic[j].tag = "status" /\ ic[j].status = "InSync" => Coming(k, v, ic, pu, f, j - 1)
  /\ ps = "InSync" => f[k] = v \/ Has(pu, k)
  /\ \A i \in 1..Len(cs) : cs[i].status = "InSync" => cs[i].kvs[k] = v

FullInv ==
  \A k \in Keys \ touched :
    Full(k, src[k], inputC, pendingStatus, pendingUpdates, kvs, crumbs, unsent)

(* The invariant of the next state.                                        *)
LEMMA FullInvNext ==
  FullInv' <=> \A k \in Keys \ touched' :
                 Full(k, src'[k], inputC', pendingStatus', pendingUpdates', kvs', crumbs', unsent')
BY Zenon DEF FullInv, Full, Coming, Within, Has

(* The cache holds nothing of a key that the datastore does not.           *)
LEMMA FullAbsent ==
  ASSUME CacheInv, NEW k, Full(k, Absent, inputC, pendingStatus, pendingUpdates, kvs, crumbs, unsent)
  PROVE  kvs[k] = Absent
<1>1. kvs = crumbs[Len(crumbs)].kvs /\ Len(crumbs) \in 1..Len(crumbs)
  <2>1. kvs = crumbs[Len(crumbs)].kvs /\ crumbs \in Seq(Crumbs) /\ crumbs # <<>>
    BY ONLY CacheInv, Zenon DEF CacheInv, TrailEnd, CacheTypeOK
  <2>2. Len(crumbs) \in 1..Len(crumbs)
    BY ONLY <2>1
  <2> QED BY ONLY <2>1, <2>2, Zenon
<1>2. crumbs[Len(crumbs)].kvs[k] \in {Absent, Absent}
  BY ONLY <1>1, Full(k, Absent, inputC, pendingStatus, pendingUpdates, kvs, crumbs, unsent), Zenon DEF Full
<1> QED BY ONLY <1>1, <1>2

(* Keys passed on.                                                         *)
LEMMA FullKept ==
  ASSUME NEW k, NEW v, NEW ic, NEW ps, NEW pu, NEW f, NEW cs, NEW un, Full(k, v, ic, ps, pu, f, cs, un),
         NEW um, k \notin um => k \notin un \/ f[k] = v
  PROVE  Full(k, v, ic, ps, pu, f, cs, um)
BY ONLY Full(k, v, ic, ps, pu, f, cs, un), k \notin um => k \notin un \/ f[k] = v, Zenon DEF Full, Coming

(* A call more.                                                            *)
LEMMA FullCall ==
  ASSUME NEW k, NEW v, NEW ic \in Seq(Calls), NEW ps, NEW pu, NEW f, NEW cs, NEW un,
         Full(k, v, ic, ps, pu, f, cs, un),
         NEW c \in Calls, c.tag # "status" => Within(c.updates, k, {v}),
         c.tag = "status" /\ c.status = "InSync" => k \notin un,
         NEW um, k \notin um => \/ k \notin un \/ f[k] = v
                                \/ c.tag # "status" /\ Has(c.updates, k)
  PROVE  Full(k, v, Append(ic, c), ps, pu, f, cs, um)
<1> DEFINE n == Len(ic)
           w == Append(ic, c)
<1>1. /\ n \in Nat /\ Len(w) = n + 1 /\ w[n + 1] = c /\ n + 1 \in 1..(n + 1)
      /\ \A i \in 1..n : w[i] = ic[i] /\ i \in 1..(n + 1)
      /\ \A i \in 1..(n + 1) : i \in 1..n \/ i = n + 1
      /\ \A j \in 1..n : \A i \in 1..(j - 1) : i \in 1..n
      /\ (n + 1) - 1 = n
  OBVIOUS
<1> HIDE DEF w, n
<1>2. /\ \A i \in 1..n : ic[i].tag # "status" => Within(ic[i].updates, k, {v})
      /\ Within(pu, k, {v})
      /\ \A i \in 1..Len(cs) : Within(cs[i].deltas, k, {v}) /\ cs[i].kvs[k] \in {Absent, v}
      /\ k \notin un => Coming(k, v, ic, pu, f, n)
      /\ \A j \in 1..n :
           ic[j].tag = "status" /\ ic[j].status = "InSync" => Coming(k, v, ic, pu, f, j - 1)
      /\ ps = "InSync" => f[k] = v \/ Has(pu, k)
      /\ \A i \in 1..Len(cs) : cs[i].status = "InSync" => cs[i].kvs[k] = v
  BY ONLY Full(k, v, ic, ps, pu, f, cs, un), Zenon DEF Full, n
<1>3. \A i \in 1..(n + 1) : w[i].tag # "status" => Within(w[i].updates, k, {v})
  BY ONLY <1>1, <1>2, c.tag # "status" => Within(c.updates, k, {v}), Zenon
<1>4. /\ Coming(k, v, ic, pu, f, n) => Coming(k, v, w, pu, f, n) /\ Coming(k, v, w, pu, f, n + 1)
      /\ \A j \in 1..n : Coming(k, v, ic, pu, f, j - 1) => Coming(k, v, w, pu, f, j - 1)
  BY ONLY <1>1, Zenon DEF Coming
<1>5. k \notin um => Coming(k, v, w, pu, f, n + 1)
  <2>1. f[k] = v => Coming(k, v, w, pu, f, n + 1)
    BY ONLY Zenon DEF Coming
  <2>2. c.tag # "status" /\ Has(c.updates, k) => Coming(k, v, w, pu, f, n + 1)
    BY ONLY <1>1, Zenon DEF Coming
  <2> QED BY <2>1, <2>2, <1>2, <1>4, Zenon
<1>6. ASSUME NEW j \in 1..(n + 1), w[j].tag = "status", w[j].status = "InSync"
      PROVE  Coming(k, v, w, pu, f, j - 1)
  <2>1. CASE j \in 1..n
    BY ONLY <2>1, <1>1, <1>2, <1>4, <1>6, Zenon
  <2>2. CASE j = n + 1
    <3>1. c.tag = "status" /\ c.status = "InSync" /\ j - 1 = n
      BY ONLY <2>2, <1>1, <1>6
    <3>2. Coming(k, v, w, pu, f, n)
      BY ONLY <3>1, <1>2, <1>4, c.tag = "status" /\ c.status = "InSync" => k \notin un, Zenon
    <3> QED BY ONLY <3>1, <3>2
  <2> QED BY ONLY <2>1, <2>2, <1>1, j \in 1..(n + 1), Zenon
<1>7. Len(w) = n + 1
  BY ONLY <1>1, Zenon
<1> QED BY ONLY <1>2, <1>3, <1>5, <1>6, <1>7, Zenon DEF Full, w

(* Calls read into a batch: they are applied in their order, and the       *)
(* status is that of the last of them.                                     *)
LEMMA FullFill ==
  ASSUME NEW k, NEW v, inputC \in Seq(Calls), pendingStatus \in Statuses, NEW f, NEW cs, NEW un,
         Full(k, v, inputC, pendingStatus, <<>>, f, cs, un), NEW n \in 1..Len(inputC),
         NEW us, us = Typha!UpdatesIn(SubSeq(inputC, 1, n)),
         NEW s, s = Typha!StatusIn(SubSeq(inputC, 1, n)),
         NEW rest, rest = SubSeq(inputC, n + 1, Len(inputC))
  PROVE  Full(k, v, rest, s, us, f, cs, un)
<1> DEFINE calls == SubSeq(inputC, 1, n)
           L == Len(inputC)
<1>1. /\ calls \in Seq(Calls) /\ Len(calls) = n /\ \A i \in 1..n : calls[i] = inputC[i] /\ i \in 1..L
      /\ Len(rest) = L - n /\ L \in Nat /\ n \in 1..L
      /\ \A i \in 1..(L - n) : rest[i] = inputC[n + i] /\ n + i \in 1..L
      /\ \A i \in 1..L : i \in 1..n \/ (i - n \in 1..(L - n) /\ rest[i - n] = inputC[i])
      /\ \A j \in 1..(L - n) : \A i \in 1..((n + j) - 1) :
           i \in 1..n \/ (i - n \in 1..(j - 1) /\ rest[i - n] = inputC[i])
      /\ \A j \in 1..n : \A i \in 1..(j - 1) : i \in 1..n
      /\ ~\E i \in 1..Len(<<>>) : TRUE
  BY ONLY inputC \in Seq(Calls), n \in 1..Len(inputC), rest = SubSeq(inputC, n + 1, Len(inputC))
<1>2. us = Typha!UpdatesIn(calls) /\ s = Typha!StatusIn(calls)
  OBVIOUS
<1> HIDE DEF calls, L
<1>3. /\ \A i \in 1..L : inputC[i].tag # "status" => Within(inputC[i].updates, k, {v})
      /\ \A i \in 1..Len(cs) : Within(cs[i].deltas, k, {v}) /\ cs[i].kvs[k] \in {Absent, v}
      /\ k \notin un => Coming(k, v, inputC, <<>>, f, L)
      /\ \A j \in 1..L : inputC[j].tag = "status" /\ inputC[j].status = "InSync" =>
           Coming(k, v, inputC, <<>>, f, j - 1)
      /\ pendingStatus = "InSync" => f[k] = v \/ Has(<<>>, k)
      /\ \A i \in 1..Len(cs) : cs[i].status = "InSync" => cs[i].kvs[k] = v
  BY ONLY Full(k, v, inputC, pendingStatus, <<>>, f, cs, un), Zenon DEF Full, L
<1>4. ~Has(<<>>, k)
  BY ONLY <1>1, Zenon DEF Has
<1>5. Within(us, k, {v})
  <2>1. \A i \in 1..Len(calls) : calls[i].tag # "status" => Within(calls[i].updates, k, {v})
    BY ONLY <1>1, <1>3, Zenon
  <2>2. calls \in Seq(Calls)
    BY ONLY <1>1, Zenon
  <2>3. Within(Typha!UpdatesIn(calls), k, {v})
    BY ONLY <2>1, <2>2, UpdatesInOK, Zenon
  <2> QED BY ONLY <2>3, <1>2
<1>6. \A i \in 1..n : inputC[i].tag # "status" /\ Has(inputC[i].updates, k) => Has(us, k)
  <2>1. calls \in Seq(Calls)
    BY ONLY <1>1, Zenon
  <2>2. \A i \in 1..Len(calls) : calls[i].tag # "status" /\ Has(calls[i].updates, k)
                        => Has(Typha!UpdatesIn(calls), k)
    BY ONLY <2>1, UpdatesInOK, Zenon
  <2> QED BY ONLY <2>2, <1>1, <1>2
<1>7. ASSUME NEW i \in 1..(L - n), rest[i].tag # "status" PROVE Within(rest[i].updates, k, {v})
  <2>1. n + i \in 1..L /\ rest[i] = inputC[n + i]
    BY ONLY <1>1, i \in 1..(L - n), Zenon
  <2>2. inputC[n + i].tag # "status" => Within(inputC[n + i].updates, k, {v})
    BY ONLY <2>1, <1>3, Zenon
  <2> QED BY ONLY <2>1, <2>2, <1>7
<1>8. ASSUME k \notin un PROVE Coming(k, v, rest, us, f, L - n)
  <2>1. Coming(k, v, inputC, <<>>, f, L)
    BY ONLY <1>3, <1>8, Zenon
  <2>2. \A i \in 1..L : i \in 1..n \/ (i - n \in 1..(L - n) /\ rest[i - n] = inputC[i])
    BY ONLY <1>1, Zenon
  <2> QED BY ONLY <2>1, <2>2, <1>4, <1>6, Zenon DEF Coming
<1>9. ASSUME NEW j \in 1..(L - n), rest[j].tag = "status", rest[j].status = "InSync"
      PROVE  Coming(k, v, rest, us, f, j - 1)
  <2>1. n + j \in 1..L /\ inputC[n + j].tag = "status" /\ inputC[n + j].status = "InSync"
    BY ONLY <1>1, <1>9, Zenon
  <2>2. Coming(k, v, inputC, <<>>, f, (n + j) - 1)
    BY ONLY <2>1, <1>3, Zenon
  <2>3. \A i \in 1..((n + j) - 1) : i \in 1..n \/ (i - n \in 1..(j - 1) /\ rest[i - n] = inputC[i])
    BY ONLY <1>1, j \in 1..(L - n), Zenon
  <2> QED BY ONLY <2>2, <2>3, <1>4, <1>6, Zenon DEF Coming
<1>10. ASSUME s = "InSync" PROVE f[k] = v \/ Has(us, k)
  <2>1. \/ s = pendingStatus
        \/ \E i \in 1..Len(calls) : calls[i].tag = "status" /\ calls[i].status = s
    <3>1. calls \in Seq(Calls)
      BY ONLY <1>1, Zenon
    <3>2. \/ Typha!StatusIn(calls) = pendingStatus
          \/ \E i \in 1..Len(calls) : calls[i].tag = "status" /\ calls[i].status = Typha!StatusIn(calls)
      BY ONLY <3>1, pendingStatus \in Statuses, StatusInOK, Zenon
    <3> QED BY ONLY <3>2, <1>2
  <2>2. CASE s = pendingStatus
    BY ONLY <2>2, <1>3, <1>4, <1>10, Zenon
  <2>3. CASE \E i \in 1..Len(calls) : calls[i].tag = "status" /\ calls[i].status = s
    <3>1. PICK j \in 1..n : inputC[j].tag = "status" /\ inputC[j].status = "InSync" /\ j \in 1..L
      BY ONLY <2>3, <1>1, <1>10, Zenon
    <3>2. Coming(k, v, inputC, <<>>, f, j - 1)
      BY ONLY <3>1, <1>3, Zenon
    <3> QED BY ONLY <3>2, <1>1, <1>4, <1>6, j \in 1..n, Zenon DEF Coming
  <2> QED BY ONLY <2>1, <2>2, <2>3, Zenon
<1>11. Len(rest) = L - n
  BY ONLY <1>1, Zenon
<1> QED BY ONLY <1>3, <1>5, <1>7, <1>8, <1>9, <1>10, <1>11, Zenon DEF Full

(* Updates made into a crumb.                                              *)
LEMMA FullPublish ==
  ASSUME CacheInv, Typha!PublishBreadcrumb, NEW k \in Keys, NEW v,
         Full(k, v, inputC, pendingStatus, pendingUpdates, kvs, crumbs, unsent)
  PROVE  Full(k, v, inputC, pendingStatus, pendingUpdates', kvs', crumbs', unsent)
<1> DEFINE pu == pendingUpdates
           rest == pendingUpdates'
           L == Len(crumbs)
<1>1. PICK us \in Seq(Updates), ds \in Seq(Updates), st \in Statuses :
           /\ pendingUpdates' \in Seq(Updates) /\ kvs' \in [Keys -> Contents]
           /\ \A l \in Keys : /\ After(ds, l, kvs[l], kvs'[l]) /\ After(us, l, kvs[l], kvs'[l])
                              /\ \A T : Within(us, l, T) => Within(ds, l, T)
           /\ \A l : Has(pendingUpdates, l) => Has(us, l) \/ Has(pendingUpdates', l)
           /\ \A l, T : Within(pendingUpdates, l, T) => Within(us, l, T) /\ Within(pendingUpdates', l, T)
           /\ (st = pendingStatus /\ pendingUpdates' = <<>>) \/ st = crumbs[current].status
           /\ \/ crumbs' = Append(crumbs, Typha!Crumb(kvs', ds, st)) /\ publishing' = "linked"
              \/ /\ crumbs' = crumbs /\ ds = <<>> /\ kvs' = kvs
                 /\ publishing' = Typha!AfterCrumb(pendingUpdates')
  BY PublishShape, Zenon
<1>2. /\ crumbs \in Seq(Crumbs) /\ L \in Nat \ {0} /\ L \in 1..L /\ kvs = crumbs[L].kvs /\ current = L
  <2>1. /\ crumbs \in Seq(Crumbs) /\ crumbs # <<>> /\ kvs = crumbs[Len(crumbs)].kvs
        /\ publishing # "linked" => current = Len(crumbs)
    BY ONLY CacheInv, Zenon DEF CacheInv, CacheTypeOK, TrailEnd
  <2>2. publishing # "linked"
    BY ONLY Typha!PublishBreadcrumb DEF Typha!PublishBreadcrumb
  <2>3. Len(crumbs) \in Nat \ {0} /\ Len(crumbs) \in 1..Len(crumbs)
    BY ONLY <2>1
  <2> QED BY ONLY <2>1, <2>2, <2>3, Zenon DEF L
<1> HIDE DEF L
<1>3. /\ \A i \in 1..Len(inputC) : inputC[i].tag # "status" => Within(inputC[i].updates, k, {v})
      /\ Within(pu, k, {v})
      /\ \A i \in 1..L : Within(crumbs[i].deltas, k, {v}) /\ crumbs[i].kvs[k] \in {Absent, v}
      /\ k \notin unsent => Coming(k, v, inputC, pu, kvs, Len(inputC))
      /\ \A j \in 1..Len(inputC) :
           inputC[j].tag = "status" /\ inputC[j].status = "InSync" => Coming(k, v, inputC, pu, kvs, j - 1)
      /\ pendingStatus = "InSync" => kvs[k] = v \/ Has(pu, k)
      /\ \A i \in 1..L : crumbs[i].status = "InSync" => crumbs[i].kvs[k] = v
  BY ONLY Full(k, v, inputC, pendingStatus, pendingUpdates, kvs, crumbs, unsent), Zenon DEF Full, L
<1>4. /\ Within(us, k, {v}) /\ Within(rest, k, {v}) /\ Within(ds, k, {v})
      /\ After(us, k, kvs[k], kvs'[k]) /\ (Has(pu, k) => Has(us, k) \/ Has(rest, k))
  BY ONLY <1>1, <1>3, k \in Keys, Zenon
<1>5. kvs[k] = v \/ Has(us, k) => kvs'[k] = v
  <2>1. kvs[k] \in {v} \/ Has(us, k) => kvs'[k] \in {v}
    BY ONLY <1>4, us \in Seq(Updates), AfterWithin, Zenon
  <2> QED BY ONLY <2>1
<1>6. kvs'[k] \in {Absent, v}
  <2>1. kvs[k] \in {Absent, v}
    BY ONLY <1>2, <1>3, Zenon
  <2>2. Within(us, k, {Absent, v})
    <3>1. \A e : e \in {v} => e \in {Absent, v}
      BY ONLY Zenon
    <3> QED BY ONLY <3>1, <1>4, Zenon DEF Within
  <2> QED BY ONLY <2>1, <2>2, <1>4, us \in Seq(Updates), AfterWithin, Zenon
<1>7. kvs[k] = v \/ Has(pu, k) => kvs'[k] = v \/ Has(rest, k)
  BY ONLY <1>4, <1>5, Zenon
<1>8. \A n : Coming(k, v, inputC, pu, kvs, n) => Coming(k, v, inputC, rest, kvs', n)
  BY ONLY <1>7, Zenon DEF Coming
<1>9. CASE crumbs' = crumbs
  <2>1. Len(crumbs') = L /\ crumbs' = crumbs
    BY ONLY <1>9, Zenon DEF L
  <2> QED BY ONLY <1>3, <1>4, <1>7, <1>8, <2>1, Zenon DEF Full, rest
<1>10. CASE crumbs' = Append(crumbs, Typha!Crumb(kvs', ds, st))
  <2> DEFINE c == Typha!Crumb(kvs', ds, st)
  <2>1. c \in Crumbs /\ c.kvs = kvs' /\ c.deltas = ds /\ c.status = st
    BY ONLY <1>1, Zenon DEF Crumbs, Typha!Crumb
  <2>2. crumbs' = Append(crumbs, c)
    BY ONLY <1>10
  <2> HIDE DEF c
  <2>3. /\ Len(crumbs') = L + 1 /\ crumbs'[L + 1] = c /\ \A i \in 1..L : crumbs'[i] = crumbs[i]
        /\ \A i \in 1..(L + 1) : i \in 1..L \/ i = L + 1
    BY ONLY <2>1, <2>2, <1>2 DEF L
  <2>4. st = "InSync" => kvs'[k] = v
    <3>1. CASE st = pendingStatus /\ rest = <<>>
      <4>1. ~\E i \in 1..Len(<<>>) : TRUE
        BY ONLY TRUE
      <4>2. ~Has(rest, k)
        BY ONLY <3>1, <4>1, Zenon DEF Has
      <4> QED BY ONLY <3>1, <4>2, <1>3, <1>7, Zenon
    <3>2. CASE st = crumbs[current].status
      <4>1. st = "InSync" => crumbs[L].kvs[k] = v
        BY ONLY <3>2, <1>2, <1>3
      <4> QED BY ONLY <4>1, <1>2, <1>5
    <3> QED BY ONLY <3>1, <3>2, <1>1, Zenon DEF rest
  <2>5. \A i \in 1..(L + 1) : /\ Within(crumbs'[i].deltas, k, {v}) /\ crumbs'[i].kvs[k] \in {Absent, v}
                              /\ crumbs'[i].status = "InSync" => crumbs'[i].kvs[k] = v
    <3> SUFFICES ASSUME NEW i \in 1..(L + 1)
                 PROVE  /\ Within(crumbs'[i].deltas, k, {v}) /\ crumbs'[i].kvs[k] \in {Absent, v}
                        /\ crumbs'[i].status = "InSync" => crumbs'[i].kvs[k] = v
      BY Zenon
    <3>1. CASE i \in 1..L
      <4>1. crumbs'[i] = crumbs[i]
        BY ONLY <3>1, <2>3, Zenon
      <4>2. /\ Within(crumbs[i].deltas, k, {v}) /\ crumbs[i].kvs[k] \in {Absent, v}
            /\ crumbs[i].status = "InSync" => crumbs[i].kvs[k] = v
        BY ONLY <3>1, <1>3, Zenon
      <4> QED BY ONLY <4>1, <4>2, Zenon
    <3>2. CASE i = L + 1
      BY ONLY <3>2, <2>1, <2>3, <2>4, <1>4, <1>6
    <3> QED BY ONLY <3>1, <3>2, <2>3, i \in 1..(L + 1), Zenon
  <2>6. Len(crumbs') = L + 1
    BY ONLY <2>3, Zenon
  <2> QED BY ONLY <1>3, <1>4, <1>7, <1>8, <2>5, <2>6, Zenon DEF Full, rest
<1> QED BY ONLY <1>1, <1>9, <1>10, Zenon

(* Steps that call the cache with nothing and read nothing.                *)
LEMMA FullSame ==
  ASSUME FullInv,
         UNCHANGED <<inputC, pendingStatus, pendingUpdates, kvs, crumbs, src, unsent, touched>>
  PROVE  FullInv'
BY FullInvNext DEF FullInv

(* A change marks the key as touched.                                      *)
LEMMA ChangeKeepsFull ==
  ASSUME CacheInv, FullInv, NEW l \in Keys, NEW w \in Values \cup {Absent}, Change(l, w)
  PROVE  FullInv'
<1>1. /\ UNCHANGED <<pendingStatus, pendingUpdates, kvs, crumbs>>
      /\ touched' = touched \cup {l} /\ src' = [src EXCEPT ![l] = w]
      /\ unsent' = IF said # "WaitForDatastore" THEN unsent \ {l} ELSE Present(src')
  BY DEF Change, restOfCache
<1>2. inputC \in Seq(Calls) /\ src \in [Keys -> Contents]
  BY DEF CacheInv, CacheTypeOK
<1>3. ASSUME NEW k \in Keys \ touched'
      PROVE  Full(k, src'[k], inputC', pendingStatus', pendingUpdates', kvs', crumbs', unsent')
  <2>1. k \in Keys \ touched /\ k # l /\ src'[k] = src[k]
    BY ONLY <1>1, <1>2, k \in Keys \ touched', l \in Keys
  <2> DEFINE v == src[k]
  <2>2. Full(k, v, inputC, pendingStatus, pendingUpdates, kvs, crumbs, unsent)
    BY <2>1, Zenon DEF FullInv
  <2>3. v = Absent => kvs[k] = v
    <3>1. ASSUME v = Absent PROVE kvs[k] = Absent
      <4>1. Full(k, Absent, inputC, pendingStatus, pendingUpdates, kvs, crumbs, unsent)
        BY ONLY <2>2, <3>1
      <4> QED BY <4>1, FullAbsent, Zenon
    <3> QED BY ONLY <3>1
  <2>4. k \notin unsent' => k \notin unsent \/ kvs[k] = v
    <3>1. CASE said # "WaitForDatastore"
      BY ONLY <3>1, <1>1, <2>1
    <3>2. CASE ~(said # "WaitForDatastore")
      BY <3>2, <1>1, <2>1, <2>3 DEF Present
    <3> QED BY ONLY <3>1, <3>2
  <2> HIDE DEF v
  <2>5. CASE inputC' = inputC
    <3>1. Full(k, v, inputC, pendingStatus, pendingUpdates, kvs, crumbs, unsent')
      BY ONLY <2>2, <2>4, FullKept, Zenon
    <3>2. src'[k] = v
      BY ONLY <2>1 DEF v
    <3> QED BY ONLY <3>1, <3>2, <2>5, <1>1
  <2>6. ASSUME NEW t, inputC' = Append(inputC, Typha!UpdatesCall(<<Typha!Update(l, w, t)>>)),
               <<Typha!Update(l, w, t)>> \in Seq(Updates)
        PROVE  Full(k, src'[k], inputC', pendingStatus', pendingUpdates', kvs', crumbs', unsent')
    <3> DEFINE us == <<Typha!Update(l, w, t)>>
               c == Typha!UpdatesCall(us)
    <3>1. c \in Calls
      BY ONLY <2>6, CallsTyped, Zenon
    <3>2. c.tag # "status" /\ c.updates = us
      BY ONLY TRUE DEF Typha!UpdatesCall
    <3>3. Within(us, k, {v})
      BY ONLY <2>1 DEF Within, Typha!Update
    <3>4. inputC' = Append(inputC, c)
      BY ONLY <2>6
    <3> HIDE DEF c, us
    <3>5. Within(c.updates, k, {v})
      BY ONLY <3>2, <3>3
    <3>6. Full(k, v, Append(inputC, c), pendingStatus, pendingUpdates, kvs, crumbs, unsent')
      BY ONLY <2>2, <2>4, <3>1, <3>2, <3>5, <1>2, FullCall, Zenon
    <3>7. src'[k] = v
      BY ONLY <2>1 DEF v
    <3> QED BY ONLY <3>4, <3>6, <3>7, <1>1
  <2> QED BY <2>5, <2>6, ChangeTyped, Zenon
<1> QED BY ONLY <1>3, FullInvNext, Zenon

(* The listed keys are passed on.                                          *)
LEMMA SendListedKeepsFull ==
  ASSUME CacheInv, FullInv, SendListed
  PROVE  FullInv'
<1> DEFINE f == [k \in Keys |-> IF k \in unsent THEN src[k] ELSE Absent]
           us == Snapshot(f)
           c == Typha!UpdatesCall(us)
<1>1. UNCHANGED <<pendingStatus, pendingUpdates, kvs, crumbs, touched, src>> /\ unsent' = {} /\ inputC' = Append(inputC, c)
  BY DEF SendListed, restOfCache, CallCache
<1>2. inputC \in Seq(Calls) /\ f \in [Keys -> Contents]
  BY ListedTyped DEF CacheInv, CacheTypeOK
<1>3. \A k \in Keys : f[k] = IF k \in unsent THEN src[k] ELSE Absent
  OBVIOUS
<1> HIDE DEF f
<1>4. /\ us \in Seq(Updates)
      /\ \A i \in 1..Len(us) : us[i].value = f[us[i].key]
      /\ \A k \in Keys : Has(us, k) <=> f[k] # Absent
  BY ONLY <1>2, SnapshotOK, Zenon
<1> HIDE DEF us
<1>5. c \in Calls /\ c.tag # "status" /\ c.updates = us
  <2>1. c \in Calls
    BY ONLY <1>4, CallsTyped, Zenon
  <2>2. c.tag # "status" /\ c.updates = us
    BY ONLY TRUE DEF Typha!UpdatesCall
  <2> QED BY ONLY <2>1, <2>2
<1> HIDE DEF c
<1>6. ASSUME NEW k \in Keys \ touched'
      PROVE  Full(k, src'[k], inputC', pendingStatus', pendingUpdates', kvs', crumbs', unsent')
  <2>1. k \in Keys \ touched /\ src'[k] = src[k] /\ k \in Keys
    BY ONLY <1>1, k \in Keys \ touched'
  <2> DEFINE v == src[k]
  <2>2. Full(k, v, inputC, pendingStatus, pendingUpdates, kvs, crumbs, unsent)
    BY <2>1, Zenon DEF FullInv
  <2>3. v = Absent => kvs[k] = v
    <3>1. ASSUME v = Absent PROVE kvs[k] = Absent
      <4>1. Full(k, Absent, inputC, pendingStatus, pendingUpdates, kvs, crumbs, unsent)
        BY ONLY <2>2, <3>1
      <4> QED BY <4>1, FullAbsent, Zenon
    <3> QED BY ONLY <3>1
  <2>4. Within(c.updates, k, {v})
    <3>1. ASSUME NEW i \in 1..Len(us), us[i].key = k PROVE us[i].value \in {v}
      <4>1. Has(us, k)
        BY ONLY <3>1, Zenon DEF Has
      <4>2. f[k] = v
        BY ONLY <4>1, <1>3, <1>4, <2>1
      <4> QED BY ONLY <4>2, <3>1, <1>4
    <3>2. Within(us, k, {v})
      BY ONLY <3>1, Zenon DEF Within
    <3> QED BY ONLY <3>2, <1>5
  <2>5. k \notin unsent \/ kvs[k] = v \/ Has(c.updates, k)
    BY ONLY <1>3, <1>4, <1>5, <2>1, <2>3
  <2> HIDE DEF v
  <2>6. Full(k, v, Append(inputC, c), pendingStatus, pendingUpdates, kvs, crumbs, {})
    BY ONLY <2>2, <2>4, <2>5, <1>2, <1>5, FullCall, Zenon
  <2>7. src'[k] = v
    BY ONLY <2>1 DEF v
  <2> QED BY ONLY <2>6, <2>7, <1>1
<1> QED BY ONLY <1>6, FullInvNext, Zenon

(* InSync is said when every listed key has been passed on.                *)
LEMMA SayKeepsFull ==
  ASSUME CacheInv, FullInv, SaySynced \/ SayResync
  PROVE  FullInv'
<1>1. PICK s \in Statuses : /\ inputC' = Append(inputC, Typha!StatusCall(s))
                            /\ s = "InSync" => unsent = {}
  <2>1. CASE SaySynced
    BY <2>1 DEF SaySynced, CallCache, Statuses
  <2>2. CASE SayResync
    BY <2>2 DEF SayResync, CallCache, Statuses
  <2> QED BY <2>1, <2>2
<1>2. UNCHANGED <<pendingStatus, pendingUpdates, kvs, crumbs, touched, src, unsent>>
  BY DEF SaySynced, SayResync, restOfCache
<1> DEFINE c == Typha!StatusCall(s)
<1>3. inputC \in Seq(Calls) /\ c \in Calls
  BY CallsTyped, s \in Statuses DEF CacheInv, CacheTypeOK
<1>4. c.tag = "status" /\ c.status = s
  BY DEF Typha!StatusCall
<1>5. inputC' = Append(inputC, c)
  BY <1>1
<1> HIDE DEF c
<1>6. ASSUME NEW k \in Keys \ touched'
      PROVE  Full(k, src'[k], inputC', pendingStatus', pendingUpdates', kvs', crumbs', unsent')
  <2>1. Full(k, src[k], inputC, pendingStatus, pendingUpdates, kvs, crumbs, unsent)
    BY <1>2 DEF FullInv
  <2>2. c.tag = "status" /\ c.status = "InSync" => k \notin unsent
    BY ONLY <1>1, <1>4
  <2>3. Full(k, src[k], Append(inputC, c), pendingStatus, pendingUpdates, kvs, crumbs, unsent)
    BY ONLY <2>1, <2>2, <1>3, <1>4, FullCall, Zenon
  <2> QED BY ONLY <2>3, <1>2, <1>5
<1> QED BY ONLY <1>6, FullInvNext, Zenon

(* The cache's own steps.                                                  *)
LEMMA CacheStepKeepsFull ==
  ASSUME CacheInv, FullInv, CacheStep
  PROVE  FullInv'
<1>1. UNCHANGED <<src, unsent, touched>>
  BY DEF CacheStep, upstream
<1>2. CASE Typha!FillBatch
  <2>1. /\ inputC \in Seq(Calls) /\ pendingStatus \in Statuses
        /\ UNCHANGED <<kvs, crumbs>> /\ pendingUpdates = <<>>
    BY <1>2 DEF CacheInv, CacheTypeOK, TrailEnd, Typha!FillBatch
  <2>2. PICK n \in 1..Len(inputC) :
          /\ pendingStatus' = Typha!StatusIn(SubSeq(inputC, 1, n))
          /\ pendingUpdates' = Typha!UpdatesIn(SubSeq(inputC, 1, n))
          /\ inputC' = SubSeq(inputC, n + 1, Len(inputC))
    BY ONLY <1>2, Zenon DEF Typha!FillBatch
  <2>3. ASSUME NEW k \in Keys \ touched'
        PROVE  Full(k, src'[k], inputC', pendingStatus', pendingUpdates', kvs', crumbs', unsent')
    <3>1. Full(k, src[k], inputC, pendingStatus, <<>>, kvs, crumbs, unsent)
      BY <1>1, <2>1 DEF FullInv
    <3>2. Full(k, src[k], inputC', pendingStatus', pendingUpdates', kvs, crumbs, unsent)
      BY ONLY <3>1, <2>1, <2>2, n \in 1..Len(inputC), FullFill, Zenon
    <3> QED BY ONLY <3>2, <1>1, <2>1
  <2> QED BY ONLY <2>3, FullInvNext, Zenon
<1>3. CASE Typha!PublishBreadcrumb
  <2>1. UNCHANGED <<inputC, pendingStatus>>
    BY <1>3 DEF Typha!PublishBreadcrumb
  <2>2. ASSUME NEW k \in Keys \ touched'
        PROVE  Full(k, src'[k], inputC', pendingStatus', pendingUpdates', kvs', crumbs', unsent')
    <3>1. Full(k, src[k], inputC, pendingStatus, pendingUpdates, kvs, crumbs, unsent) /\ k \in Keys
      BY <1>1 DEF FullInv
    <3>2. Full(k, src[k], inputC, pendingStatus, pendingUpdates', kvs', crumbs', unsent)
      BY <3>1, <1>3, FullPublish, Zenon
    <3> QED BY ONLY <3>2, <1>1, <2>1
  <2> QED BY ONLY <2>2, FullInvNext, Zenon
<1>4. CASE Typha!MakeCurrent
  BY <1>1, <1>4, FullSame DEF Typha!MakeCurrent
<1>5. CASE Typha!Broadcast
  BY <1>1, <1>5, FullSame DEF Typha!Broadcast
<1> QED BY <1>2, <1>3, <1>4, <1>5 DEF CacheStep, Typha!Cache

(* A Typha that starts has yet to list every key.                          *)
LEMMA EmptyFull ==
  ASSUME src \in [Keys -> Contents], NEW k \in Keys
  PROVE  Full(k, src[k], <<>>, "WaitForDatastore", <<>>, Typha!Nothing,
              <<Typha!Crumb(Typha!Nothing, <<>>, "WaitForDatastore")>>, Present(src))
<1> DEFINE cs == <<Typha!Crumb(Typha!Nothing, <<>>, "WaitForDatastore")>>
<1>1. /\ Len(cs) = 1 /\ cs[1].kvs = Typha!Nothing /\ cs[1].deltas = <<>>
      /\ cs[1].status = "WaitForDatastore" /\ Typha!Nothing[k] = Absent
  BY EmptyCache
<1> HIDE DEF cs
<1>2. \A T : Within(<<>>, k, T)
  BY DEF Within
<1>3. k \notin Present(src) => src[k] = Absent
  BY DEF Present
<1>4. k \notin Present(src) => Coming(k, src[k], <<>>, <<>>, Typha!Nothing, Len(<<>>))
  BY ONLY <1>1, <1>3 DEF Coming
<1>5. \A i \in 1..Len(cs) : /\ Within(cs[i].deltas, k, {src[k]}) /\ cs[i].kvs[k] \in {Absent, src[k]}
                            /\ cs[i].status # "InSync"
  BY ONLY <1>1, <1>2
<1>6. ~\E i \in 1..Len(<<>>) : TRUE
  OBVIOUS
<1>7. "WaitForDatastore" # "InSync"
  OBVIOUS
<1> QED BY ONLY <1>2, <1>4, <1>5, <1>6, <1>7, Zenon DEF Full, cs

(* Every step keeps it.                                                    *)
LEMMA FullInvStep ==
  ASSUME CacheInv, FullInv, [Next]_vars
  PROVE  FullInv'
<1>1. CASE UNCHANGED <<cacheVars, upstream>>
  BY <1>1, FullSame DEF cacheVars, upstream
<1>2. CASE UNCHANGED vars
  BY <1>1, <1>2 DEF vars, cacheVars, upstream
<1>3. ASSUME NEW k \in Keys, NEW v \in Values \cup {Absent}, Change(k, v) PROVE FullInv'
  BY <1>3, ChangeKeepsFull
<1>4. CASE Syncer
  BY <1>4, SendListedKeepsFull, SayKeepsFull DEF Syncer
<1>5. CASE CacheStep
  BY <1>5, CacheStepKeepsFull
<1>6. CASE Tick
  BY <1>1, <1>6 DEF Tick, Typha!WakeUpTick, Typha!cacheVars, cacheVars
<1>7. CASE Server
  BY <1>1, <1>7, Zenon DEF Server, StreamSnapshot, SendSnapshot, StartFrom, SendDeltas
<1>8. CASE ExpireSnapshot
  BY <1>1, <1>8 DEF ExpireSnapshot
<1>9. CASE WaitForNext
  BY <1>1, <1>9 DEF WaitForNext
<1>10. CASE Client
  BY <1>1, <1>10 DEF Client, Connect, Receive, Restarted, SayWaiting
<1>11. CASE ConnectionLost
  BY <1>1, <1>11 DEF ConnectionLost
<1>12. CASE TyphaRestart
  <2>1. /\ inputC' = <<>> /\ pendingStatus' = "WaitForDatastore" /\ pendingUpdates' = <<>>
        /\ kvs' = Typha!Nothing
        /\ crumbs' = <<Typha!Crumb(Typha!Nothing, <<>>, "WaitForDatastore")>>
        /\ src' = src /\ unsent' = Present(src) /\ touched' = {}
    BY <1>12 DEF TyphaRestart
  <2>2. src \in [Keys -> Contents]
    BY DEF CacheInv, CacheTypeOK
  <2>3. ASSUME NEW k \in Keys \ touched'
        PROVE  Full(k, src'[k], inputC', pendingStatus', pendingUpdates', kvs', crumbs', unsent')
    <3>1. k \in Keys
      OBVIOUS
    <3> QED BY ONLY <2>1, <2>2, <3>1, EmptyFull
  <2> QED BY ONLY <2>3, FullInvNext, Zenon
<1>13. CASE SenderStep
  BY <1>1, <1>13 DEF SenderStep
<1> QED BY <1>2, <1>3, <1>4, <1>5, <1>6, <1>7, <1>8, <1>9, <1>10, <1>11, <1>12, <1>13
           DEF Next, Faults

-----------------------------------------------------------------------------
(* The connection.                                                         *)

(* The values of k that may be told before InSync: those of this trail,    *)
(* and of a key that has not changed only the datastore's.                 *)
Fit(k) == {v \in Trail(k) : k \in touched \/ v = src[k]}

(* What is on the wire leads from what the client has to the crumb the     *)
(* server has followed to, and an InSync comes behind a full picture.      *)
Following ==
  /\ from \in 1..at /\ at \in 1..Len(crumbs)
  /\ \A k \in Keys : crumbs[at].kvs[k] \in Trail(k)
  /\ \A k \in Keys : Leads(wire, k, Fit(k), Held(k), crumbs[at].kvs[k])
  /\ recent = "InSync" =>
       /\ resyncing = FALSE
       /\ \A k \in Keys : Told(queue, k) \in Fit(k) /\ InTime(queue, k, Fit(k))

Linking ==
  /\ wire \in Seq(Messages) /\ sent \in Statuses
  /\ unseen # {} => resyncing
  /\ conn \in {"restarted", "dialing", "greeting"} => \A k \in Keys : Held(k) = Absent
  /\ conn = "greeting" => recent = "ResyncInProgress"

LinkInv == Linking /\ (conn = "following" => Following)

(* The invariant of the next state.                                        *)
LEMMA FollowingNext ==
  ASSUME from' \in 1..at', at' \in 1..Len(crumbs'),
         \A k \in Keys : crumbs'[at'].kvs[k] \in Trail(k)',
         \A k \in Keys : Leads(wire', k, Fit(k)', Held(k)', crumbs'[at'].kvs[k]),
         recent' = "InSync" =>
           /\ resyncing' = FALSE
           /\ \A k \in Keys : Told(queue, k)' \in Fit(k)' /\ \A T : T = Fit(k)' => InTime(queue, k, T)'
  PROVE  Following'
<1>1. \A k \in Keys : Leads(wire', k, Fit(k)', Held(k)', crumbs'[at'].kvs[k]) <=>
                      Leads(wire, k, Fit(k), Held(k), crumbs[at].kvs[k])'
  BY ONLY Zenon DEF Leads, Tells, After, To, Within
<1>2. \A k : (\A T : T = Fit(k)' => InTime(queue, k, T)') => InTime(queue, k, Fit(k))'
  BY ONLY Zenon DEF InTime
<1> QED BY <1>1, <1>2, Zenon DEF Following

(* More values are still in time.                                          *)
LEMMA InTimeMore ==
  ASSUME NEW q, NEW k, NEW T, NEW U, T \subseteq U, InTime(q, k, T)
  PROVE  InTime(q, k, U)
<1>1. \A v : v \in T => v \in U
  BY ONLY T \subseteq U, Zenon
<1> QED BY ONLY <1>1, InTime(q, k, T), Zenon DEF InTime

(* The last update of a key settles what follows from a list.              *)
LEMMA AfterUnique ==
  ASSUME NEW us \in Seq(Updates), NEW k, NEW x, NEW y, NEW z, After(us, k, x, y), After(us, k, x, z)
  PROVE  y = z
<1>1. Len(us) \in Nat
  OBVIOUS
<1>2. CASE Has(us, k)
  <2>1. PICK i \in 1..Len(us) : us[i].key = k /\ us[i].value = y /\ \A j \in 1..Len(us) : us[j].key = k => ~(i < j)
    BY ONLY <1>1, <1>2, After(us, k, x, y) DEF After, To, Has
  <2>2. PICK i2 \in 1..Len(us) : us[i2].key = k /\ us[i2].value = z /\ \A j \in 1..Len(us) : us[j].key = k => ~(i2 < j)
    BY ONLY <1>1, <1>2, After(us, k, x, z) DEF After, To, Has
  <2>3. i = i2
    BY ONLY <2>1, <2>2, <1>1
  <2> QED BY ONLY <2>1, <2>2, <2>3
<1>3. CASE ~Has(us, k)
  BY ONLY <1>3, After(us, k, x, y), After(us, k, x, z), us \in Seq(Updates), AfterNone, Zenon
<1> QED BY ONLY <1>2, <1>3, Zenon

(* A connection that goes on following allows no less.                     *)
LEMMA FitGrows ==
  ASSUME CacheTypeOK, NEW k \in Keys, from \in 1..at, at \in 1..Len(crumbs),
         from' = from, at' \in Nat, at <= at', \A i \in 1..Len(crumbs) : crumbs'[i] = crumbs[i],
         touched \subseteq touched', k \notin touched' => src'[k] = src[k]
  PROVE  Trail(k) \subseteq Trail(k)' /\ Fit(k) \subseteq Fit(k)'
<1>1. Len(crumbs) \in Nat
  BY DEF CacheTypeOK
<1>2. from \in 1..Len(crumbs) /\ \A i \in (from + 1)..at : i \in 1..Len(crumbs) /\ i \in (from' + 1)..at'
  BY <1>1
<1>3. crumbs'[from'] = crumbs[from] /\ \A i \in (from + 1)..at : crumbs'[i] = crumbs[i]
  BY ONLY <1>2, from' = from, \A i \in 1..Len(crumbs) : crumbs'[i] = crumbs[i], Zenon
<1>4. Trail(k) \subseteq Trail(k)'
  <2> SUFFICES ASSUME NEW v \in Trail(k) PROVE v \in Trail(k)'
    OBVIOUS
  <2>1. /\ v \in Contents
        /\ \/ v = crumbs[from].kvs[k]
           \/ \E i \in (from + 1)..at : \E j \in DOMAIN crumbs[i].deltas :
                crumbs[i].deltas[j].key = k /\ crumbs[i].deltas[j].value = v
    BY Zenon DEF Trail
  <2>2. \/ v = crumbs'[from'].kvs[k]
        \/ \E i \in (from' + 1)..at' : \E j \in DOMAIN crumbs'[i].deltas :
             crumbs'[i].deltas[j].key = k /\ crumbs'[i].deltas[j].value = v
    <3>1. CASE v = crumbs[from].kvs[k]
      BY ONLY <3>1, <1>3
    <3>2. CASE \E i \in (from + 1)..at : \E j \in DOMAIN crumbs[i].deltas :
                crumbs[i].deltas[j].key = k /\ crumbs[i].deltas[j].value = v
      <4>1. PICK i \in (from + 1)..at : \E j \in DOMAIN crumbs[i].deltas :
                crumbs[i].deltas[j].key = k /\ crumbs[i].deltas[j].value = v
        BY ONLY <3>2, Zenon
      <4>2. i \in (from' + 1)..at' /\ crumbs'[i] = crumbs[i]
        BY ONLY <1>2, <1>3, i \in (from + 1)..at, Zenon
      <4>3. \E j \in DOMAIN crumbs'[i].deltas : crumbs'[i].deltas[j].key = k /\ crumbs'[i].deltas[j].value = v
        BY ONLY <4>1, <4>2
      <4> QED BY ONLY <4>2, <4>3, Zenon
    <3> QED BY ONLY <2>1, <3>1, <3>2, Zenon
  <2> QED BY ONLY <2>1, <2>2, Zenon DEF Trail, Contents
<1>5. Fit(k) \subseteq Fit(k)'
  <2> SUFFICES ASSUME NEW v \in Fit(k) PROVE v \in Fit(k)'
    OBVIOUS
  <2>1. v \in Trail(k) /\ (k \in touched \/ v = src[k])
    BY DEF Fit
  <2>2. v \in Trail(k)' /\ (k \in touched' \/ v = src'[k])
    BY <2>1, <1>4
  <2> QED BY ONLY <2>2, Zenon DEF Fit
<1> QED BY ONLY <1>4, <1>5

(* What the client has depends on the buffer alone.                        *)
LEMMA BufSame ==
  ASSUME UNCHANGED buf, NEW k
  PROVE  /\ Held(k)' = Held(k) /\ Told(queue, k)' = Told(queue, k)
         /\ \A T : InTime(queue, k, T)' <=> InTime(queue, k, T)
<1>1. UNCHANGED <<queue, unseen, batch, view>>
  BY DEF buf
<1>2. Told(queue, k)' = Told(queue, k)
  BY ONLY <1>1 DEF Told, Base, Pending, ValueIn
<1>3. Held(k)' = Held(k)
  BY ONLY <1>1, <1>2 DEF Held
<1>4. \A T : InTime(queue, k, T)' <=> InTime(queue, k, T)
  BY ONLY <1>1, Zenon DEF InTime
<1> QED BY ONLY <1>2, <1>3, <1>4, Zenon

(* Steps of the datastore, the syncer and the cache.                       *)
LEMMA LinkKept ==
  ASSUME CacheTypeOK, LinkInv, UNCHANGED <<conn, from, at, sent, wire, buf>>,
         \A i \in 1..Len(crumbs) : crumbs'[i] = crumbs[i], Len(crumbs') \in Nat, Len(crumbs) <= Len(crumbs'),
         touched \subseteq touched', \A k \in Keys : k \notin touched' => src'[k] = src[k]
  PROVE  LinkInv'
<1>1. UNCHANGED <<conn, from, at, sent, wire, recent, resyncing, unseen>>
  BY DEF buf
<1>2. /\ \A k : Held(k)' = Held(k) /\ Told(queue, k)' = Told(queue, k)
      /\ \A k, T : InTime(queue, k, T)' <=> InTime(queue, k, T)
  BY BufSame, Zenon
<1>3. Linking'
  BY ONLY <1>1, <1>2, LinkInv DEF LinkInv, Linking
<1>4. ASSUME conn' = "following" PROVE Following'
  <2>1. Following
    BY <1>1, <1>4 DEF LinkInv
  <2>2. /\ from \in 1..at /\ at \in 1..Len(crumbs)
        /\ \A k \in Keys : crumbs[at].kvs[k] \in Trail(k)
        /\ \A k \in Keys : Leads(wire, k, Fit(k), Held(k), crumbs[at].kvs[k])
        /\ recent = "InSync" =>
             /\ resyncing = FALSE
             /\ \A k \in Keys : Told(queue, k) \in Fit(k) /\ InTime(queue, k, Fit(k))
    BY ONLY <2>1, Zenon DEF Following
  <2>3. at \in Nat /\ at <= at
    BY ONLY <2>2
  <2>4. from' \in 1..at' /\ at' \in 1..Len(crumbs') /\ crumbs'[at'] = crumbs[at]
    <3>1. Len(crumbs) \in Nat
      BY DEF CacheTypeOK
    <3> QED BY <1>1, <2>2, <3>1
  <2>5. \A k \in Keys : Trail(k) \subseteq Trail(k)' /\ Fit(k) \subseteq Fit(k)'
    BY <1>1, <2>2, <2>3, FitGrows
  <2>6. \A k \in Keys : crumbs'[at'].kvs[k] \in Trail(k)'
    BY ONLY <2>2, <2>4, <2>5
  <2>7. ASSUME NEW k \in Keys PROVE Leads(wire', k, Fit(k)', Held(k)', crumbs'[at'].kvs[k])
    <3>1. Leads(wire, k, Fit(k), Held(k), crumbs[at].kvs[k])
      BY ONLY <2>2, k \in Keys, Zenon
    <3>2. \A U : Fit(k) \subseteq U => Leads(wire, k, U, Held(k), crumbs[at].kvs[k])
      BY ONLY <3>1, LeadsMore, Zenon
    <3>3. Leads(wire, k, Fit(k)', Held(k), crumbs[at].kvs[k])
      BY ONLY <3>2, <2>5, k \in Keys, Zenon
    <3> QED BY ONLY <3>3, <2>4, <1>1, <1>2
  <2>8. ASSUME recent' = "InSync"
        PROVE  /\ resyncing' = FALSE
               /\ \A k \in Keys : Told(queue, k)' \in Fit(k)' /\ \A T : T = Fit(k)' => InTime(queue, k, T)'
    <3>1. resyncing' = FALSE /\ \A k \in Keys : Told(queue, k) \in Fit(k) /\ InTime(queue, k, Fit(k))
      BY ONLY <1>1, <2>2, <2>8
    <3>2. \A k \in Keys : Told(queue, k)' \in Fit(k)'
      BY ONLY <3>1, <1>2, <2>5
    <3>3. ASSUME NEW k \in Keys, NEW T, T = Fit(k)' PROVE InTime(queue, k, T)'
      <4>1. InTime(queue, k, Fit(k)) /\ Fit(k) \subseteq T
        BY ONLY <3>1, <3>3, <2>5, k \in Keys
      <4>2. InTime(queue, k, T)
        BY ONLY <4>1, InTimeMore, Zenon
      <4> QED BY ONLY <4>2, <1>2, Zenon
    <3> QED BY ONLY <3>1, <3>2, <3>3, Zenon
  <2> QED BY ONLY <2>4, <2>6, <2>7, <2>8, FollowingNext, Zenon
<1> QED BY <1>3, <1>4 DEF LinkInv

(* The trail of a connection that has moved nowhere.                       *)
LEMMA TrailSame ==
  ASSUME UNCHANGED <<crumbs, from, at, touched, src>>, NEW k
  PROVE  Trail(k)' = Trail(k) /\ Fit(k)' = Fit(k)
<1>1. Trail(k)' = Trail(k)
  BY DEF Trail, Contents
<1> QED BY ONLY <1>1, UNCHANGED <<crumbs, from, at, touched, src>> DEF Fit

(* A step of the client or of the sender.                                  *)
LEMMA BufferStep ==
  ASSUME Linking', Following, UNCHANGED <<crumbs, from, at, touched, src>>,
         \A k \in Keys : Leads(wire', k, Fit(k), Held(k)', crumbs[at].kvs[k]),
         recent' = "InSync" =>
           /\ resyncing' = FALSE
           /\ \A k \in Keys : Told(queue, k)' \in Fit(k) /\ \A T : T = Fit(k) => InTime(queue, k, T)'
  PROVE  LinkInv'
<1>1. /\ from \in 1..at /\ at \in 1..Len(crumbs)
      /\ \A k \in Keys : crumbs[at].kvs[k] \in Trail(k)
  BY ONLY Following, Zenon DEF Following
<1>2. \A k : Trail(k)' = Trail(k) /\ Fit(k)' = Fit(k)
  BY TrailSame, Zenon
<1>3. from' = from /\ at' = at /\ crumbs' = crumbs
  OBVIOUS
<1>4. from' \in 1..at' /\ at' \in 1..Len(crumbs') /\ \A k \in Keys : crumbs'[at'].kvs[k] \in Trail(k)'
  BY ONLY <1>1, <1>2, <1>3
<1>5. \A k \in Keys : Leads(wire', k, Fit(k)', Held(k)', crumbs'[at'].kvs[k])
  BY ONLY <1>2, <1>3, \A k \in Keys : Leads(wire', k, Fit(k), Held(k)', crumbs[at].kvs[k])
<1>6. recent' = "InSync" =>
        /\ resyncing' = FALSE
        /\ \A k \in Keys : Told(queue, k)' \in Fit(k)' /\ \A T : T = Fit(k)' => InTime(queue, k, T)'
  BY <1>2, Zenon
<1>7. Following'
  BY ONLY <1>4, <1>5, <1>6, FollowingNext, Zenon
<1> QED BY ONLY <1>7, Linking' DEF LinkInv

(* The sender.                                                             *)
LEMMA SenderKeepsLink ==
  ASSUME LiveInv, LinkInv, SenderStep
  PROVE  LinkInv'
<1>1. UNCHANGED <<crumbs, from, at, touched, src, conn, wire, sent, unseen, resyncing, recent>>
  BY DEF SenderStep, Sender, PullNextBatch, SendToSink, buffer, cacheVars, upstream, link
<1>2. /\ \A k \in Keys : Told(queue, k)' = Told(queue, k)
      /\ \A k \in Keys : \A T : Told(queue, k) \in T /\ InTime(queue, k, T) => InTime(queue, k, T)'
  <2>1. CASE PullNextBatch
    BY ONLY <2>1, LiveInv, PullTold, Zenon
  <2>2. CASE SendToSink
    BY ONLY <2>2, LiveInv, SendTold, Zenon
  <2> QED BY <2>1, <2>2 DEF SenderStep, Sender
<1>3. \A k \in Keys : Held(k)' = Held(k)
  BY ONLY <1>1, <1>2 DEF Held
<1>4. Linking'
  BY ONLY <1>1, <1>3, LinkInv DEF LinkInv, Linking
<1>5. CASE conn # "following"
  BY ONLY <1>1, <1>4, <1>5 DEF LinkInv
<1>6. CASE conn = "following"
  <2>1. Following
    BY ONLY <1>6, LinkInv DEF LinkInv
  <2>2. \A k \in Keys : Leads(wire, k, Fit(k), Held(k), crumbs[at].kvs[k])
    BY ONLY <2>1, Zenon DEF Following
  <2>3. \A k \in Keys : Leads(wire', k, Fit(k), Held(k)', crumbs[at].kvs[k])
    BY ONLY <1>1, <1>3, <2>2
  <2>4. ASSUME recent' = "InSync"
        PROVE  /\ resyncing' = FALSE
               /\ \A k \in Keys : Told(queue, k)' \in Fit(k) /\ \A T : T = Fit(k) => InTime(queue, k, T)'
    <3>1. resyncing = FALSE /\ \A k \in Keys : Told(queue, k) \in Fit(k) /\ InTime(queue, k, Fit(k))
      BY ONLY <2>1, <2>4, <1>1, Zenon DEF Following
    <3>2. ASSUME NEW k \in Keys PROVE Told(queue, k)' \in Fit(k) /\ \A T : T = Fit(k) => InTime(queue, k, T)'
      BY ONLY <3>1, <1>2, k \in Keys, Zenon
    <3> QED BY ONLY <3>1, <3>2, <1>1
  <2>5. UNCHANGED <<crumbs, from, at, touched, src>>
    BY ONLY <1>1
  <2> QED BY ONLY <1>4, <2>1, <2>3, <2>4, <2>5, BufferStep, Zenon
<1> QED BY ONLY <1>5, <1>6

(* The client is sent updates.                                             *)
LEMMA UpdatesKeepLink ==
  ASSUME LiveInv, LinkInv, conn = "following", wire # <<>>, wire' = Tail(wire), Head(wire).tag = "kvs",
         OnUpdates(Head(wire).updates), UNCHANGED <<crumbs, from, at, touched, src, conn, sent>>
  PROVE  LinkInv'
<1> DEFINE us == Head(wire).updates
<1>1. Following /\ Linking
  BY DEF LinkInv
<1>2. wire \in Seq(Messages) /\ Head(wire) \in Messages
  BY <1>1 DEF Linking
<1>3. us \in Seq(Updates)
  BY <1>2 DEF Messages
<1>4. wire' \in Seq(Messages)
  BY <1>2
<1>5. unseen' = unseen \ {us[i].key : i \in DOMAIN us} /\ UNCHANGED <<resyncing, recent>> /\ OnUpdates(us)
  BY Zenon DEF OnUpdates
<1> HIDE DEF us
<1>6. /\ \A k \in Keys : After(us, k, Told(queue, k), Told(queue, k)')
      /\ \A k \in Keys : \A T : Within(us, k, T) /\ InTime(queue, k, T) => InTime(queue, k, T)'
  BY ONLY <1>3, <1>5, LiveInv, OnUpdatesTold, Zenon
<1>7. \A k : k \in unseen' <=> k \in unseen /\ ~Has(us, k)
  <2>1. DOMAIN us = 1..Len(us)
    BY ONLY <1>3
  <2> QED BY ONLY <2>1, <1>5, Zenon DEF Has
<1>8. ASSUME NEW k \in Keys
      PROVE  Within(us, k, Fit(k)) /\ Leads(wire', k, Fit(k), Held(k)', crumbs[at].kvs[k])
  <2>1. Leads(wire, k, Fit(k), Held(k), crumbs[at].kvs[k])
    BY ONLY <1>1, k \in Keys, Zenon DEF Following
  <2>2. PICK y : Tells(Head(wire), k, Fit(k), Held(k), y) /\ Leads(Tail(wire), k, Fit(k), y, crumbs[at].kvs[k])
    BY ONLY <1>2, <2>1, wire # <<>>, LeadsTail, Zenon
  <2>3. After(us, k, Held(k), y) /\ Within(us, k, Fit(k))
    BY ONLY <2>2, Head(wire).tag = "kvs", Zenon DEF Tells, us
  <2>4. Held(k)' = IF k \in unseen' THEN Absent ELSE Told(queue, k)'
    BY ONLY Zenon DEF Held
  <2>5. CASE Has(us, k)
    <3>1. Held(k)' = Told(queue, k)'
      BY ONLY <2>4, <2>5, <1>7
    <3>2. After(us, k, Held(k), Told(queue, k)')
      BY ONLY <2>5, <1>3, <1>6, k \in Keys, AfterLast, Zenon
    <3>3. y = Told(queue, k)'
      BY ONLY <1>3, <2>3, <3>2, AfterUnique, Zenon
    <3> QED BY ONLY <2>2, <2>3, <3>1, <3>3, wire' = Tail(wire)
  <2>6. CASE ~Has(us, k)
    <3>1. y = Held(k) /\ Told(queue, k)' = Told(queue, k)
      BY ONLY <2>6, <1>3, <1>6, <2>3, k \in Keys, AfterNone, Zenon
    <3>2. Held(k)' = Held(k)
      BY ONLY <2>4, <2>6, <3>1, <1>7 DEF Held
    <3> QED BY ONLY <2>2, <2>3, <3>1, <3>2, wire' = Tail(wire)
  <2> QED BY ONLY <2>5, <2>6, Zenon
<1>9. Linking'
  <2>1. unseen' # {} => resyncing'
    BY <1>1, <1>5 DEF Linking
  <2>2. conn' = "following" /\ sent' \in Statuses
    BY <1>1 DEF Linking
  <2> QED BY ONLY <1>4, <2>1, <2>2 DEF Linking
<1>10. ASSUME recent' = "InSync"
      PROVE  /\ resyncing' = FALSE
             /\ \A k \in Keys : Told(queue, k)' \in Fit(k) /\ \A T : T = Fit(k) => InTime(queue, k, T)'
  <2>1. resyncing = FALSE /\ \A k \in Keys : Told(queue, k) \in Fit(k) /\ InTime(queue, k, Fit(k))
    BY ONLY <1>1, <1>5, <1>10, Zenon DEF Following
  <2>2. ASSUME NEW k \in Keys PROVE Told(queue, k)' \in Fit(k) /\ \A T : T = Fit(k) => InTime(queue, k, T)'
    <3>1. Told(queue, k)' \in Fit(k)
      BY ONLY <2>1, <1>3, <1>6, <1>8, k \in Keys, AfterWithin, Zenon
    <3>2. InTime(queue, k, Fit(k)) /\ Within(us, k, Fit(k))
      BY ONLY <2>1, <1>8, k \in Keys, Zenon
    <3>3. \A T : T = Fit(k) => InTime(queue, k, T)'
      BY ONLY <3>2, <1>6, k \in Keys, Zenon
    <3> QED BY ONLY <3>1, <3>3
  <2> QED BY ONLY <1>5, <2>1, <2>2, Zenon
<1> QED BY <1>1, <1>8, <1>9, <1>10, BufferStep, Zenon

(* The client is told a status.                                            *)
LEMMA StatusKeepsLink ==
  ASSUME LiveInv, LinkInv, conn = "following", wire # <<>>, wire' = Tail(wire), Head(wire).tag = "status",
         OnStatusUpdated(Head(wire).status), UNCHANGED <<crumbs, from, at, touched, src, conn, sent>>
  PROVE  LinkInv'
<1> DEFINE s == Head(wire).status
<1>1. Following /\ Linking
  BY DEF LinkInv
<1>2. wire \in Seq(Messages) /\ Head(wire) \in Messages
  BY <1>1 DEF Linking
<1>3. s \in Statuses /\ Head(wire).tag # "kvs"
  BY <1>2 DEF Messages
<1>4. wire' \in Seq(Messages)
  BY <1>2
<1>5. OnStatusUpdated(s) /\ (unseen # {} => resyncing)
  BY <1>1 DEF Linking
<1> HIDE DEF s
<1>6. /\ recent' = s
      /\ \/ s = "InSync" /\ unseen' = {} /\ resyncing' = FALSE
         \/ s # "InSync" /\ unseen' = unseen /\ resyncing' = resyncing
      /\ \A k \in Keys : Held(k)' = Held(k)
      /\ s = "InSync" /\ recent # "InSync" => \A k \in Keys : \A T : Held(k) \in T => InTime(queue, k, T)'
      /\ ~(s = "InSync" /\ resyncing) => \A k \in Keys : \A T : InTime(queue, k, T) => InTime(queue, k, T)'
  BY ONLY <1>3, <1>5, LiveInv, StatusHeld, Zenon
<1>7. ASSUME NEW k \in Keys
      PROVE  /\ Leads(wire', k, Fit(k), Held(k)', crumbs[at].kvs[k])
             /\ s = "InSync" => Held(k) \in Fit(k)
  <2>1. Leads(wire, k, Fit(k), Held(k), crumbs[at].kvs[k])
    BY ONLY <1>1, k \in Keys, Zenon DEF Following
  <2>2. PICK y : Tells(Head(wire), k, Fit(k), Held(k), y) /\ Leads(Tail(wire), k, Fit(k), y, crumbs[at].kvs[k])
    BY ONLY <1>2, <2>1, wire # <<>>, LeadsTail, Zenon
  <2>3. Held(k) = y /\ (s = "InSync" => Held(k) \in Fit(k))
    BY ONLY <2>2, <1>3, Zenon DEF Tells, s
  <2>4. Held(k)' = y
    BY ONLY <2>3, <1>6, k \in Keys
  <2> QED BY ONLY <2>2, <2>3, <2>4, wire' = Tail(wire)
<1>8. Linking'
  <2>1. unseen' # {} => resyncing'
    BY ONLY <1>5, <1>6
  <2>2. conn' = "following" /\ sent' \in Statuses
    BY <1>1 DEF Linking
  <2> QED BY ONLY <1>4, <2>1, <2>2 DEF Linking
<1>9. ASSUME recent' = "InSync"
      PROVE  /\ resyncing' = FALSE
             /\ \A k \in Keys : Told(queue, k)' \in Fit(k) /\ \A T : T = Fit(k) => InTime(queue, k, T)'
  <2>1. s = "InSync" /\ unseen' = {} /\ resyncing' = FALSE
    BY ONLY <1>6, <1>9
  <2>2. ASSUME NEW k \in Keys PROVE Told(queue, k)' \in Fit(k) /\ \A T : T = Fit(k) => InTime(queue, k, T)'
    <3>1. Held(k)' = Told(queue, k)'
      BY ONLY <2>1 DEF Held
    <3>2. Told(queue, k)' \in Fit(k) /\ Held(k) \in Fit(k)
      BY ONLY <3>1, <2>1, <1>6, <1>7, k \in Keys
    <3>3. CASE recent # "InSync"
      BY ONLY <3>2, <3>3, <2>1, <1>6, k \in Keys, Zenon
    <3>4. CASE recent = "InSync"
      <4>1. resyncing = FALSE /\ InTime(queue, k, Fit(k))
        BY ONLY <1>1, <3>4, k \in Keys, Zenon DEF Following
      <4>2. \A T : InTime(queue, k, T) => InTime(queue, k, T)'
        BY ONLY <4>1, <1>6, k \in Keys, Zenon
      <4> QED BY ONLY <4>1, <4>2, <3>2, Zenon
    <3> QED BY ONLY <3>3, <3>4
  <2> QED BY ONLY <2>1, <2>2, Zenon
<1>10. \A k \in Keys : Leads(wire', k, Fit(k), Held(k)', crumbs[at].kvs[k])
  BY ONLY <1>7, Zenon
<1> QED BY <1>1, <1>10, <1>8, <1>9, BufferStep, Zenon

=============================================================================
