---------------------------- MODULE TyphaStages ----------------------------
(***************************************************************************)
(* The places between the datastore and the sink of a consumer fed by      *)
(* Typha: what the deduplicating buffer will have told of a key, and that  *)
(* the breadcrumbs' deltas lead from one snapshot to the next.             *)
(***************************************************************************)
EXTENDS TyphaProofs

-----------------------------------------------------------------------------
(* What the buffer holds of a key.                                         *)

ValueIn(q, k) == q[CHOOSE i \in DOMAIN q : IsUpdateOf(q[i], k)].value

(* What the sink will have of k once the batch under way is sent.          *)
Base(k) == IF Pending(batch, k) THEN ValueIn(batch, k) ELSE view[k]

(* And once q is sent too.                                                 *)
Told(q, k) == IF Pending(q, k) THEN ValueIn(q, k) ELSE Base(k)

(* What the client has of k: a key that was not seen since the             *)
(* reconnection counts as gone.                                            *)
Held(k) == IF k \in unseen THEN Absent ELSE Told(queue, k)

(* The value of k that the sink has is within T whenever it has been told  *)
(* every status under way.                                                 *)
InTime(q, k, T) ==
  \/ view[k] \in T /\ \A i \in DOMAIN batch : IsUpdateOf(batch[i], k) => batch[i].value \in T
  \/ \E i \in DOMAIN batch :
       /\ IsUpdateOf(batch[i], k) /\ batch[i].value \in T
       /\ \/ \E j \in DOMAIN batch : i < j /\ batch[j].tag = "status"
          \/ \E j \in DOMAIN q : q[j].tag = "status"
  \/ \E i, j \in DOMAIN q : i < j /\ IsUpdateOf(q[i], k) /\ q[j].tag = "status"

(* A key's only entry.                                                     *)
LEMMA ValueIs ==
  ASSUME NEW q, UniqueKeys(q), NEW k, NEW i \in DOMAIN q, IsUpdateOf(q[i], k)
  PROVE  Pending(q, k) /\ ValueIn(q, k) = q[i].value
<1> DEFINE j == CHOOSE j \in DOMAIN q : IsUpdateOf(q[j], k)
<1>1. j \in DOMAIN q /\ IsUpdateOf(q[j], k)
  BY ONLY i \in DOMAIN q, IsUpdateOf(q[i], k), Zenon
<1>2. ValueIn(q, k) = q[j].value
  BY ONLY Zenon DEF ValueIn
<1> HIDE DEF j
<1>3. j = i
  BY ONLY <1>1, UniqueKeys(q), i \in DOMAIN q, IsUpdateOf(q[i], k), Zenon DEF UniqueKeys, IsUpdateOf
<1> QED BY ONLY <1>2, <1>3, i \in DOMAIN q, IsUpdateOf(q[i], k), Zenon DEF Pending

(* liveResourceKeys is what the sink will have.                            *)
LEMMA BaseLive ==
  ASSUME BatchOK, NEW k \in Keys
  PROVE  k \in live <=> Base(k) # Absent
<1>1. CASE Pending(batch, k)
  <2>1. PICK i \in DOMAIN batch : IsUpdateOf(batch[i], k)
    BY ONLY <1>1, Zenon DEF Pending
  <2>2. ValueIn(batch, k) = batch[i].value
    BY ONLY <2>1, BatchOK, ValueIs, Zenon DEF BatchOK
  <2>3. k \in live <=> batch[i].value # Absent
    BY ONLY <2>1, BatchOK, Zenon DEF BatchOK, IsUpdateOf
  <2> QED BY ONLY <1>1, <2>2, <2>3, Zenon DEF Base
<1>2. CASE ~Pending(batch, k)
  BY ONLY <1>2, BatchOK, k \in Keys, Zenon DEF BatchOK, Base
<1> QED BY ONLY <1>1, <1>2, Zenon

(* n is q with the update R of k, in the place of an older one if there is *)
(* one.                                                                    *)
Queued(q, n, k, R) ==
  /\ \A i \in DOMAIN q : i \in DOMAIN n /\ n[i] = IF IsUpdateOf(q[i], k) THEN R ELSE q[i]
  /\ \A i \in DOMAIN n : i \in DOMAIN q \/ n[i] = R
  /\ \E i \in DOMAIN n : n[i] = R

(* That is what queueUpdate does, unless the update cancels out.           *)
LEMMA QueuedShape ==
  ASSUME NEW q, QueueOK(q, live), NEW k \in Keys, NEW v \in Contents,
         ~(Pending(q, k) /\ v = Absent /\ k \notin live)
  PROVE  Queued(q, queueUpdate(q, k, v), k, Retyped(k, v))
<1> DEFINE n == queueUpdate(q, k, v)
<1>1. CASE ~Pending(q, k)
  <2>1. n = Append(q, Retyped(k, v))
    BY <1>1 DEF queueUpdate
  <2> HIDE DEF n
  <2>2. q \in Seq(Entries) /\ Retyped(k, v) \in Entries
    BY RetypedEntry DEF QueueOK
  <2>3. /\ \A i \in DOMAIN q : i \in DOMAIN n /\ n[i] = q[i]
        /\ \A i \in DOMAIN n : i \in DOMAIN q \/ i = Len(q) + 1
        /\ Len(q) + 1 \in DOMAIN n /\ n[Len(q) + 1] = Retyped(k, v)
    BY ONLY <2>1, <2>2
  <2>4. \A i \in DOMAIN q : ~IsUpdateOf(q[i], k)
    BY ONLY <1>1, Zenon DEF Pending
  <2> QED BY ONLY <2>3, <2>4, Zenon DEF n, Queued
<1>2. CASE Pending(q, k) /\ ~(v = Absent /\ k \notin live)
  <2>1. n = [i \in DOMAIN q |-> IF IsUpdateOf(q[i], k) THEN Retyped(k, v) ELSE q[i]]
    BY <1>2 DEF queueUpdate
  <2> HIDE DEF n
  <2>2. DOMAIN n = DOMAIN q /\ \A i \in DOMAIN q : n[i] = IF IsUpdateOf(q[i], k) THEN Retyped(k, v) ELSE q[i]
    BY ONLY <2>1, Zenon
  <2>3. PICK i \in DOMAIN q : IsUpdateOf(q[i], k)
    BY ONLY <1>2, Zenon DEF Pending
  <2>4. n[i] = Retyped(k, v)
    BY ONLY <2>2, <2>3, Zenon
  <2> QED BY ONLY <2>2, <2>4, Zenon DEF n, Queued
<1> QED BY <1>1, <1>2, Zenon

(* queueUpdate gives k the value v, and leaves the other keys alone.       *)
LEMMA QueueUpdateTold ==
  ASSUME NEW q, QueueOK(q, live), BatchOK, NEW k \in Keys, NEW v \in Contents, NEW l \in Keys
  PROVE  Told(queueUpdate(q, k, v), l) = IF k = l THEN v ELSE Told(q, l)
<1> DEFINE n == queueUpdate(q, k, v)
           R == Retyped(k, v)
<1>1. UniqueKeys(q) /\ UniqueKeys(n) /\ n \in Seq(Entries) /\ q \in Seq(Entries)
  BY QueueUpdateOK DEF QueueOK
<1>2. R.tag = "update" /\ R.key = k /\ R.value = v
  BY RetypedEntry
<1>3. CASE ~(Pending(q, k) /\ v = Absent /\ k \notin live)
  <2>1. /\ \A i \in DOMAIN q : i \in DOMAIN n /\ n[i] = IF IsUpdateOf(q[i], k) THEN R ELSE q[i]
        /\ \A i \in DOMAIN n : i \in DOMAIN q \/ n[i] = R
        /\ \E i \in DOMAIN n : n[i] = R
    <3>1. Queued(q, n, k, R)
      BY <1>3, QueuedShape, Zenon
    <3> QED BY ONLY <3>1, Zenon DEF Queued
  <2> HIDE DEF n, R
  <2>2. CASE k = l
    <3>1. PICK i \in DOMAIN n : IsUpdateOf(n[i], l) /\ n[i].value = v
      BY ONLY <1>2, <2>1, <2>2, Zenon DEF IsUpdateOf
    <3>2. Pending(n, l) /\ ValueIn(n, l) = v
      BY ONLY <3>1, <1>1, ValueIs, Zenon
    <3> QED BY ONLY <2>2, <3>2, Zenon DEF Told, n
  <2>3. CASE k # l
    <3>1. ASSUME Pending(q, l) PROVE Pending(n, l) /\ ValueIn(n, l) = ValueIn(q, l)
      <4>1. PICK i \in DOMAIN q : IsUpdateOf(q[i], l)
        BY ONLY <3>1, Zenon DEF Pending
      <4>2. ~IsUpdateOf(q[i], k)
        BY ONLY <4>1, <2>3, Zenon DEF IsUpdateOf
      <4>3. i \in DOMAIN n /\ n[i] = q[i]
        BY ONLY <2>1, <4>2, i \in DOMAIN q, Zenon
      <4> QED BY ONLY <4>1, <4>3, <1>1, ValueIs, Zenon
    <3>2. ASSUME Pending(n, l) PROVE Pending(q, l)
      <4>1. PICK i \in DOMAIN n : IsUpdateOf(n[i], l)
        BY ONLY <3>2, Zenon DEF Pending
      <4>2. n[i] # R
        BY ONLY <4>1, <1>2, <2>3, Zenon DEF IsUpdateOf
      <4>3. i \in DOMAIN q /\ n[i] = q[i]
        BY ONLY <2>1, <4>2, i \in DOMAIN n, Zenon
      <4> QED BY ONLY <4>1, <4>3, Zenon DEF Pending
    <3> QED BY ONLY <2>3, <3>1, <3>2, Zenon DEF Told, n
  <2> QED BY ONLY <2>2, <2>3, Zenon
<1>4. CASE Pending(q, k) /\ v = Absent /\ k \notin live
  <2>1. n = Without(q, k)
    BY <1>4 DEF queueUpdate
  <2> HIDE DEF n
  <2>2. PICK i \in DOMAIN q :
          /\ IsUpdateOf(q[i], k)
          /\ DOMAIN n = 1..(Len(q) - 1)
          /\ \A j \in 1..(Len(q) - 1) : n[j] = IF j < i THEN q[j] ELSE q[j + 1]
    BY ONLY <1>1, <1>4, <2>1, k \in Keys, WithoutElements, Zenon
  <2>3. i \in 1..Len(q) /\ Len(q) \in Nat /\ DOMAIN q = 1..Len(q)
    BY ONLY <1>1, <2>2
  <2> HIDE DEF R
  <2>4. \A j \in DOMAIN n : \E o \in DOMAIN q : o # i /\ n[j] = q[o]
    BY ONLY <2>2, <2>3
  <2>5. \A o \in DOMAIN q : o # i => \E j \in DOMAIN n : n[j] = q[o]
    <3>1. ASSUME NEW o \in DOMAIN q, o < i PROVE \E j \in DOMAIN n : n[j] = q[o]
      <4>1. o \in 1..(Len(q) - 1)
        BY ONLY <2>3, <3>1, o \in DOMAIN q
      <4> QED BY ONLY <4>1, <3>1, <2>2, Zenon
    <3>2. ASSUME NEW o \in DOMAIN q, o > i PROVE \E j \in DOMAIN n : n[j] = q[o]
      <4>1. o - 1 \in 1..(Len(q) - 1) /\ ~(o - 1 < i) /\ (o - 1) + 1 = o
        BY ONLY <2>3, <3>2, o \in DOMAIN q
      <4> QED BY ONLY <4>1, <2>2, Zenon
    <3>3. \A o \in DOMAIN q : o < i \/ o > i \/ o = i
      BY ONLY <2>3
    <3> QED BY ONLY <3>1, <3>2, <3>3, Zenon
  <2>6. CASE k = l
    <3>1. ~Pending(n, k)
      BY ONLY <1>1, <2>2, <2>4, Zenon DEF Pending, UniqueKeys, IsUpdateOf
    <3>2. Base(k) = Absent
      BY ONLY <1>4, BaseLive, BatchOK, k \in Keys, Zenon
    <3> QED BY ONLY <2>6, <3>1, <3>2, <1>4, Zenon DEF Told, n
  <2>7. CASE k # l
    <3>1. ASSUME Pending(q, l) PROVE Pending(n, l) /\ ValueIn(n, l) = ValueIn(q, l)
      <4>1. PICK o \in DOMAIN q : IsUpdateOf(q[o], l)
        BY ONLY <3>1, Zenon DEF Pending
      <4>2. o # i
        BY ONLY <4>1, <2>2, <2>7, Zenon DEF IsUpdateOf
      <4>3. PICK j \in DOMAIN n : n[j] = q[o]
        BY ONLY <2>5, <4>2, o \in DOMAIN q, Zenon
      <4> QED BY ONLY <4>1, <4>3, <1>1, ValueIs, Zenon
    <3>2. ASSUME Pending(n, l) PROVE Pending(q, l)
      BY ONLY <3>2, <2>4, Zenon DEF Pending
    <3> QED BY ONLY <2>7, <3>1, <3>2, Zenon DEF Told, n
  <2> QED BY ONLY <2>6, <2>7, Zenon
<1> QED BY ONLY <1>3, <1>4, Zenon

(* Every status under way stays, and stays behind what was before it.      *)
LEMMA QueueUpdateInTime ==
  ASSUME NEW q, QueueOK(q, live), BatchOK, NEW k \in Keys, NEW v \in Contents, NEW l \in Keys,
         NEW T, InTime(q, l, T), k = l => v \in T
  PROVE  InTime(queueUpdate(q, k, v), l, T)
<1> DEFINE n == queueUpdate(q, k, v)
           R == Retyped(k, v)
<1>1. n \in Seq(Entries) /\ q \in Seq(Entries)
  BY QueueUpdateOK DEF QueueOK
<1>2. R.tag = "update" /\ R.key = k
  BY RetypedEntry
<1>3. ASSUME NEW m,
             \A j \in DOMAIN q : q[j].tag = "status" => m[j] \in DOMAIN n /\ n[m[j]].tag = "status",
             \/ ~\E i, j \in DOMAIN q : i < j /\ IsUpdateOf(q[i], l) /\ q[j].tag = "status"
             \/ \A i, j \in DOMAIN q : i < j /\ IsUpdateOf(q[i], l) /\ q[j].tag = "status" =>
                  m[i] \in DOMAIN n /\ IsUpdateOf(n[m[i]], l) /\ m[i] < m[j]
      PROVE  InTime(n, l, T)
  <2> HIDE DEF n
  <2>1. CASE \E i, j \in DOMAIN q : i < j /\ IsUpdateOf(q[i], l) /\ q[j].tag = "status"
    BY ONLY <2>1, <1>3, Zenon DEF InTime
  <2>2. CASE ~\E i, j \in DOMAIN q : i < j /\ IsUpdateOf(q[i], l) /\ q[j].tag = "status"
    <3>1. (\E j \in DOMAIN q : q[j].tag = "status") => \E j \in DOMAIN n : n[j].tag = "status"
      BY ONLY <1>3, Zenon
    <3> QED BY ONLY <3>1, <2>2, InTime(q, l, T), Zenon DEF InTime
  <2> QED BY ONLY <2>1, <2>2, Zenon
<1>4. CASE ~(Pending(q, k) /\ v = Absent /\ k \notin live)
  <2>1. Queued(q, n, k, R)
    BY <1>4, QueuedShape, Zenon
  <2> HIDE DEF n, R
  <2> DEFINE m == [i \in DOMAIN q |-> i]
  <2>2. \A j \in DOMAIN q : q[j].tag = "status" => j \in DOMAIN n /\ n[j].tag = "status"
    BY ONLY <2>1 DEF Queued, IsUpdateOf
  <2>3. ASSUME NEW i \in DOMAIN q, IsUpdateOf(q[i], l) PROVE i \in DOMAIN n /\ IsUpdateOf(n[i], l)
    <3>1. CASE IsUpdateOf(q[i], k)
      <4>1. k = l
        BY ONLY <2>3, <3>1, Zenon DEF IsUpdateOf
      <4>2. i \in DOMAIN n /\ n[i] = R
        BY ONLY <2>1, <3>1, i \in DOMAIN q, Zenon DEF Queued
      <4> QED BY ONLY <4>1, <4>2, <1>2, Zenon DEF IsUpdateOf
    <3>2. CASE ~IsUpdateOf(q[i], k)
      BY ONLY <2>1, <2>3, <3>2, i \in DOMAIN q, Zenon DEF Queued
    <3> QED BY ONLY <3>1, <3>2, Zenon
  <2>4. \A i \in DOMAIN q : m[i] = i
    BY ONLY Zenon
  <2> HIDE DEF m
  <2>5. \A j \in DOMAIN q : q[j].tag = "status" => m[j] \in DOMAIN n /\ n[m[j]].tag = "status"
    BY ONLY <2>2, <2>4, Zenon
  <2>6. \A i, j \in DOMAIN q : i < j /\ IsUpdateOf(q[i], l) /\ q[j].tag = "status" =>
          m[i] \in DOMAIN n /\ IsUpdateOf(n[m[i]], l) /\ m[i] < m[j]
    BY ONLY <2>3, <2>4, Zenon
  <2> QED BY ONLY <2>5, <2>6, <1>3, Zenon DEF n
<1>5. CASE Pending(q, k) /\ v = Absent /\ k \notin live
  <2>1. n = Without(q, k)
    BY <1>5 DEF queueUpdate
  <2> HIDE DEF n, R
  <2>2. PICK i \in DOMAIN q :
          /\ IsUpdateOf(q[i], k)
          /\ DOMAIN n = 1..(Len(q) - 1)
          /\ \A j \in 1..(Len(q) - 1) : n[j] = IF j < i THEN q[j] ELSE q[j + 1]
    BY ONLY <1>1, <1>5, <2>1, k \in Keys, WithoutElements, Zenon
  <2>3. i \in 1..Len(q) /\ Len(q) \in Nat /\ DOMAIN q = 1..Len(q)
    BY ONLY <1>1, <2>2
  <2> DEFINE m == [o \in DOMAIN q |-> IF o < i THEN o ELSE o - 1]
  <2>4. \A o \in DOMAIN q : o # i => m[o] \in DOMAIN n /\ n[m[o]] = q[o]
    <3>1. ASSUME NEW o \in DOMAIN q, o < i PROVE m[o] \in DOMAIN n /\ n[m[o]] = q[o]
      <4>1. o \in 1..(Len(q) - 1)
        BY ONLY <2>3, <3>1, o \in DOMAIN q
      <4> QED BY ONLY <4>1, <3>1, <2>2, Zenon
    <3>2. ASSUME NEW o \in DOMAIN q, o > i PROVE m[o] \in DOMAIN n /\ n[m[o]] = q[o]
      <4>1. o - 1 \in 1..(Len(q) - 1) /\ ~(o - 1 < i) /\ (o - 1) + 1 = o /\ ~(o < i)
        BY ONLY <2>3, <3>2, o \in DOMAIN q
      <4> QED BY ONLY <4>1, <2>2, o \in DOMAIN q, Zenon
    <3>3. \A o \in DOMAIN q : o < i \/ o > i \/ o = i
      BY ONLY <2>3
    <3> QED BY ONLY <3>1, <3>2, <3>3, Zenon
  <2>5. \A o, p \in DOMAIN q : o # i /\ p # i /\ o < p => m[o] < m[p]
    BY ONLY <2>3
  <2>6. ASSUME NEW j \in DOMAIN q, q[j].tag = "status"
        PROVE  m[j] \in DOMAIN n /\ n[m[j]].tag = "status" /\ j # i
    BY ONLY <2>2, <2>4, <2>6, j \in DOMAIN q DEF IsUpdateOf
  <2> HIDE DEF m
  <2>7. CASE k # l
    <3>1. ASSUME NEW o \in DOMAIN q, NEW j \in DOMAIN q, o < j, IsUpdateOf(q[o], l), q[j].tag = "status"
          PROVE  m[o] \in DOMAIN n /\ IsUpdateOf(n[m[o]], l) /\ m[o] < m[j]
      <4>1. o # i
        BY ONLY <3>1, <2>2, <2>7, Zenon DEF IsUpdateOf
      <4> QED BY ONLY <4>1, <3>1, <2>4, <2>5, <2>6, Zenon
    <3> QED BY ONLY <3>1, <2>6, <1>3, Zenon DEF n
  <2>8. CASE k = l
    <3>1. CASE \E o, j \in DOMAIN q : o < j /\ IsUpdateOf(q[o], l) /\ q[j].tag = "status"
      <4>1. \E j \in DOMAIN n : n[j].tag = "status"
        BY ONLY <3>1, <2>6, Zenon
      <4>2. Base(l) = Absent /\ Absent \in T
        BY ONLY <1>5, <2>8, k = l => v \in T, BaseLive, BatchOK, k \in Keys, Zenon
      <4>3. CASE Pending(batch, l)
        <5>1. PICK j \in DOMAIN batch : IsUpdateOf(batch[j], l)
          BY ONLY <4>3, Zenon DEF Pending
        <5>2. batch[j].value = Absent
          BY ONLY <5>1, <4>2, <4>3, BatchOK, ValueIs, Zenon DEF BatchOK, Base
        <5> QED BY ONLY <4>1, <4>2, <5>1, <5>2, Zenon DEF InTime, n
      <4>4. CASE ~Pending(batch, l)
        BY ONLY <4>2, <4>4, Zenon DEF InTime, Base, Pending
      <4> QED BY ONLY <4>3, <4>4, Zenon
    <3>2. CASE ~\E o, j \in DOMAIN q : o < j /\ IsUpdateOf(q[o], l) /\ q[j].tag = "status"
      BY ONLY <3>2, <2>6, <1>3, Zenon DEF n
    <3> QED BY ONLY <3>1, <3>2, Zenon
  <2> QED BY ONLY <2>7, <2>8, Zenon
<1> QED BY ONLY <1>4, <1>5, Zenon

(* OnUpdates: the buffer takes each key where the updates take it.         *)
LEMMA OnUpdatesTold ==
  ASSUME LiveInv, NEW us \in Seq(Updates), OnUpdates(us)
  PROVE  /\ LiveInv'
         /\ \A k \in Keys : After(us, k, Told(queue, k), Told(queue, k)')
         /\ \A k \in Keys : \A T : Within(us, k, T) /\ InTime(queue, k, T) => InTime(queue, k, T)'
<1> DEFINE n == Len(us)
<1>1. QueueOK(queue, live) /\ BatchOK /\ UnseenOK /\ DedupeTypeOK
  BY LiveInvParts
<1>2. /\ queue' = Typha!Loop(LAMBDA q, u : queueUpdate(q, u.key, u.value), queue, us)
      /\ unseen' = unseen \ {us[i].key : i \in DOMAIN us}
      /\ UNCHANGED <<live, resyncing, recent, batch, view, sinkStatus>>
  BY Zenon DEF OnUpdates
<1>3. PICK a \in [0..n -> {q \in Seq(Entries) : QueueOK(q, live)}] :
        /\ a[0] = queue /\ queue' = a[n]
        /\ \A i \in 1..n : a[i] = queueUpdate(a[i - 1], us[i].key, us[i].value)
  <2>1. \E a : QueueSteps(a, queue, us) /\ QueueResult(queue, us) = a[Len(us)]
    BY ONLY <1>1, us \in Seq(Updates), QueueLoop, Zenon
  <2>2. queue' = QueueResult(queue, us)
    BY ONLY <1>2, Zenon DEF QueueResult
  <2> QED BY ONLY <2>1, <2>2, Zenon DEF QueueSteps
<1>4. n \in Nat /\ DOMAIN us = 1..n /\ \A i \in 1..n : us[i].key \in Keys /\ us[i].value \in Contents
  <2>1. n \in Nat /\ DOMAIN us = 1..n /\ \A i \in 1..n : us[i] \in Updates
    BY ONLY us \in Seq(Updates)
  <2>2. \A u \in Updates : u.key \in Keys /\ u.value \in Contents
    BY ONLY TRUE DEF Updates
  <2> QED BY ONLY <2>1, <2>2, Zenon
<1>5. /\ \A i \in 1..n : i - 1 \in 0..n /\ i \in 0..n
      /\ 0 \in 0..n /\ n \in 0..n
  BY ONLY <1>4
<1> HIDE DEF n
<1>6. \A i \in 0..n : QueueOK(a[i], live)
  BY ONLY <1>3, Zenon
<1>7. QueueOK(queue', live')
  BY ONLY <1>2, <1>3, <1>5, <1>6, Zenon
<1>8. ASSUME NEW k \in Keys, ~Pending(queue, k), k \notin {us[i].key : i \in DOMAIN us}
      PROVE  ~Pending(queue', k)
  <2> DEFINE S == {i \in 0..n : ~Pending(a[i], k)}
  <2>1. 0 \in S
    BY ONLY <1>3, <1>5, <1>8, Zenon
  <2>2. ASSUME NEW i \in 1..n, i - 1 \in S PROVE i \in S
    <3>1. QueueOK(a[i - 1], live) /\ ~Pending(a[i - 1], k) /\ us[i].key \in Keys /\ us[i].value \in Contents
      BY ONLY <2>2, <1>4, <1>5, <1>6, i \in 1..n, Zenon
    <3>2. us[i].key # k
      BY ONLY <1>4, <1>8, i \in 1..n, Zenon
    <3>3. ~Pending(queueUpdate(a[i - 1], us[i].key, us[i].value), k)
      BY ONLY <3>1, <3>2, k \in Keys, QueueUpdateOK, Zenon
    <3> QED BY ONLY <3>3, <1>3, <1>5, i \in 1..n, Zenon
  <2> HIDE DEF S
  <2>3. n \in S
    BY ONLY <2>1, <2>2, <1>4, <1>5, UpTo, Zenon
  <2> QED BY ONLY <2>3, <1>3, Zenon DEF S
<1>9. LiveInv'
  <2>1. DedupeTypeOK'
    <3>1. unseen' \subseteq Keys
      BY ONLY <1>1, <1>2, Zenon DEF DedupeTypeOK
    <3> QED BY ONLY <3>1, <1>1, <1>2, <1>7, Zenon DEF DedupeTypeOK, QueueOK
  <2>2. UnseenOK'
    <3>1. \A k \in unseen' : k \in unseen /\ k \notin {us[i].key : i \in DOMAIN us}
      BY ONLY <1>2, Zenon
    <3>2. \A k \in unseen' : k \in live' /\ ~Pending(queue', k)
      BY ONLY <3>1, <1>1, <1>2, <1>8, Zenon DEF UnseenOK, DedupeTypeOK
    <3> QED BY ONLY <3>2, Zenon DEF UnseenOK, Pending
  <2>3. BatchOK'
    BY ONLY <1>1, <1>2, ClientKeepsBatch, Zenon DEF sink
  <2> QED BY ONLY <2>1, <2>2, <2>3, <1>7, LiveInvParts, Zenon
<1>10. \A k \in Keys : Base(k)' = Base(k)
  BY ONLY <1>2, Zenon DEF Base, Pending, ValueIn
<1>11. ASSUME NEW k \in Keys PROVE After(us, k, Told(queue, k), Told(queue, k)')
  <2> DEFINE h == [i \in 0..n |-> Told(a[i], k)]
  <2>1. ASSUME NEW i \in 1..n PROVE h[i] = IF us[i].key = k THEN us[i].value ELSE h[i - 1]
    <3>1. QueueOK(a[i - 1], live) /\ us[i].key \in Keys /\ us[i].value \in Contents
      BY ONLY <1>4, <1>5, <1>6, i \in 1..n, Zenon
    <3>2. Told(queueUpdate(a[i - 1], us[i].key, us[i].value), k) = IF us[i].key = k THEN us[i].value ELSE Told(a[i - 1], k)
      <4> DEFINE q == a[i - 1]
                 l == us[i].key
                 v == us[i].value
      <4>1. QueueOK(q, live) /\ l \in Keys /\ v \in Contents
        BY ONLY <3>1
      <4> HIDE DEF q, l, v
      <4>2. Told(queueUpdate(q, l, v), k) = IF l = k THEN v ELSE Told(q, k)
        BY ONLY <4>1, <1>1, k \in Keys, QueueUpdateTold
      <4> QED BY ONLY <4>2, Zenon DEF q, l, v
    <3>3. h[i] = Told(queueUpdate(a[i - 1], us[i].key, us[i].value), k) /\ h[i - 1] = Told(a[i - 1], k)
      BY ONLY <1>3, <1>5, i \in 1..n, Zenon
    <3> QED BY ONLY <3>2, <3>3, Zenon
  <2>2. h[0] = Told(queue, k)
    BY ONLY <1>3, <1>5, Zenon
  <2>3. h[n] = Told(queue, k)'
    <3>1. h[n] = Told(queue', k)
      BY ONLY <1>3, <1>5, Zenon
    <3> QED BY ONLY <3>1, <1>10, k \in Keys, Zenon DEF Told
  <2> HIDE DEF h
  <2>4. After(us, k, h[0], h[Len(us)])
    BY ONLY <2>1, us \in Seq(Updates), AfterChain, Zenon DEF n
  <2> QED BY ONLY <2>2, <2>3, <2>4, Zenon DEF n
<1>12. ASSUME NEW k \in Keys, NEW T, Within(us, k, T), InTime(queue, k, T)
       PROVE  InTime(queue, k, T)'
  <2> DEFINE S == {i \in 0..n : InTime(a[i], k, T)}
  <2>1. 0 \in S
    BY ONLY <1>3, <1>5, <1>12, Zenon
  <2>2. ASSUME NEW i \in 1..n, i - 1 \in S PROVE i \in S
    <3>1. /\ QueueOK(a[i - 1], live) /\ InTime(a[i - 1], k, T) /\ us[i].key \in Keys /\ us[i].value \in Contents
          /\ us[i].key = k => us[i].value \in T
      BY ONLY <2>2, <1>4, <1>5, <1>6, <1>12, i \in 1..n, Zenon DEF Within, n
    <3>2. InTime(queueUpdate(a[i - 1], us[i].key, us[i].value), k, T)
      BY ONLY <3>1, <1>1, k \in Keys, QueueUpdateInTime, Zenon
    <3> QED BY ONLY <3>2, <1>3, <1>5, i \in 1..n, Zenon
  <2> HIDE DEF S
  <2>3. n \in S
    BY ONLY <2>1, <2>2, <1>4, <1>5, UpTo, Zenon
  <2>4. InTime(queue', k, T)
    BY ONLY <2>3, <1>3, Zenon DEF S
  <2> QED BY ONLY <2>4, <1>2, Zenon DEF InTime
<1> QED BY ONLY <1>9, <1>11, <1>12, Zenon

(* QueueStatus keeps the updates and the statuses where they are, and ends *)
(* the queue with a status.                                                *)
LEMMA StatusShape ==
  ASSUME NEW q \in Seq(Entries), NEW s \in Statuses, NEW n, n = QueueStatus(q, s)
  PROVE  /\ \A i \in DOMAIN q : /\ i \in DOMAIN n
                                /\ q[i].tag = "update" => n[i] = q[i]
                                /\ q[i].tag = "status" => n[i].tag = "status"
         /\ \A i \in DOMAIN n : n[i].tag = "update" => i \in DOMAIN q /\ n[i] = q[i]
         /\ \E j \in DOMAIN n : n[j].tag = "status" /\ \A i \in DOMAIN n : i = j \/ i < j
<1>1. StatusEntry(s) \in Entries /\ StatusEntry(s).tag = "status"
  BY DEF StatusEntry, Entries
<1>2. CASE q # <<>> /\ q[Len(q)].tag = "status"
  <2>1. n = [q EXCEPT ![Len(q)] = StatusEntry(s)]
    BY <1>2 DEF QueueStatus
  <2>2. DOMAIN n = DOMAIN q /\ \A i \in DOMAIN q : n[i] = IF i = Len(q) THEN StatusEntry(s) ELSE q[i]
    BY <2>1
  <2>3. Len(q) \in DOMAIN q /\ \A i \in DOMAIN q : i = Len(q) \/ i < Len(q)
    BY <1>2
  <2>4. /\ \A i \in DOMAIN q : /\ i \in DOMAIN n
                               /\ q[i].tag = "update" => n[i] = q[i]
                               /\ q[i].tag = "status" => n[i].tag = "status"
        /\ \A i \in DOMAIN n : n[i].tag = "update" => i \in DOMAIN q /\ n[i] = q[i]
    BY ONLY <1>1, <1>2, <2>2
  <2> QED BY ONLY <2>2, <2>3, <2>4, <1>1, Zenon
<1>3. CASE ~(q # <<>> /\ q[Len(q)].tag = "status")
  <2>1. n = Append(q, StatusEntry(s))
    BY <1>3 DEF QueueStatus
  <2>2. /\ \A i \in DOMAIN q : i \in DOMAIN n /\ n[i] = q[i]
        /\ \A i \in DOMAIN n : i \in DOMAIN q \/ i = Len(q) + 1
        /\ Len(q) + 1 \in DOMAIN n /\ n[Len(q) + 1] = StatusEntry(s)
        /\ \A i \in DOMAIN n : i = Len(q) + 1 \/ i < Len(q) + 1
    BY ONLY <2>1, <1>1, q \in Seq(Entries)
  <2>3. \A i \in DOMAIN n : n[i].tag = "update" => i \in DOMAIN q /\ n[i] = q[i]
    BY ONLY <2>2, <1>1
  <2>4. n[Len(q) + 1].tag = "status"
    BY ONLY <2>2, <1>1
  <2> QED BY ONLY <2>2, <2>3, <2>4, Zenon
<1> QED BY ONLY <1>2, <1>3, Zenon

(* A status changes no key, and comes after all that is queued.            *)
LEMMA StatusTold ==
  ASSUME NEW q, QueueOK(q, live), BatchOK, NEW s \in Statuses, NEW k \in Keys
  PROVE  /\ Told(QueueStatus(q, s), k) = Told(q, k)
         /\ \A T : InTime(q, k, T) \/ Told(q, k) \in T => InTime(QueueStatus(q, s), k, T)
<1> DEFINE n == QueueStatus(q, s)
<1>1. QueueOK(n, live)
  BY QueueStatusOK
<1>2. q \in Seq(Entries) /\ UniqueKeys(q) /\ UniqueKeys(n)
  BY ONLY <1>1, QueueOK(q, live), Zenon DEF QueueOK
<1>3. /\ \A i \in DOMAIN q : /\ i \in DOMAIN n
                             /\ q[i].tag = "update" => n[i] = q[i]
                             /\ q[i].tag = "status" => n[i].tag = "status"
      /\ \A i \in DOMAIN n : n[i].tag = "update" => i \in DOMAIN q /\ n[i] = q[i]
      /\ \E j \in DOMAIN n : n[j].tag = "status" /\ \A i \in DOMAIN n : i = j \/ i < j
  <2>1. n = QueueStatus(q, s)
    OBVIOUS
  <2> HIDE DEF n
  <2> QED BY ONLY <2>1, <1>2, s \in Statuses, StatusShape
<1> HIDE DEF n
<1>4. ASSUME Pending(q, k) PROVE Pending(n, k) /\ ValueIn(n, k) = ValueIn(q, k)
  <2>1. PICK i \in DOMAIN q : IsUpdateOf(q[i], k)
    BY ONLY <1>4, Zenon DEF Pending
  <2>2. i \in DOMAIN n /\ n[i] = q[i]
    BY ONLY <2>1, <1>3, Zenon DEF IsUpdateOf
  <2> QED BY ONLY <2>1, <2>2, <1>2, ValueIs, Zenon
<1>5. Pending(n, k) => Pending(q, k)
  BY ONLY <1>3, Zenon DEF Pending, IsUpdateOf
<1>6. Told(n, k) = Told(q, k)
  BY ONLY <1>4, <1>5, Zenon DEF Told
<1>7. ASSUME NEW T, InTime(q, k, T) PROVE InTime(n, k, T)
  <2>1. \A j \in DOMAIN q : q[j].tag = "status" => j \in DOMAIN n /\ n[j].tag = "status"
    BY ONLY <1>3, Zenon
  <2>2. \A i \in DOMAIN q : IsUpdateOf(q[i], k) => i \in DOMAIN n /\ IsUpdateOf(n[i], k)
    BY ONLY <1>3, Zenon DEF IsUpdateOf
  <2>3. CASE \E i, j \in DOMAIN q : i < j /\ IsUpdateOf(q[i], k) /\ q[j].tag = "status"
    BY ONLY <2>1, <2>2, <2>3, Zenon DEF InTime
  <2>4. CASE ~\E i, j \in DOMAIN q : i < j /\ IsUpdateOf(q[i], k) /\ q[j].tag = "status"
    <3>1. (\E j \in DOMAIN q : q[j].tag = "status") => \E j \in DOMAIN n : n[j].tag = "status"
      BY ONLY <2>1, Zenon
    <3> QED BY ONLY <3>1, <2>4, <1>7, Zenon DEF InTime
  <2> QED BY ONLY <2>3, <2>4, Zenon
<1>8. ASSUME NEW T, Told(q, k) \in T PROVE InTime(n, k, T)
  <2>1. PICK j \in DOMAIN n : n[j].tag = "status" /\ \A i \in DOMAIN n : i = j \/ i < j
    BY ONLY <1>3, Zenon
  <2>2. CASE Pending(q, k)
    <3>1. PICK i \in DOMAIN n : IsUpdateOf(n[i], k)
      BY ONLY <1>4, <2>2, Zenon DEF Pending
    <3>2. i # j
      BY ONLY <2>1, <3>1 DEF IsUpdateOf
    <3> QED BY ONLY <2>1, <3>1, <3>2, Zenon DEF InTime
  <2>3. CASE ~Pending(q, k) /\ Pending(batch, k)
    <3>1. PICK i \in DOMAIN batch : IsUpdateOf(batch[i], k)
      BY ONLY <2>3, Zenon DEF Pending
    <3>2. batch[i].value \in T
      BY ONLY <1>8, <2>3, <3>1, BatchOK, ValueIs, Zenon DEF BatchOK, Told, Base
    <3> QED BY ONLY <2>1, <3>1, <3>2, Zenon DEF InTime
  <2>4. CASE ~Pending(q, k) /\ ~Pending(batch, k)
    BY ONLY <1>8, <2>4, Zenon DEF InTime, Told, Base, Pending
  <2> QED BY ONLY <2>2, <2>3, <2>4, Zenon
<1> QED BY ONLY <1>6, <1>7, <1>8, Zenon DEF n

(* The deletions after a reconnection are of all the keys not seen.        *)
LEMMA DeletionsTold ==
  ASSUME NEW q, QueueOK(q, live), NEW ks \in SUBSET Keys, \A k \in ks : ~Pending(q, k),
         NEW ds \in Deletions(ks), NEW k \in Keys
  PROVE  Told(q \o ds, k) = IF k \in ks THEN Absent ELSE Told(q, k)
<1> DEFINE c == Cardinality(ks)
           n == q \o ds
<1>1. IsFiniteSet(ks) /\ c \in Nat
  BY DedupeAssumption, FS_Subset, FS_CardinalityType
<1>2. PICK f \in [1..c -> ks] :
        /\ \A i, j \in DOMAIN f : i # j => f[i] # f[j]
        /\ ds = [i \in DOMAIN f |-> UpdateEntry(f[i], Absent, "deleted")]
  BY DEF Deletions
<1>3. \A e \in ks : \E i \in 1..c : f[i] = e
  <2>1. IsFiniteSet(1..c) /\ Cardinality(1..c) = c
    BY ONLY <1>1, FS_Interval
  <2>2. f \in Injection(1..c, ks)
    BY ONLY <1>2, Zenon DEF Injection, IsInjective
  <2>3. f \in Surjection(1..c, ks)
    BY ONLY <1>1, <2>1, <2>2, FS_Injection, Zenon
  <2> QED BY ONLY <2>3, Zenon DEF Surjection
<1>4. QueueOK(n, live)
  BY DeletionsOK
<1> HIDE DEF c
<1>5. \A l \in Keys : /\ UpdateEntry(l, Absent, "deleted") \in Entries
                      /\ IsUpdateOf(UpdateEntry(l, Absent, "deleted"), l)
                      /\ \A m : IsUpdateOf(UpdateEntry(l, Absent, "deleted"), m) => m = l
                      /\ UpdateEntry(l, Absent, "deleted").value = Absent
  BY ONLY TRUE DEF UpdateEntry, Entries, Contents, IsUpdateOf
<1>6. \A i \in 1..c : f[i] \in ks /\ f[i] \in Keys
  BY <1>2
<1>7. ds \in Seq(Entries) /\ Len(ds) = c /\ \A i \in 1..c : ds[i] = UpdateEntry(f[i], Absent, "deleted")
  BY ONLY <1>1, <1>2, <1>5, <1>6
<1>8. q \in Seq(Entries) /\ UniqueKeys(q) /\ UniqueKeys(n)
  BY ONLY <1>4, QueueOK(q, live), Zenon DEF QueueOK
<1>9. /\ \A i \in DOMAIN q : i \in DOMAIN n /\ n[i] = q[i]
      /\ \A i \in 1..c : Len(q) + i \in DOMAIN n /\ n[Len(q) + i] = ds[i]
      /\ \A i \in DOMAIN n : (i \in DOMAIN q /\ n[i] = q[i]) \/ \E j \in 1..c : n[i] = ds[j]
  BY ONLY <1>1, <1>7, <1>8
<1> HIDE DEF n
<1>10. CASE k \in ks
  <2>1. PICK i \in 1..c : f[i] = k
    BY ONLY <1>3, <1>10, Zenon
  <2>2. IsUpdateOf(ds[i], k) /\ ds[i].value = Absent
    BY ONLY <2>1, <1>5, <1>7, k \in Keys, Zenon
  <2>3. Pending(n, k) /\ ValueIn(n, k) = Absent
    <3>1. PICK j \in DOMAIN n : n[j] = ds[i]
      BY ONLY <1>9, i \in 1..c, Zenon
    <3>2. IsUpdateOf(n[j], k) /\ n[j].value = Absent
      BY ONLY <2>2, <3>1, Zenon
    <3>3. UniqueKeys(n)
      BY ONLY <1>8, Zenon
    <3>4. Pending(n, k) /\ ValueIn(n, k) = n[j].value
      BY ONLY <3>2, <3>3, j \in DOMAIN n, ValueIs, Zenon
    <3> QED BY ONLY <3>2, <3>4
  <2> QED BY ONLY <2>3, <1>10, Zenon DEF Told, n
<1>11. CASE k \notin ks
  <2>1. ASSUME NEW i \in 1..c PROVE ~IsUpdateOf(ds[i], k)
    <3>1. f[i] \in Keys /\ f[i] # k /\ ds[i] = UpdateEntry(f[i], Absent, "deleted")
      BY ONLY <1>6, <1>7, <1>11, i \in 1..c, Zenon
    <3> QED BY ONLY <3>1 DEF UpdateEntry, IsUpdateOf
  <2>2. Pending(n, k) => Pending(q, k)
    BY ONLY <2>1, <1>9, Zenon DEF Pending
  <2>3. ASSUME Pending(q, k) PROVE Pending(n, k) /\ ValueIn(n, k) = ValueIn(q, k)
    <3>1. PICK i \in DOMAIN q : IsUpdateOf(q[i], k)
      BY ONLY <2>3, Zenon DEF Pending
    <3>2. i \in DOMAIN n /\ n[i] = q[i]
      BY ONLY <1>9, i \in DOMAIN q, Zenon
    <3>3. UniqueKeys(q) /\ UniqueKeys(n)
      BY ONLY <1>8, Zenon
    <3>4. Pending(n, k) /\ ValueIn(n, k) = n[i].value
      <4>1. IsUpdateOf(n[i], k)
        BY ONLY <3>1, <3>2
      <4> QED BY ONLY <4>1, <3>2, <3>3, ValueIs, Zenon
    <3>5. ValueIn(q, k) = q[i].value
      BY ONLY <3>1, <3>3, i \in DOMAIN q, ValueIs, Zenon
    <3> QED BY ONLY <3>2, <3>4, <3>5
  <2> QED BY ONLY <2>2, <2>3, <1>11, Zenon DEF Told, n
<1> QED BY ONLY <1>10, <1>11, Zenon

(* OnStatusUpdated changes nothing that the client has; an InSync comes    *)
(* after all of it.                                                        *)
LEMMA StatusHeld ==
  ASSUME LiveInv, unseen # {} => resyncing, NEW s \in Statuses, OnStatusUpdated(s)
  PROVE  /\ recent' = s
         /\ \/ s = "InSync" /\ unseen' = {} /\ resyncing' = FALSE
            \/ s # "InSync" /\ unseen' = unseen /\ resyncing' = resyncing
         /\ \A k \in Keys : Held(k)' = Held(k)
         /\ s = "InSync" /\ recent # "InSync" =>
              \A k \in Keys : \A T : Held(k) \in T => InTime(queue, k, T)'
         /\ ~(s = "InSync" /\ resyncing) =>
              \A k \in Keys : \A T : InTime(queue, k, T) => InTime(queue, k, T)'
<1>1. QueueOK(queue, live) /\ BatchOK /\ UnseenOK /\ DedupeTypeOK
  BY LiveInvParts
<1>2. recent' = s /\ live' = live /\ batch' = batch /\ view' = view
  BY DEF OnStatusUpdated, sink
<1>3. /\ \A k \in Keys : Base(k)' = Base(k)
      /\ \A k \in Keys : Told(queue, k)' = Told(queue', k)
      /\ \A k \in Keys : \A T : InTime(queue, k, T)' <=> InTime(queue', k, T)
  <2>1. \A k \in Keys : Base(k)' = Base(k)
    BY ONLY <1>2 DEF Base, Pending, ValueIn
  <2>2. \A k \in Keys : Told(queue, k)' = Told(queue', k)
    BY ONLY <2>1, Zenon DEF Told
  <2>3. \A k \in Keys : \A T : InTime(queue, k, T)' <=> InTime(queue', k, T)
    BY ONLY <1>2, Zenon DEF InTime
  <2> QED BY ONLY <2>1, <2>2, <2>3, Zenon
<1>4. CASE s = "InSync" /\ resyncing
  <2>1. unseen' = {} /\ resyncing' = FALSE
    BY <1>4 DEF OnStatusUpdated
  <2>2. {k \in unseen : ~Pending(queue, k)} = unseen /\ unseen \in SUBSET Keys /\ \A k \in unseen : ~Pending(queue, k)
    BY ONLY <1>1, Zenon DEF UnseenOK, DedupeTypeOK
  <2>3. PICK ds \in Deletions(unseen) :
          queue' = IF recent = s THEN Deleted(queue, unseen) \o ds
                   ELSE QueueStatus(Deleted(queue, unseen) \o ds, s)
    <3>1. PICK ds \in Deletions({k \in unseen : ~Pending(queue, k)}) :
            queue' = IF recent = s THEN Deleted(queue, unseen) \o ds
                     ELSE QueueStatus(Deleted(queue, unseen) \o ds, s)
      BY <1>4, Zenon DEF OnStatusUpdated
    <3> QED BY ONLY <2>2, <3>1, Zenon
  <2>4. Deleted(queue, unseen) = queue
    <3>1. \A i \in DOMAIN queue, k \in unseen : ~IsUpdateOf(queue[i], k)
      BY ONLY <2>2, Zenon DEF Pending
    <3>2. Deleted(queue, unseen) = [i \in DOMAIN queue |-> queue[i]]
      BY ONLY <3>1, Zenon DEF Deleted
    <3> QED BY ONLY <3>2, <1>1 DEF QueueOK
  <2> DEFINE q == queue \o ds
  <2>5. QueueOK(q, live)
    BY ONLY <1>1, <2>2, ds \in Deletions(unseen), DeletionsOK, Zenon
  <2>6. \A k \in Keys : Told(q, k) = Held(k)
    <3>1. \A k \in Keys : Told(q, k) = IF k \in unseen THEN Absent ELSE Told(queue, k)
      <4> SUFFICES ASSUME NEW k \in Keys PROVE Told(q, k) = IF k \in unseen THEN Absent ELSE Told(queue, k)
        OBVIOUS
      <4>1. Told(queue \o ds, k) = IF k \in unseen THEN Absent ELSE Told(queue, k)
        BY <1>1, <2>2, DeletionsTold
      <4> QED BY ONLY <4>1
    <3> QED BY ONLY <3>1, Zenon DEF Held
  <2>7. queue' = IF recent = s THEN q ELSE QueueStatus(q, s)
    BY ONLY <2>3, <2>4
  <2> HIDE DEF q
  <2>8. \A k \in Keys : Told(queue', k) = Held(k)
    <3>1. CASE recent = s
      BY ONLY <3>1, <2>6, <2>7, Zenon
    <3>2. CASE recent # s
      BY ONLY <3>2, <1>1, <2>5, <2>6, <2>7, s \in Statuses, StatusTold, Zenon
    <3> QED BY ONLY <3>1, <3>2, Zenon
  <2>9. \A k \in Keys : Held(k)' = Held(k)
    BY ONLY <2>1, <2>8, <1>3 DEF Held
  <2>10. ASSUME recent # "InSync", NEW k \in Keys, NEW T, Held(k) \in T PROVE InTime(queue, k, T)'
    <3>1. queue' = QueueStatus(q, s)
      BY ONLY <2>7, <2>10, <1>4, Zenon
    <3>2. Told(q, k) \in T
      BY ONLY <2>6, <2>10, Zenon
    <3>3. InTime(queue', k, T)
      BY ONLY <3>1, <3>2, <1>1, <2>5, s \in Statuses, k \in Keys, StatusTold, Zenon
    <3> QED BY ONLY <3>3, <1>3, k \in Keys, Zenon
  <2> QED BY ONLY <1>2, <1>4, <2>1, <2>9, <2>10, Zenon
<1>5. CASE ~(s = "InSync" /\ resyncing)
  <2>1. queue' = (IF recent = s THEN queue ELSE QueueStatus(queue, s)) /\ unseen' = unseen /\ resyncing' = resyncing
    BY <1>5 DEF OnStatusUpdated
  <2>2. s = "InSync" => unseen = {} /\ resyncing = FALSE
    <3>1. resyncing \in BOOLEAN
      BY ONLY <1>1 DEF DedupeTypeOK
    <3> QED BY <3>1, <1>5, Zenon
  <2>3. \A k \in Keys : Told(queue', k) = Told(queue, k)
    <3>1. CASE recent = s
      BY ONLY <3>1, <2>1, Zenon
    <3>2. CASE recent # s
      BY ONLY <3>2, <1>1, <2>1, s \in Statuses, StatusTold, Zenon
    <3> QED BY ONLY <3>1, <3>2, Zenon
  <2>4. \A k \in Keys : Held(k)' = Held(k)
    BY ONLY <2>1, <2>3, <1>3 DEF Held
  <2>5. ASSUME s = "InSync", recent # "InSync", NEW k \in Keys, NEW T, Held(k) \in T PROVE InTime(queue, k, T)'
    <3>1. queue' = QueueStatus(queue, s)
      BY ONLY <2>1, <2>5
    <3>2. Told(queue, k) \in T
      BY ONLY <2>2, <2>5 DEF Held
    <3>3. InTime(queue', k, T)
      BY ONLY <3>1, <3>2, <1>1, s \in Statuses, k \in Keys, StatusTold, Zenon
    <3> QED BY ONLY <3>3, <1>3, k \in Keys, Zenon
  <2>6. ASSUME NEW k \in Keys, NEW T, InTime(queue, k, T) PROVE InTime(queue, k, T)'
    <3>1. InTime(queue', k, T)
      <4>1. CASE recent = s
        BY ONLY <4>1, <2>1, <2>6, Zenon
      <4>2. CASE recent # s
        BY ONLY <4>2, <2>1, <2>6, <1>1, s \in Statuses, k \in Keys, StatusTold, Zenon
      <4> QED BY ONLY <4>1, <4>2, Zenon
    <3> QED BY ONLY <3>1, <1>3, k \in Keys, Zenon
  <2> QED BY ONLY <1>2, <2>1, <2>2, <2>4, <2>5, <2>6, Zenon
<1> QED BY ONLY <1>4, <1>5, Zenon

(* Taking a batch off the queue leaves what the client has where it is.    *)
LEMMA PullTold ==
  ASSUME LiveInv, PullNextBatch, NEW k \in Keys
  PROVE  /\ Told(queue, k)' = Told(queue, k)
         /\ \A T : Told(queue, k) \in T /\ InTime(queue, k, T) => InTime(queue, k, T)'
<1> DEFINE n == IF Len(queue) < BatchSize THEN Len(queue) ELSE BatchSize
<1>1. queue \in Seq(Entries) /\ n \in Nat /\ n \in 0..Len(queue) /\ batch = <<>> /\ view' = view
  BY LiveInvParts, DedupeAssumption DEF DedupeTypeOK, PullNextBatch
<1>2. Pulled(queue) = SubSeq(queue, 1, n)
  BY DEF Pulled
<1> HIDE DEF n
<1>3. /\ Pulled(queue) \in Seq(Entries) /\ Len(Pulled(queue)) = n
      /\ \A i \in 1..n : Pulled(queue)[i] = queue[i]
  BY ONLY <1>1, <1>2
<1>4. batch' = Pulled(queue) /\ queue' = SubSeq(queue, n + 1, Len(queue))
  BY <1>3 DEF PullNextBatch
<1>5. /\ \A i \in DOMAIN queue : i <= n => i \in DOMAIN batch' /\ batch'[i] = queue[i]
      /\ \A i \in DOMAIN queue : ~(i <= n) => i - n \in DOMAIN queue' /\ queue'[i - n] = queue[i]
      /\ \A i \in DOMAIN batch' : i \in DOMAIN queue /\ i <= n /\ batch'[i] = queue[i]
      /\ \A i \in DOMAIN queue' : i + n \in DOMAIN queue /\ ~(i + n <= n) /\ queue'[i] = queue[i + n]
      /\ \A i, j \in DOMAIN queue : i < j => i - n < j - n
      /\ \A i, j \in DOMAIN queue : i < j /\ j <= n => i <= n
      /\ DOMAIN batch = {}
  BY ONLY <1>1, <1>3, <1>4
<1>6. UniqueKeys(queue) /\ UniqueKeys(queue') /\ UniqueKeys(batch')
  BY PullNextBatchKeeps, LiveInvParts DEF QueueOK, BatchOK
<1>7. ~Pending(batch, k) /\ Base(k) = view[k]
  BY ONLY <1>5, Zenon DEF Pending, Base
<1>8. \A i \in DOMAIN queue : IsUpdateOf(queue[i], k) => Told(queue, k) = queue[i].value
  BY ONLY <1>6, ValueIs, Zenon DEF Told
<1>9. \A i, j \in DOMAIN queue : IsUpdateOf(queue[i], k) /\ IsUpdateOf(queue[j], k) => i = j
  BY ONLY <1>6, Zenon DEF UniqueKeys, IsUpdateOf
<1>10. Base(k)' = IF Pending(batch', k) THEN ValueIn(batch', k) ELSE view[k]
  BY ONLY <1>1 DEF Base, Pending, ValueIn
<1>11. Told(queue, k)' = IF Pending(queue', k) THEN ValueIn(queue', k)
                         ELSE IF Pending(batch', k) THEN ValueIn(batch', k) ELSE view[k]
  BY ONLY <1>10, Zenon DEF Told
<1>12. Told(queue, k)' = Told(queue, k)
  <2>1. CASE \E i \in DOMAIN queue : i <= n /\ IsUpdateOf(queue[i], k)
    <3>1. PICK i \in DOMAIN queue : i <= n /\ IsUpdateOf(queue[i], k)
      BY ONLY <2>1, Zenon
    <3>2. i \in DOMAIN batch' /\ IsUpdateOf(batch'[i], k) /\ batch'[i] = queue[i]
      BY ONLY <1>5, <3>1, Zenon
    <3>3. Pending(batch', k) /\ ValueIn(batch', k) = batch'[i].value
      BY ONLY <3>2, <1>6, ValueIs, Zenon
    <3>4. ~Pending(queue', k)
      BY ONLY <1>5, <1>9, <3>1, Zenon DEF Pending
    <3>5. Told(queue, k) = queue[i].value
      BY ONLY <1>8, <3>1, Zenon
    <3> QED BY ONLY <1>11, <3>2, <3>3, <3>4, <3>5
  <2>2. CASE \E i \in DOMAIN queue : ~(i <= n) /\ IsUpdateOf(queue[i], k)
    <3>1. PICK i \in DOMAIN queue : ~(i <= n) /\ IsUpdateOf(queue[i], k)
      BY ONLY <2>2, Zenon
    <3>2. i - n \in DOMAIN queue' /\ IsUpdateOf(queue'[i - n], k) /\ queue'[i - n] = queue[i]
      BY ONLY <1>5, <3>1, Zenon
    <3>3. Pending(queue', k) /\ ValueIn(queue', k) = queue'[i - n].value
      BY ONLY <3>2, <1>6, ValueIs, Zenon
    <3>4. Told(queue, k) = queue[i].value
      BY ONLY <1>8, <3>1, Zenon
    <3> QED BY ONLY <1>11, <3>2, <3>3, <3>4
  <2>3. CASE ~Pending(queue, k)
    <3>1. ~Pending(queue', k) /\ ~Pending(batch', k)
      BY ONLY <2>3, <1>5, Zenon DEF Pending
    <3> QED BY ONLY <3>1, <2>3, <1>7, <1>11 DEF Told
  <2> QED BY ONLY <2>1, <2>2, <2>3, Zenon DEF Pending
<1>13. ASSUME NEW T, Told(queue, k) \in T, InTime(queue, k, T) PROVE InTime(queue, k, T)'
  <2>1. \A i \in DOMAIN queue : IsUpdateOf(queue[i], k) => queue[i].value \in T
    BY ONLY <1>8, <1>13, Zenon
  <2>2. CASE view[k] \in T
    <3>1. view'[k] \in T /\ \A i \in DOMAIN batch' : IsUpdateOf(batch'[i], k) => batch'[i].value \in T
      BY ONLY <2>1, <2>2, <1>1, <1>5, Zenon
    <3> QED BY ONLY <3>1, Zenon DEF InTime
  <2>3. CASE \E i, j \in DOMAIN queue : i < j /\ IsUpdateOf(queue[i], k) /\ queue[j].tag = "status"
    <3>1. PICK i \in DOMAIN queue, j \in DOMAIN queue : i < j /\ IsUpdateOf(queue[i], k) /\ queue[j].tag = "status"
      BY ONLY <2>3, Zenon
    <3>2. CASE i <= n
      <4>1. i \in DOMAIN batch' /\ IsUpdateOf(batch'[i], k) /\ batch'[i].value \in T
        BY ONLY <3>1, <3>2, <2>1, <1>5, Zenon
      <4>2. \/ \E m \in DOMAIN batch' : i < m /\ batch'[m].tag = "status"
            \/ \E m \in DOMAIN queue' : queue'[m].tag = "status"
        BY ONLY <3>1, <1>5, Zenon
      <4> QED BY ONLY <4>1, <4>2, Zenon DEF InTime
    <3>3. CASE ~(i <= n)
      <4>1. ~(j <= n)
        BY ONLY <3>1, <3>3, <1>5, Zenon
      <4>2. /\ i - n \in DOMAIN queue' /\ IsUpdateOf(queue'[i - n], k)
            /\ j - n \in DOMAIN queue' /\ queue'[j - n].tag = "status" /\ i - n < j - n
        BY ONLY <3>1, <3>3, <4>1, <1>5, Zenon
      <4> QED BY ONLY <4>2, Zenon DEF InTime
    <3> QED BY ONLY <3>2, <3>3, Zenon
  <2> QED BY ONLY <1>5, <1>13, <2>2, <2>3, Zenon DEF InTime
<1> QED BY ONLY <1>12, <1>13, Zenon

(* So does the call to the sink.                                           *)
LEMMA SendTold ==
  ASSUME LiveInv, SendToSink, NEW k \in Keys
  PROVE  /\ Told(queue, k)' = Told(queue, k)
         /\ \A T : InTime(queue, k, T) => InTime(queue, k, T)'
<1> DEFINE e == Head(batch)
<1>1. /\ batch \in Seq(Entries) /\ batch # <<>> /\ e \in Entries /\ e = batch[1] /\ 1 \in DOMAIN batch
      /\ view \in [Keys -> Contents]
  BY LiveInvParts DEF SendToSink, DedupeTypeOK
<1>2. /\ \A i \in DOMAIN batch' : i + 1 \in DOMAIN batch /\ i + 1 # 1 /\ batch'[i] = batch[i + 1]
      /\ \A i \in DOMAIN batch : i # 1 => i - 1 \in DOMAIN batch' /\ batch'[i - 1] = batch[i]
      /\ \A i, j \in DOMAIN batch : i < j => i - 1 < j - 1 /\ j # 1
  <2>1. batch' = Tail(batch)
    BY DEF SendToSink
  <2> QED BY ONLY <2>1, <1>1
<1>3. \/ e.tag = "status" /\ view' = view
      \/ e.tag = "update" /\ view' = [view EXCEPT ![e.key] = e.value]
  BY DEF SendToSink
<1>4. queue' = queue
  BY DEF SendToSink, buffer
<1>5. UniqueKeys(batch) /\ UniqueKeys(batch')
  BY SendToSinkKeeps, LiveInvParts DEF BatchOK
<1> HIDE DEF e
<1>6. view'[k] = IF IsUpdateOf(e, k) THEN e.value ELSE view[k]
  BY ONLY <1>1, <1>3, k \in Keys DEF IsUpdateOf
<1>7. \A i, j \in DOMAIN batch : IsUpdateOf(batch[i], k) /\ IsUpdateOf(batch[j], k) => i = j
  BY ONLY <1>5, Zenon DEF UniqueKeys, IsUpdateOf
<1>8. IsUpdateOf(e, k) => \A i \in DOMAIN batch' : ~IsUpdateOf(batch'[i], k)
  BY ONLY <1>1, <1>2, <1>7, Zenon
<1>9. Base(k)' = Base(k)
  <2>1. CASE IsUpdateOf(e, k)
    <3>1. ~Pending(batch', k) /\ view'[k] = batch[1].value
      BY ONLY <2>1, <1>1, <1>6, <1>8, Zenon DEF Pending
    <3>2. Pending(batch, k) /\ ValueIn(batch, k) = batch[1].value
      BY ONLY <2>1, <1>1, <1>5, ValueIs, Zenon
    <3> QED BY ONLY <3>1, <3>2 DEF Base, Pending
  <2>2. CASE ~IsUpdateOf(e, k) /\ Pending(batch, k)
    <3>1. PICK i \in DOMAIN batch : IsUpdateOf(batch[i], k)
      BY ONLY <2>2, Zenon DEF Pending
    <3>2. i - 1 \in DOMAIN batch' /\ batch'[i - 1] = batch[i] /\ IsUpdateOf(batch'[i - 1], k)
      BY ONLY <2>2, <3>1, <1>1, <1>2, Zenon
    <3>3. Pending(batch', k) /\ ValueIn(batch', k) = batch'[i - 1].value
      BY ONLY <3>2, <1>5, ValueIs, Zenon
    <3>4. ValueIn(batch, k) = batch[i].value
      BY ONLY <3>1, <1>5, ValueIs, Zenon
    <3> QED BY ONLY <3>2, <3>3, <3>4, <2>2 DEF Base, Pending, ValueIn
  <2>3. CASE ~IsUpdateOf(e, k) /\ ~Pending(batch, k)
    <3>1. ~Pending(batch', k)
      BY ONLY <2>3, <1>2, Zenon DEF Pending
    <3>2. view'[k] = view[k]
      BY ONLY <2>3, <1>6
    <3> QED BY ONLY <3>1, <3>2, <2>3 DEF Base, Pending
  <2> QED BY ONLY <2>1, <2>2, <2>3, Zenon
<1>10. Told(queue, k)' = Told(queue, k)
  BY ONLY <1>4, <1>9 DEF Told, Pending, ValueIn
<1>11. ASSUME NEW T, InTime(queue, k, T) PROVE InTime(queue, k, T)'
  <2>1. CASE view[k] \in T /\ \A i \in DOMAIN batch : IsUpdateOf(batch[i], k) => batch[i].value \in T
    <3>1. view'[k] \in T
      BY ONLY <2>1, <1>1, <1>6
    <3>2. \A i \in DOMAIN batch' : IsUpdateOf(batch'[i], k) => batch'[i].value \in T
      BY ONLY <2>1, <1>2, Zenon
    <3> QED BY ONLY <3>1, <3>2, Zenon DEF InTime
  <2>2. CASE \E i \in DOMAIN batch :
               /\ IsUpdateOf(batch[i], k) /\ batch[i].value \in T
               /\ \/ \E j \in DOMAIN batch : i < j /\ batch[j].tag = "status"
                  \/ \E j \in DOMAIN queue : queue[j].tag = "status"
    <3>1. PICK i \in DOMAIN batch :
               /\ IsUpdateOf(batch[i], k) /\ batch[i].value \in T
               /\ \/ \E j \in DOMAIN batch : i < j /\ batch[j].tag = "status"
                  \/ \E j \in DOMAIN queue : queue[j].tag = "status"
      BY ONLY <2>2, Zenon
    <3>2. CASE i = 1
      <4>1. IsUpdateOf(e, k) /\ e.value \in T
        BY ONLY <3>1, <3>2, <1>1
      <4>2. view'[k] \in T
        BY ONLY <4>1, <1>6
      <4> QED BY ONLY <4>1, <4>2, <1>8, Zenon DEF InTime
    <3>3. CASE i # 1
      <4>1. i - 1 \in DOMAIN batch' /\ IsUpdateOf(batch'[i - 1], k) /\ batch'[i - 1].value \in T
        BY ONLY <3>1, <3>3, <1>2, Zenon
      <4>2. \/ \E j \in DOMAIN batch' : i - 1 < j /\ batch'[j].tag = "status"
            \/ \E j \in DOMAIN queue' : queue'[j].tag = "status"
        BY ONLY <3>1, <1>2, <1>4, Zenon
      <4> QED BY ONLY <4>1, <4>2, Zenon DEF InTime
    <3> QED BY ONLY <3>2, <3>3, Zenon
  <2>3. CASE \E i, j \in DOMAIN queue : i < j /\ IsUpdateOf(queue[i], k) /\ queue[j].tag = "status"
    BY ONLY <2>3, <1>4, Zenon DEF InTime
  <2> QED BY ONLY <1>11, <2>1, <2>2, <2>3, Zenon DEF InTime
<1> QED BY ONLY <1>10, <1>11, Zenon

-----------------------------------------------------------------------------
(* The cache and its trail.                                                *)

(* The deltas of a crumb lead from the crumb before it to this one.        *)
Linked(cs) ==
  \A i \in 2..Len(cs) : \A k \in Keys : After(cs[i].deltas, k, cs[i - 1].kvs[k], cs[i].kvs[k])

CacheTypeOK ==
  /\ inputC \in Seq(Calls) /\ pendingStatus \in Statuses /\ pendingUpdates \in Seq(Updates)
  /\ kvs \in [Keys -> Contents] /\ crumbs \in Seq(Crumbs) /\ crumbs # <<>>
  /\ current \in 1..Len(crumbs) /\ active \in 0..Len(crumbs)
  /\ src \in [Keys -> Contents] /\ unsent \subseteq Keys /\ said \in Statuses

TrailEnd ==
  /\ kvs = crumbs[Len(crumbs)].kvs
  /\ publishing = "fill" => pendingUpdates = <<>>
  /\ publishing # "linked" => current = Len(crumbs)

CacheInv == CacheTypeOK /\ TrailEnd /\ Linked(crumbs)

(* The invariant of the next state.                                        *)
LEMMA CacheInvNext == CacheInv' <=> CacheTypeOK' /\ TrailEnd' /\ Linked(crumbs')
BY Zenon DEF CacheInv, Linked, After, To

(* What publishBreadcrumb does with the pending updates.                   *)
LEMMA PublishShape ==
  ASSUME CacheInv, Typha!PublishBreadcrumb
  PROVE  \E us \in Seq(Updates), ds \in Seq(Updates), st \in Statuses :
           /\ pendingUpdates' \in Seq(Updates) /\ kvs' \in [Keys -> Contents]
           /\ \A k \in Keys : /\ After(ds, k, kvs[k], kvs'[k]) /\ After(us, k, kvs[k], kvs'[k])
                              /\ \A T : Within(us, k, T) => Within(ds, k, T)
           /\ \A k : Has(pendingUpdates, k) => Has(us, k) \/ Has(pendingUpdates', k)
           /\ \A k, T : Within(pendingUpdates, k, T) => Within(us, k, T) /\ Within(pendingUpdates', k, T)
           /\ (st = pendingStatus /\ pendingUpdates' = <<>>) \/ st = crumbs[current].status
           /\ \/ crumbs' = Append(crumbs, Typha!Crumb(kvs', ds, st)) /\ publishing' = "linked"
              \/ /\ crumbs' = crumbs /\ ds = <<>> /\ kvs' = kvs
                 /\ publishing' = Typha!AfterCrumb(pendingUpdates')
<1> DEFINE pu == pendingUpdates
           last == Len(pu) <= MaxBatchSize
           us == IF last THEN pu ELSE SubSeq(pu, 1, MaxBatchSize)
           rest == IF last THEN <<>> ELSE SubSeq(pu, MaxBatchSize + 1, Len(pu))
           old == crumbs[current].status
           st == IF last THEN pendingStatus ELSE old
           new == Typha!Loop(Typha!Apply, [kvs |-> kvs, deltas |-> <<>>], us)
<1>1. /\ pu \in Seq(Updates) /\ kvs \in [Keys -> Contents] /\ pendingStatus \in Statuses
      /\ crumbs \in Seq(Crumbs) /\ current \in 1..Len(crumbs)
  BY DEF CacheInv, CacheTypeOK
<1>2. /\ pendingUpdates' = rest
      /\ kvs' = new.kvs
      /\ \/ crumbs' = Append(crumbs, Typha!Crumb(new.kvs, new.deltas, st)) /\ publishing' = "linked"
         \/ new.deltas = <<>> /\ crumbs' = crumbs /\ publishing' = Typha!AfterCrumb(rest)
  BY ONLY Typha!PublishBreadcrumb, Zenon DEF Typha!PublishBreadcrumb
<1> HIDE DEF new
<1>3. MaxBatchSize \in Nat \ {0}
  BY TyphaAssumption
<1>4. /\ us \in Seq(Updates) /\ rest \in Seq(Updates)
      /\ \A i \in 1..Len(us) : i \in 1..Len(pu) /\ us[i] = pu[i]
      /\ \A i \in 1..Len(rest) : \E j \in 1..Len(pu) : rest[i] = pu[j]
      /\ \A i \in 1..Len(pu) : \/ i \in 1..Len(us) /\ us[i] = pu[i]
                               \/ \E j \in 1..Len(rest) : rest[j] = pu[i]
  <2>1. CASE last
    BY ONLY <2>1, <1>1
  <2>2. CASE ~last
    <3> DEFINE M == MaxBatchSize
    <3>1. /\ us = SubSeq(pu, 1, M) /\ rest = SubSeq(pu, M + 1, Len(pu))
          /\ Len(pu) \in Nat /\ M \in Nat /\ M < Len(pu)
      BY ONLY <2>2, <1>1, <1>3
    <3> HIDE DEF us, rest, M
    <3>2. /\ us \in Seq(Updates) /\ Len(us) = M /\ \A i \in 1..M : us[i] = pu[i]
          /\ rest \in Seq(Updates) /\ Len(rest) = Len(pu) - M
          /\ \A i \in 1..(Len(pu) - M) : rest[i] = pu[M + i] /\ M + i \in 1..Len(pu)
      BY ONLY <3>1, <1>1
    <3>3. \A i \in 1..Len(pu) : i \in 1..M \/ (i - M \in 1..(Len(pu) - M) /\ M + (i - M) = i)
      BY ONLY <3>1
    <3>4. \A i \in 1..M : i \in 1..Len(pu)
      BY ONLY <3>1
    <3>5. \A i \in 1..Len(rest) : \E j \in 1..Len(pu) : rest[i] = pu[j]
      BY ONLY <3>2, Zenon
    <3>6. ASSUME NEW i \in 1..Len(pu)
          PROVE  \/ i \in 1..Len(us) /\ us[i] = pu[i]
                 \/ \E j \in 1..Len(rest) : rest[j] = pu[i]
      BY ONLY <3>2, <3>3, i \in 1..Len(pu)
    <3> QED BY ONLY <3>2, <3>4, <3>5, <3>6
  <2> QED BY ONLY <2>1, <2>2
<1>5. st \in Statuses /\ ((st = pendingStatus /\ rest = <<>>) \/ st = old)
  <2>1. crumbs[current] \in Crumbs
    BY ONLY <1>1
  <2>2. \A c \in Crumbs : c.status \in Statuses
    BY ONLY TRUE DEF Crumbs
  <2>3. old \in Statuses
    BY ONLY <2>1, <2>2, Zenon
  <2> QED BY ONLY <2>3, <1>1
<1> HIDE DEF us, rest, st, last
<1>6. /\ new.kvs \in [Keys -> Contents] /\ new.deltas \in Seq(Updates)
      /\ \A k \in Keys : /\ After(new.deltas, k, kvs[k], new.kvs[k])
                         /\ After(us, k, kvs[k], new.kvs[k])
                         /\ \A T : Within(us, k, T) => Within(new.deltas, k, T)
  <2>1. new = Applied(kvs, us)
    BY DEF new, Applied
  <2>2. kvs \in [Keys -> Contents] /\ us \in Seq(Updates)
    BY ONLY <1>1, <1>4, Zenon
  <2> HIDE DEF us
  <2> QED BY ONLY <2>1, <2>2, ApplyOK, Zenon
<1>7. \A k : Has(pu, k) => Has(us, k) \/ Has(rest, k)
  BY ONLY <1>4, Zenon DEF Has
<1>8. \A k, T : Within(pu, k, T) => Within(us, k, T) /\ Within(rest, k, T)
  BY ONLY <1>4, Zenon DEF Within
<1>9. new.deltas = <<>> => kvs' = kvs
  <2> SUFFICES ASSUME new.deltas = <<>> PROVE kvs' = kvs
    OBVIOUS
  <2>1. \A k : ~Has(<<>>, k)
    BY ONLY TRUE DEF Has
  <2>2. <<>> \in Seq(Updates)
    OBVIOUS
  <2>3. ASSUME NEW k \in Keys PROVE new.kvs[k] = kvs[k]
    <3>1. After(<<>>, k, kvs[k], new.kvs[k])
      BY <1>6
    <3>2. After(<<>>, k, kvs[k], new.kvs[k]) <=> kvs[k] = new.kvs[k]
      <4>1. Len(<<>>) = 0 /\ ~\E j \in 1..0 : TRUE
        BY ONLY TRUE
      <4> QED BY ONLY <4>1, Zenon DEF After, To
    <3> QED BY ONLY <3>1, <3>2
  <2> QED BY <1>1, <1>2, <1>6, <2>3
<1>10. \/ crumbs' = Append(crumbs, Typha!Crumb(kvs', new.deltas, st)) /\ publishing' = "linked"
       \/ /\ crumbs' = crumbs /\ new.deltas = <<>> /\ kvs' = kvs
          /\ publishing' = Typha!AfterCrumb(pendingUpdates')
  BY ONLY <1>2, <1>9
<1>11. /\ pendingUpdates' \in Seq(Updates) /\ kvs' \in [Keys -> Contents]
       /\ \A k \in Keys : /\ After(new.deltas, k, kvs[k], kvs'[k]) /\ After(us, k, kvs[k], kvs'[k])
                          /\ \A T : Within(us, k, T) => Within(new.deltas, k, T)
       /\ \A k : Has(pu, k) => Has(us, k) \/ Has(pendingUpdates', k)
       /\ \A k, T : Within(pu, k, T) => Within(us, k, T) /\ Within(pendingUpdates', k, T)
       /\ (st = pendingStatus /\ pendingUpdates' = <<>>) \/ st = old
  BY ONLY <1>2, <1>4, <1>5, <1>6, <1>7, <1>8
<1> QED BY ONLY <1>4, <1>5, <1>6, <1>10, <1>11, Zenon

(* Steps that leave the trail alone keep the invariant.                    *)
LEMMA CallsKeepCache ==
  ASSUME CacheInv, UNCHANGED <<pendingStatus, pendingUpdates, kvs, crumbs, current, publishing>>,
         inputC' \in Seq(Calls), active' \in 0..Len(crumbs),
         src' \in [Keys -> Contents], unsent' \subseteq Keys, said' \in Statuses
  PROVE  CacheInv'
<1>1. CacheTypeOK'
  BY DEF CacheInv, CacheTypeOK
<1>2. TrailEnd'
  BY DEF CacheInv, TrailEnd
<1>3. Linked(crumbs')
  BY DEF CacheInv
<1> QED BY ONLY <1>1, <1>2, <1>3, CacheInvNext, Zenon

(* The batch that fillBatchFromInputQueue has read.                        *)
LEMMA FillKeepsCache ==
  ASSUME CacheInv, Typha!FillBatch, UNCHANGED <<active, src, unsent, said>>
  PROVE  CacheInv'
<1>1. /\ inputC \in Seq(Calls) /\ pendingStatus \in Statuses
      /\ UNCHANGED <<kvs, crumbs, current>> /\ publishing = "fill" /\ publishing' = "publish"
  BY DEF CacheInv, CacheTypeOK, Typha!FillBatch
<1>2. PICK n \in 1..Len(inputC) :
        /\ pendingStatus' = Typha!StatusIn(SubSeq(inputC, 1, n))
        /\ pendingUpdates' = Typha!UpdatesIn(SubSeq(inputC, 1, n))
        /\ inputC' = SubSeq(inputC, n + 1, Len(inputC))
  BY ONLY Typha!FillBatch, Zenon DEF Typha!FillBatch
<1>3. SubSeq(inputC, 1, n) \in Seq(Calls) /\ SubSeq(inputC, n + 1, Len(inputC)) \in Seq(Calls)
  BY ONLY <1>1, n \in 1..Len(inputC)
<1>4. Typha!StatusIn(SubSeq(inputC, 1, n)) \in Statuses
  BY ONLY <1>1, <1>3, StatusInOK, Zenon
<1>5. Typha!UpdatesIn(SubSeq(inputC, 1, n)) \in Seq(Updates)
  BY ONLY <1>3, UpdatesInOK, Zenon
<1>6. CacheTypeOK'
  <2>1. inputC' \in Seq(Calls) /\ pendingStatus' \in Statuses /\ pendingUpdates' \in Seq(Updates)
    BY ONLY <1>2, <1>3, <1>4, <1>5
  <2> QED BY <1>1, <2>1 DEF CacheInv, CacheTypeOK
<1>7. TrailEnd'
  BY <1>1 DEF CacheInv, TrailEnd
<1>8. Linked(crumbs')
  BY <1>1 DEF CacheInv
<1> QED BY ONLY <1>6, <1>7, <1>8, CacheInvNext, Zenon

(* The crumb that is published follows from the one before it.             *)
LEMMA PublishKeepsCache ==
  ASSUME CacheInv, Typha!PublishBreadcrumb, UNCHANGED <<active, src, unsent, said>>
  PROVE  CacheInv'
<1>1. PICK us \in Seq(Updates), ds \in Seq(Updates), st \in Statuses :
           /\ pendingUpdates' \in Seq(Updates) /\ kvs' \in [Keys -> Contents]
           /\ \A k \in Keys : /\ After(ds, k, kvs[k], kvs'[k]) /\ After(us, k, kvs[k], kvs'[k])
                              /\ \A T : Within(us, k, T) => Within(ds, k, T)
           /\ \/ crumbs' = Append(crumbs, Typha!Crumb(kvs', ds, st)) /\ publishing' = "linked"
              \/ /\ crumbs' = crumbs /\ ds = <<>> /\ kvs' = kvs
                 /\ publishing' = Typha!AfterCrumb(pendingUpdates')
  BY PublishShape, Zenon
<1>2. UNCHANGED <<inputC, pendingStatus, current>> /\ publishing = "publish"
  BY DEF Typha!PublishBreadcrumb
<1>3. /\ crumbs \in Seq(Crumbs) /\ crumbs # <<>> /\ kvs = crumbs[Len(crumbs)].kvs /\ Linked(crumbs)
      /\ current = Len(crumbs) /\ current \in 1..Len(crumbs) /\ active \in 0..Len(crumbs)
  BY <1>2 DEF CacheInv, CacheTypeOK, TrailEnd
<1>4. CASE crumbs' = Append(crumbs, Typha!Crumb(kvs', ds, st)) /\ publishing' = "linked"
  <2> DEFINE c == Typha!Crumb(kvs', ds, st)
             L == Len(crumbs)
  <2>1. c \in Crumbs /\ c.kvs = kvs' /\ c.deltas = ds
    BY ONLY <1>1 DEF Crumbs, Typha!Crumb
  <2> HIDE DEF c
  <2>2. /\ L \in Nat \ {0} /\ crumbs' \in Seq(Crumbs) /\ crumbs' # <<>> /\ Len(crumbs') = L + 1
        /\ crumbs'[L + 1] = c /\ \A i \in 1..L : crumbs'[i] = crumbs[i]
    <3>1. crumbs' = Append(crumbs, c)
      BY ONLY <1>4 DEF c
    <3> QED BY ONLY <3>1, <1>3, <2>1
  <2>3. Linked(crumbs')
    <3> SUFFICES ASSUME NEW i \in 2..Len(crumbs'), NEW k \in Keys
                 PROVE  After(crumbs'[i].deltas, k, crumbs'[i - 1].kvs[k], crumbs'[i].kvs[k])
      BY Zenon DEF Linked
    <3>1. CASE i = L + 1
      <4>1. i - 1 = L /\ L \in 1..L
        BY ONLY <3>1, <2>2
      <4>2. crumbs'[i - 1].kvs = kvs /\ crumbs'[i].deltas = ds /\ crumbs'[i].kvs = kvs'
        BY ONLY <3>1, <4>1, <2>1, <2>2, <1>3
      <4>3. After(ds, k, kvs[k], kvs'[k])
        BY ONLY <1>1, k \in Keys, Zenon
      <4> QED BY ONLY <4>2, <4>3
    <3>2. CASE i # L + 1
      <4>1. i \in 2..L /\ crumbs'[i] = crumbs[i] /\ crumbs'[i - 1] = crumbs[i - 1]
        BY ONLY <3>2, <2>2, i \in 2..Len(crumbs')
      <4>2. After(crumbs[i].deltas, k, crumbs[i - 1].kvs[k], crumbs[i].kvs[k])
        BY ONLY <4>1, <1>3, k \in Keys, Zenon DEF Linked
      <4> QED BY ONLY <4>1, <4>2
    <3> QED BY ONLY <3>1, <3>2
  <2>4. TrailEnd'
    <3>1. kvs' = crumbs'[Len(crumbs')].kvs
      BY ONLY <2>1, <2>2
    <3> QED BY ONLY <3>1, <1>4 DEF TrailEnd
  <2>5. CacheTypeOK'
    <3>1. current' \in 1..Len(crumbs') /\ active' \in 0..Len(crumbs')
      BY <1>2, <1>3, <2>2
    <3>2. src' \in [Keys -> Contents] /\ unsent' \subseteq Keys /\ said' \in Statuses /\ inputC' \in Seq(Calls) /\ pendingStatus' \in Statuses
      BY <1>2 DEF CacheInv, CacheTypeOK
    <3> QED BY ONLY <3>1, <3>2, <1>1, <2>2, Zenon DEF CacheTypeOK
  <2> QED BY ONLY <2>3, <2>4, <2>5, CacheInvNext, Zenon
<1>5. CASE crumbs' = crumbs /\ kvs' = kvs /\ publishing' = Typha!AfterCrumb(pendingUpdates')
  <2>1. CacheTypeOK'
    BY <1>1, <1>2, <1>5 DEF CacheInv, CacheTypeOK
  <2>2. TrailEnd'
    <3>1. publishing' = "fill" => pendingUpdates' = <<>>
      BY ONLY <1>5 DEF Typha!AfterCrumb
    <3> QED BY ONLY <3>1, <1>2, <1>3, <1>5 DEF TrailEnd
  <2>3. Linked(crumbs')
    BY ONLY <1>3, <1>5
  <2> QED BY ONLY <2>1, <2>2, <2>3, CacheInvNext, Zenon
<1> QED BY ONLY <1>1, <1>4, <1>5, Zenon

(* So do the other steps of the cache, and a restart.                      *)
LEMMA CacheStepKeepsCache ==
  ASSUME CacheInv, CacheStep
  PROVE  CacheInv'
<1>1. UNCHANGED <<active, src, unsent, said>>
  BY DEF CacheStep, upstream, link
<1>2. CASE Typha!FillBatch
  BY <1>1, <1>2, FillKeepsCache
<1>3. CASE Typha!PublishBreadcrumb
  BY <1>1, <1>3, PublishKeepsCache
<1>4. CASE Typha!MakeCurrent
  <2>1. CacheTypeOK'
    BY <1>1, <1>4 DEF CacheInv, CacheTypeOK, Typha!MakeCurrent
  <2>2. TrailEnd' /\ Linked(crumbs')
    BY <1>4 DEF CacheInv, TrailEnd, Typha!MakeCurrent
  <2> QED BY ONLY <2>1, <2>2, CacheInvNext, Zenon
<1>5. CASE Typha!Broadcast
  <2>1. CacheTypeOK'
    BY <1>1, <1>5 DEF CacheInv, CacheTypeOK, Typha!Broadcast
  <2>2. TrailEnd' /\ Linked(crumbs')
    BY <1>5 DEF CacheInv, TrailEnd, Typha!Broadcast, Typha!AfterCrumb
  <2> QED BY ONLY <2>1, <2>2, CacheInvNext, Zenon
<1> QED BY <1>2, <1>3, <1>4, <1>5 DEF CacheStep, Typha!Cache

(* An empty cache.                                                         *)
LEMMA EmptyCache ==
  /\ Typha!Nothing \in [Keys -> Contents]
  /\ \A k \in Keys : Typha!Nothing[k] = Absent
  /\ <<Typha!Crumb(Typha!Nothing, <<>>, "WaitForDatastore")>> \in Seq(Crumbs)
  /\ Len(<<Typha!Crumb(Typha!Nothing, <<>>, "WaitForDatastore")>>) = 1
  /\ <<Typha!Crumb(Typha!Nothing, <<>>, "WaitForDatastore")>>[1] =
       [kvs |-> Typha!Nothing, deltas |-> <<>>, status |-> "WaitForDatastore"]
  /\ Linked(<<Typha!Crumb(Typha!Nothing, <<>>, "WaitForDatastore")>>)
<1>1. Typha!Nothing \in [Keys -> Contents] /\ \A k \in Keys : Typha!Nothing[k] = Absent
  BY DEF Typha!Nothing, Contents
<1>2. Typha!Crumb(Typha!Nothing, <<>>, "WaitForDatastore") \in Crumbs
  BY ONLY <1>1 DEF Typha!Crumb, Crumbs, Statuses
<1>3. Linked(<<Typha!Crumb(Typha!Nothing, <<>>, "WaitForDatastore")>>)
  <2>1. ~\E i \in 2..Len(<<Typha!Crumb(Typha!Nothing, <<>>, "WaitForDatastore")>>) : TRUE
    OBVIOUS
  <2> QED BY ONLY <2>1, Zenon DEF Linked
<1>4. Typha!Crumb(Typha!Nothing, <<>>, "WaitForDatastore") =
        [kvs |-> Typha!Nothing, deltas |-> <<>>, status |-> "WaitForDatastore"]
  BY DEF Typha!Crumb
<1> QED BY <1>1, <1>2, <1>3, <1>4

(* It starts empty, and is empty again when Typha restarts.                *)
LEMMA RestartKeepsCache ==
  ASSUME CacheInv, TyphaRestart
  PROVE  CacheInv'
<1>1. /\ inputC' = <<>> /\ pendingStatus' = "WaitForDatastore" /\ pendingUpdates' = <<>>
      /\ kvs' = Typha!Nothing
      /\ crumbs' = <<Typha!Crumb(Typha!Nothing, <<>>, "WaitForDatastore")>> /\ current' = 1
      /\ active' = 0 /\ src' = src /\ unsent' = Present(src) /\ said' = "WaitForDatastore"
  BY DEF TyphaRestart
<1>2. src \in [Keys -> Contents] /\ Present(src) \subseteq Keys
  BY DEF CacheInv, CacheTypeOK, Present
<1> DEFINE cs == <<Typha!Crumb(Typha!Nothing, <<>>, "WaitForDatastore")>>
<1>3. /\ cs \in Seq(Crumbs) /\ Len(cs) = 1 /\ cs[1].kvs = Typha!Nothing /\ Linked(cs) /\ cs # <<>>
      /\ Typha!Nothing \in [Keys -> Contents]
  BY EmptyCache
<1> HIDE DEF cs
<1>4. crumbs' = cs
  BY ONLY <1>1 DEF cs
<1>5. CacheTypeOK'
  BY ONLY <1>1, <1>2, <1>3, <1>4 DEF CacheTypeOK, Statuses
<1>6. TrailEnd'
  BY ONLY <1>1, <1>3, <1>4 DEF TrailEnd
<1>7. Linked(crumbs')
  BY ONLY <1>3, <1>4
<1> QED BY ONLY <1>5, <1>6, <1>7, CacheInvNext, Zenon

(* What the syncer calls the cache with.                                   *)
LEMMA CallsTyped ==
  /\ \A s \in Statuses : Typha!StatusCall(s) \in Calls
  /\ \A us \in Seq(Updates) : Typha!UpdatesCall(us) \in Calls
BY DEF Typha!StatusCall, Typha!UpdatesCall, Calls

(* The listed keys that are still to be passed on.                         *)
LEMMA ListedTyped ==
  ASSUME CacheTypeOK
  PROVE  [k \in Keys |-> IF k \in unsent THEN src[k] ELSE Absent] \in [Keys -> Contents]
BY DEF CacheTypeOK, Contents

(* The update of a change.                                                 *)
LEMMA ChangeTyped ==
  ASSUME CacheInv, NEW k \in Keys, NEW v \in Values \cup {Absent}, Change(k, v)
  PROVE  /\ src' \in [Keys -> Contents] /\ unsent' \subseteq Keys
         /\ \/ inputC' = inputC
            \/ \E t \in {"new", "updated", "deleted"} :
                 /\ inputC' = Append(inputC, Typha!UpdatesCall(<<Typha!Update(k, v, t)>>))
                 /\ <<Typha!Update(k, v, t)>> \in Seq(Updates)
<1>1. src \in [Keys -> Contents] /\ unsent \subseteq Keys
  BY DEF CacheInv, CacheTypeOK
<1>2. src' \in [Keys -> Contents]
  BY <1>1 DEF Change, Contents
<1>3. unsent' \subseteq Keys
  BY <1>1 DEF Change, Present
<1>4. ASSUME NEW t \in {"new", "updated", "deleted"} PROVE <<Typha!Update(k, v, t)>> \in Seq(Updates)
  BY DEF Typha!Update, Updates, Contents
<1> DEFINE known == src[k] # Absent /\ k \notin unsent
           type == IF v = Absent THEN "deleted" ELSE IF known THEN "updated" ELSE "new"
<1>5. type \in {"new", "updated", "deleted"}
  OBVIOUS
<1>6. inputC' = inputC \/ inputC' = Append(inputC, Typha!UpdatesCall(<<Typha!Update(k, v, type)>>))
  BY DEF Change, CallCache
<1> HIDE DEF type
<1> QED BY ONLY <1>2, <1>3, <1>4, <1>5, <1>6, Zenon

(* Every step keeps the invariant of the cache.                            *)
LEMMA CacheInvStep ==
  ASSUME CacheInv, [Next]_vars
  PROVE  CacheInv'
<1>0. /\ inputC \in Seq(Calls) /\ active \in 0..Len(crumbs) /\ src \in [Keys -> Contents]
      /\ unsent \subseteq Keys /\ said \in Statuses /\ current \in 1..Len(crumbs) /\ CacheTypeOK
  BY DEF CacheInv, CacheTypeOK
<1>1. CASE UNCHANGED <<cacheVars, src, unsent, said>> /\ active' \in 0..Len(crumbs)
  BY <1>0, <1>1, CallsKeepCache DEF cacheVars
<1>2. CASE UNCHANGED vars
  BY <1>0, <1>1, <1>2 DEF vars, cacheVars
<1>3. ASSUME NEW k \in Keys, NEW v \in Values \cup {Absent}, Change(k, v) PROVE CacheInv'
  <2>1. UNCHANGED <<pendingStatus, pendingUpdates, kvs, crumbs, current, publishing, active, said>>
    BY <1>3 DEF Change, restOfCache, link
  <2>2. src' \in [Keys -> Contents] /\ unsent' \subseteq Keys
    BY <1>3, ChangeTyped, Zenon
  <2>3. inputC' \in Seq(Calls)
    <3>1. CASE inputC' = inputC
      BY ONLY <1>0, <3>1
    <3>2. ASSUME NEW t, inputC' = Append(inputC, Typha!UpdatesCall(<<Typha!Update(k, v, t)>>)),
                 <<Typha!Update(k, v, t)>> \in Seq(Updates)
          PROVE  inputC' \in Seq(Calls)
      <4> DEFINE c == Typha!UpdatesCall(<<Typha!Update(k, v, t)>>)
      <4>1. c \in Calls
        BY ONLY <3>2, CallsTyped, Zenon
      <4>2. inputC' = Append(inputC, c)
        BY ONLY <3>2
      <4> HIDE DEF c
      <4> QED BY ONLY <4>1, <4>2, <1>0
    <3> QED BY <1>3, <3>1, <3>2, ChangeTyped, Zenon
  <2> QED BY <1>0, <2>1, <2>2, <2>3, CallsKeepCache
<1>4. CASE SendListed
  <2>1. UNCHANGED <<pendingStatus, pendingUpdates, kvs, crumbs, current, publishing, active, said, src>> /\ unsent' = {}
    BY <1>4 DEF SendListed, restOfCache, link
  <2>2. inputC' \in Seq(Calls)
    <3> DEFINE f == [k \in Keys |-> IF k \in unsent THEN src[k] ELSE Absent]
    <3>1. f \in [Keys -> Contents]
      BY <1>0, ListedTyped
    <3>2. inputC' = Append(inputC, Typha!UpdatesCall(Snapshot(f)))
      BY <1>4 DEF SendListed, CallCache
    <3> HIDE DEF f
    <3>3. Typha!UpdatesCall(Snapshot(f)) \in Calls
      BY ONLY <3>1, SnapshotOK, CallsTyped, Zenon
    <3> QED BY ONLY <3>2, <3>3, <1>0
  <2> QED BY <1>0, <2>1, <2>2, CallsKeepCache
<1>5. CASE SaySynced
  <2>1. UNCHANGED <<pendingStatus, pendingUpdates, kvs, crumbs, current, publishing, active, src, unsent>> /\ said' = "InSync"
    BY <1>5 DEF SaySynced, restOfCache, link
  <2>2. inputC' \in Seq(Calls)
    BY <1>0, <1>5, CallsTyped DEF SaySynced, CallCache, Statuses
  <2> QED BY <1>0, <2>1, <2>2, CallsKeepCache DEF Statuses
<1>6. CASE SayResync
  <2>1. UNCHANGED <<pendingStatus, pendingUpdates, kvs, crumbs, current, publishing, active, src, unsent>> /\ said' = "ResyncInProgress"
    BY <1>6 DEF SayResync, restOfCache, link
  <2>2. inputC' \in Seq(Calls)
    BY <1>0, <1>6, CallsTyped DEF SayResync, CallCache, Statuses
  <2> QED BY <1>0, <2>1, <2>2, CallsKeepCache DEF Statuses
<1>7. CASE CacheStep
  BY <1>7, CacheStepKeepsCache
<1>8. CASE Tick
  BY <1>0, <1>1, <1>8 DEF Tick, Typha!WakeUpTick, Typha!cacheVars, cacheVars, upstream, link
<1>9. CASE StreamSnapshot
  BY <1>0, <1>1, <1>9 DEF StreamSnapshot, StartFrom, cacheVars, upstream
<1>10. CASE SendSnapshot
  BY <1>0, <1>1, <1>10 DEF SendSnapshot, StartFrom, cacheVars, upstream
<1>11. CASE SendDeltas
  BY <1>0, <1>1, <1>11 DEF SendDeltas, cacheVars, upstream
<1>12. CASE ExpireSnapshot
  BY <1>0, <1>1, <1>12 DEF ExpireSnapshot, cacheVars, upstream
<1>13. CASE WaitForNext
  BY <1>0, <1>1, <1>13 DEF WaitForNext, cacheVars, upstream, link
<1>14. CASE Client
  BY <1>0, <1>1, <1>14 DEF Client, Connect, Receive, Restarted, SayWaiting, cacheVars, upstream
<1>15. CASE ConnectionLost
  BY <1>0, <1>1, <1>15 DEF ConnectionLost, cacheVars, upstream
<1>16. CASE TyphaRestart
  BY <1>16, RestartKeepsCache
<1>17. CASE SenderStep
  BY <1>0, <1>1, <1>17 DEF SenderStep, cacheVars, upstream, link
<1> QED BY <1>2, <1>3, <1>4, <1>5, <1>6, <1>7, <1>8, <1>9, <1>10, <1>11, <1>12, <1>13, <1>14,
           <1>15, <1>16, <1>17 DEF Next, Syncer, Server, Faults

=============================================================================
