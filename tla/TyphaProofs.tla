---------------------------- MODULE TyphaProofs ----------------------------
(***************************************************************************)
(* The two ends of a Typha connection. Whatever the client calls, and      *)
(* however the sender's batches interleave with the calls, the sink of the *)
(* deduplicating buffer is given update types that match what it already   *)
(* has. And the server's goroutine for the connection is never left asleep *)
(* at a breadcrumb that has a successor. Then what the lists of updates    *)
(* passed between the two do to a key, and the loops that build them.      *)
(***************************************************************************)
EXTENDS TyphaSync, FiniteSetTheorems, TLAPS

-----------------------------------------------------------------------------
(* The deduplicating buffer.                                               *)

(* An update of queueUpdate is an entry.                                   *)
LEMMA RetypedEntry ==
  ASSUME NEW k \in Keys, NEW v \in Contents
  PROVE  /\ Retyped(k, v) \in Entries
         /\ Retyped(k, v).tag = "update" /\ Retyped(k, v).key = k /\ Retyped(k, v).value = v
         /\ Retyped(k, v).type = "new" => k \notin live
         /\ Retyped(k, v).type = "updated" => k \in live
         /\ Retyped(k, v).type = "deleted" <=> v = Absent
BY DEF Retyped, UpdateEntry, Entries

(* The elements of a concatenation.                                        *)
LEMMA ConcatElements ==
  ASSUME NEW a \in Seq(Entries), NEW b \in Seq(Entries)
  PROVE  /\ a \o b \in Seq(Entries) /\ Len(a \o b) = Len(a) + Len(b)
         /\ DOMAIN (a \o b) = 1..(Len(a) + Len(b))
         /\ \A i \in 1..(Len(a) + Len(b)) :
              (a \o b)[i] = IF i <= Len(a) THEN a[i] ELSE b[i - Len(a)]
BY SMT

(* Removing a key's entry from a queue leaves the other entries.           *)
LEMMA WithoutElements ==
  ASSUME NEW q \in Seq(Entries), NEW k \in Keys, Pending(q, k)
  PROVE  \E i \in DOMAIN q :
           /\ IsUpdateOf(q[i], k)
           /\ Without(q, k) \in Seq(Entries)
           /\ DOMAIN Without(q, k) = 1..(Len(q) - 1)
           /\ \A j \in 1..(Len(q) - 1) :
                Without(q, k)[j] = IF j < i THEN q[j] ELSE q[j + 1]
<1> DEFINE i == CHOOSE i \in DOMAIN q : IsUpdateOf(q[i], k)
<1>1. i \in DOMAIN q /\ IsUpdateOf(q[i], k)
  BY DEF Pending
<1>2. Without(q, k) = SubSeq(q, 1, i - 1) \o SubSeq(q, i + 1, Len(q))
  BY DEF Without
<1> HIDE DEF i
<1> DEFINE a == SubSeq(q, 1, i - 1)
<1> DEFINE b == SubSeq(q, i + 1, Len(q))
<1>3. i \in 1..Len(q)
  BY <1>1
<1>4. a \in Seq(Entries) /\ Len(a) = i - 1 /\ \A j \in 1..(i - 1) : a[j] = q[j]
  BY <1>3
<1>5. b \in Seq(Entries) /\ Len(b) = Len(q) - i /\ \A j \in 1..(Len(q) - i) : b[j] = q[i + j]
  BY <1>3
<1>6. Without(q, k) = a \o b
  BY <1>2
<1> HIDE DEF a, b
<1>7. /\ a \o b \in Seq(Entries) /\ DOMAIN (a \o b) = 1..(Len(q) - 1)
      /\ \A j \in 1..(Len(q) - 1) : (a \o b)[j] = IF j <= i - 1 THEN a[j] ELSE b[j - (i - 1)]
  <2>1. Len(a) + Len(b) = Len(q) - 1
    BY <1>3, <1>4, <1>5
  <2>2. /\ a \o b \in Seq(Entries) /\ DOMAIN (a \o b) = 1..(Len(a) + Len(b))
        /\ \A j \in 1..(Len(a) + Len(b)) : (a \o b)[j] = IF j <= Len(a) THEN a[j] ELSE b[j - Len(a)]
    BY ONLY <1>4, <1>5, ConcatElements, Zenon
  <2>3. Len(a) = i - 1
    BY <1>4
  <2> QED
    BY ONLY <2>1, <2>2, <2>3, Zenon
<1> DEFINE ab == a \o b
<1>8. /\ ab \in Seq(Entries) /\ DOMAIN ab = 1..(Len(q) - 1)
      /\ \A j \in 1..(Len(q) - 1) : ab[j] = IF j <= i - 1 THEN a[j] ELSE b[j - (i - 1)]
  BY <1>7
<1> HIDE DEF ab
<1>9. ASSUME NEW j \in 1..(Len(q) - 1)
      PROVE  ab[j] = IF j < i THEN q[j] ELSE q[j + 1]
  <2>1. CASE j < i
    BY <2>1, <1>3, <1>4, <1>8
  <2>2. CASE ~(j < i)
    <3>1. j - (i - 1) \in 1..(Len(q) - i) /\ i + (j - (i - 1)) = j + 1
      BY <2>2, <1>3
    <3>2. ab[j] = b[j - (i - 1)]
      BY <2>2, <1>3, <1>8
    <3> QED BY <2>2, <3>1, <3>2, <1>5
  <2> QED BY <2>1, <2>2
<1> QED BY <1>1, <1>6, <1>8, <1>9, Zenon DEF ab

(* What the queue must be like, given liveResourceKeys.                    *)
QueueOK(q, lv) ==
  /\ q \in Seq(Entries) /\ UniqueKeys(q)
  /\ \A i \in DOMAIN q : q[i].tag = "update" =>
       /\ q[i].type = "new" => q[i].key \notin lv
       /\ q[i].type = "updated" => q[i].key \in lv
       /\ q[i].type = "deleted" <=> q[i].value = Absent

(* queueUpdate keeps the queue that way, and queues nothing but its key.   *)
LEMMA QueueUpdateOK ==
  ASSUME NEW q, QueueOK(q, live), NEW k \in Keys, NEW v \in Contents
  PROVE  /\ QueueOK(queueUpdate(q, k, v), live)
         /\ \A l \in Keys : l # k /\ ~Pending(q, l) => ~Pending(queueUpdate(q, k, v), l)
<1> DEFINE n == queueUpdate(q, k, v)
<1>1. CASE ~Pending(q, k)
  <2>1. n = Append(q, Retyped(k, v))
    BY <1>1 DEF queueUpdate
  <2>2. n \in Seq(Entries) /\ Len(n) = Len(q) + 1
    BY <2>1, RetypedEntry DEF QueueOK
  <2>3. \A j \in DOMAIN n : n[j] = IF j \in DOMAIN q THEN q[j] ELSE Retyped(k, v)
    BY <2>1, <2>2, RetypedEntry DEF QueueOK
  <2>4. \A j \in DOMAIN n : j \in DOMAIN q \/ j = Len(q) + 1
    BY <2>2 DEF QueueOK
  <2> HIDE DEF n
  <2>5. \A j \in DOMAIN q : q[j].tag = "update" => q[j].key # k
    BY <1>1 DEF Pending, IsUpdateOf
  <2>6. UniqueKeys(n)
    BY <2>3, <2>4, <2>5, RetypedEntry DEF UniqueKeys, QueueOK
  <2>7. QueueOK(n, live)
    BY <2>2, <2>3, <2>6, RetypedEntry DEF QueueOK
  <2>8. \A l \in Keys : l # k /\ ~Pending(q, l) => ~Pending(n, l)
    BY <2>3, RetypedEntry DEF Pending, IsUpdateOf
  <2> QED BY <2>7, <2>8 DEF n
<1>2. CASE Pending(q, k) /\ v = Absent /\ k \notin live
  <2>1. n = Without(q, k)
    BY <1>2 DEF queueUpdate
  <2> HIDE DEF n
  <2>2. PICK i \in DOMAIN q :
          /\ IsUpdateOf(q[i], k)
          /\ n \in Seq(Entries)
          /\ DOMAIN n = 1..(Len(q) - 1)
          /\ \A j \in 1..(Len(q) - 1) : n[j] = IF j < i THEN q[j] ELSE q[j + 1]
    BY <1>2, <2>1, WithoutElements DEF QueueOK
  <2> DEFINE old(j) == IF j < i THEN j ELSE j + 1
  <2>3. \A j \in DOMAIN n : old(j) \in DOMAIN q /\ n[j] = q[old(j)]
    BY <2>2 DEF QueueOK
  <2>4. \A j, l \in DOMAIN n : old(j) = old(l) => j = l
    BY <2>2 DEF QueueOK
  <2> HIDE DEF old
  <2>5. UniqueKeys(n)
    BY <2>3, <2>4 DEF UniqueKeys, QueueOK
  <2>6. QueueOK(n, live)
    BY <2>2, <2>3, <2>5 DEF QueueOK
  <2>7. \A l \in Keys : l # k /\ ~Pending(q, l) => ~Pending(n, l)
    BY <2>3 DEF Pending
  <2> QED BY <2>6, <2>7 DEF n
<1>3. CASE Pending(q, k) /\ ~(v = Absent /\ k \notin live)
  <2>1. n = [i \in DOMAIN q |-> IF IsUpdateOf(q[i], k) THEN Retyped(k, v) ELSE q[i]]
    BY <1>3 DEF queueUpdate
  <2> HIDE DEF n
  <2>2. n \in Seq(Entries) /\ DOMAIN n = DOMAIN q
    BY <2>1, RetypedEntry DEF QueueOK
  <2>3. \A i \in DOMAIN n : n[i] = IF IsUpdateOf(q[i], k) THEN Retyped(k, v) ELSE q[i]
    BY <2>1
  <2>4. UniqueKeys(n)
    BY <2>2, <2>3, RetypedEntry DEF UniqueKeys, QueueOK, IsUpdateOf
  <2>5. QueueOK(n, live)
    BY <2>2, <2>3, <2>4, RetypedEntry DEF QueueOK
  <2>6. \A l \in Keys : l # k /\ ~Pending(q, l) => ~Pending(n, l)
    BY <2>2, <2>3, RetypedEntry DEF Pending, IsUpdateOf
  <2> QED BY <2>5, <2>6 DEF n
<1> QED BY <1>1, <1>2, <1>3

(* So does a status, which queues no key at all.                           *)
LEMMA QueueStatusOK ==
  ASSUME NEW q, NEW lv, QueueOK(q, lv), NEW s \in Statuses
  PROVE  /\ QueueOK(QueueStatus(q, s), lv)
         /\ \A k \in Keys : ~Pending(q, k) => ~Pending(QueueStatus(q, s), k)
<1> DEFINE n == QueueStatus(q, s)
<1>1. StatusEntry(s) \in Entries /\ StatusEntry(s).tag = "status"
  BY DEF StatusEntry, Entries
<1>2. /\ n \in Seq(Entries)
      /\ \A j \in DOMAIN n : n[j] = StatusEntry(s) \/ (j \in DOMAIN q /\ n[j] = q[j])
  <2>1. CASE q # <<>> /\ q[Len(q)].tag = "status"
    <3>1. n = [q EXCEPT ![Len(q)] = StatusEntry(s)]
      BY <2>1 DEF QueueStatus
    <3>2. n \in Seq(Entries) /\ DOMAIN n = DOMAIN q
      <4>1. Len(q) \in Nat /\ q \in [1..Len(q) -> Entries]
        BY DEF QueueOK
      <4>2. n \in [1..Len(q) -> Entries]
        BY <3>1, <4>1, <1>1, Zenon
      <4> QED BY <4>1, <4>2
    <3>3. \A j \in DOMAIN q : n[j] = IF j = Len(q) THEN StatusEntry(s) ELSE q[j]
      BY <3>1
    <3> QED BY <3>2, <3>3
  <2>2. CASE ~(q # <<>> /\ q[Len(q)].tag = "status")
    <3>1. n = Append(q, StatusEntry(s))
      BY <2>2 DEF QueueStatus
    <3>2. n \in Seq(Entries) /\ Len(n) = Len(q) + 1
      BY <3>1, <1>1 DEF QueueOK
    <3>3. \A j \in DOMAIN n : n[j] = IF j \in DOMAIN q THEN q[j] ELSE StatusEntry(s)
      BY <3>1, <3>2, <1>1 DEF QueueOK
    <3> QED BY <3>2, <3>3
  <2> QED BY <2>1, <2>2
<1> HIDE DEF n
<1>3. UniqueKeys(n)
  BY <1>1, <1>2 DEF UniqueKeys, QueueOK
<1>4. QueueOK(n, lv)
  BY <1>1, <1>2, <1>3 DEF QueueOK
<1>5. \A k \in Keys : ~Pending(q, k) => ~Pending(n, k)
  BY <1>1, <1>2 DEF Pending, IsUpdateOf
<1> QED BY <1>4, <1>5 DEF n

(* The deletions made up after a reconnection can be appended to a queue   *)
(* that holds none of their keys.                                          *)
LEMMA DeletionsOK ==
  ASSUME NEW q, NEW lv, QueueOK(q, lv), NEW ks \in SUBSET Keys,
         \A k \in ks : ~Pending(q, k), NEW ds \in Deletions(ks)
  PROVE  QueueOK(q \o ds, lv)
<1>1. Cardinality(ks) \in Nat
  <2>1. IsFiniteSet(ks)
    BY DedupeAssumption, FS_Subset
  <2> QED BY <2>1, FS_CardinalityType
<1>2. PICK f \in [1..Cardinality(ks) -> ks] :
        /\ \A i, j \in DOMAIN f : i # j => f[i] # f[j]
        /\ ds = [i \in DOMAIN f |-> UpdateEntry(f[i], Absent, "deleted")]
  BY DEF Deletions
<1>3. \A k \in Keys : /\ UpdateEntry(k, Absent, "deleted") \in Entries
                      /\ UpdateEntry(k, Absent, "deleted").tag = "update"
                      /\ UpdateEntry(k, Absent, "deleted").key = k
                      /\ UpdateEntry(k, Absent, "deleted").value = Absent
                      /\ UpdateEntry(k, Absent, "deleted").type = "deleted"
  BY DEF UpdateEntry, Entries, Contents
<1>4. ds \in Seq(Entries) /\ Len(ds) = Cardinality(ks)
  BY <1>1, <1>2, <1>3
<1>5. \A i \in 1..Len(ds) : /\ ds[i].tag = "update" /\ ds[i].key = f[i] /\ f[i] \in ks
                            /\ ds[i].value = Absent /\ ds[i].type = "deleted"
  BY <1>2, <1>3, <1>4
<1>6. \A i, j \in 1..Len(ds) : ds[i].key = ds[j].key => i = j
  BY <1>2, <1>4, <1>5
<1>7. \A i \in DOMAIN q, j \in 1..Len(ds) : q[i].tag = "update" => q[i].key # ds[j].key
  BY <1>5 DEF Pending, IsUpdateOf
<1> DEFINE n == q \o ds
<1>8. /\ n \in Seq(Entries) /\ DOMAIN n = 1..(Len(q) + Len(ds))
      /\ \A i \in 1..(Len(q) + Len(ds)) : n[i] = IF i <= Len(q) THEN q[i] ELSE ds[i - Len(q)]
  BY <1>4, ConcatElements DEF QueueOK
<1> HIDE DEF n
<1>9. \A i \in DOMAIN n : \/ i \in DOMAIN q /\ n[i] = q[i]
                          \/ i - Len(q) \in 1..Len(ds) /\ n[i] = ds[i - Len(q)]
  BY <1>4, <1>8 DEF QueueOK
<1>10. UniqueKeys(n)
  <2> SUFFICES ASSUME NEW i \in DOMAIN n, NEW j \in DOMAIN n, n[i].tag = "update",
                      n[j].tag = "update", n[i].key = n[j].key
               PROVE  i = j
    BY DEF UniqueKeys
  <2>1. CASE i \in DOMAIN q /\ n[i] = q[i] /\ j \in DOMAIN q /\ n[j] = q[j]
    BY <2>1 DEF UniqueKeys, QueueOK
  <2>2. CASE i - Len(q) \in 1..Len(ds) /\ n[i] = ds[i - Len(q)]
             /\ j - Len(q) \in 1..Len(ds) /\ n[j] = ds[j - Len(q)]
    <3>1. i - Len(q) = j - Len(q)
      BY <2>2, <1>6
    <3>2. i \in Int /\ j \in Int /\ Len(q) \in Int
      BY <1>4, <1>8 DEF QueueOK
    <3> QED BY <3>1, <3>2
  <2> QED BY <2>1, <2>2, <1>7, <1>9
<1>11. QueueOK(n, lv)
  BY <1>5, <1>8, <1>9, <1>10, SMTT(30) DEF QueueOK
<1> QED BY <1>11 DEF n

(* LiveInv in terms of QueueOK.                                            *)
BatchOK ==
  /\ UniqueKeys(batch)
  /\ \A k \in Keys : ~Pending(batch, k) => (k \in live <=> view[k] # Absent)
  /\ \A i \in DOMAIN batch : batch[i].tag = "update" =>
       /\ batch[i].key \in live <=> batch[i].value # Absent
       /\ batch[i].type = "new" => view[batch[i].key] = Absent
       /\ batch[i].type = "updated" => view[batch[i].key] # Absent
       /\ batch[i].type = "deleted" <=> batch[i].value = Absent

UnseenOK == unseen \subseteq live /\ \A k \in unseen : ~Pending(queue, k)

(* The parts of LiveInv.                                                   *)
LEMMA LiveInvParts ==
  /\ LiveInv <=> DedupeTypeOK /\ QueueOK(queue, live) /\ UnseenOK /\ BatchOK
  /\ LiveInv' <=> DedupeTypeOK' /\ QueueOK(queue', live') /\ UnseenOK' /\ BatchOK'
<1>1. LiveInv <=> DedupeTypeOK /\ QueueOK(queue, live) /\ UnseenOK /\ BatchOK
  BY DEF LiveInv, QueueOK, UnseenOK, BatchOK, DedupeTypeOK
<1>2. LiveInv' <=> DedupeTypeOK' /\ QueueOK(queue', live') /\ UnseenOK' /\ BatchOK'
  BY DEF LiveInv, QueueOK, UnseenOK, BatchOK, DedupeTypeOK
<1> QED BY <1>1, <1>2

----------------------------------------------------------------------------
(* A call of the client leaves the batch, the sink and liveResourceKeys    *)
(* alone.                                                                  *)
LEMMA ClientKeepsBatch ==
  ASSUME BatchOK, UNCHANGED <<live, sink>>
  PROVE  BatchOK'
BY DEF BatchOK, sink, UniqueKeys, Pending

(* An update keeps the invariant.                                          *)
LEMMA OnUpdateKeeps ==
  ASSUME LiveInv, NEW k \in Keys, NEW v \in Contents, OnUpdate(k, v)
  PROVE  LiveInv'
<1>1. QueueOK(queue', live') /\ \A l \in Keys : l # k /\ ~Pending(queue, l) => ~Pending(queue', l)
  BY LiveInvParts, QueueUpdateOK, SMTT(30) DEF OnUpdate
<1>2. DedupeTypeOK'
  BY <1>1, LiveInvParts DEF DedupeTypeOK, OnUpdate, QueueOK, sink
<1>3. UnseenOK'
  BY <1>1, LiveInvParts DEF UnseenOK, OnUpdate, DedupeTypeOK
<1>4. BatchOK'
  BY LiveInvParts, ClientKeepsBatch DEF OnUpdate
<1> QED BY <1>1, <1>2, <1>3, <1>4, LiveInvParts

(* A reconnection empties the queue and waits for every live key.          *)
LEMMA RestartKeeps ==
  ASSUME LiveInv, OnTyphaConnectionRestarted
  PROVE  LiveInv'
<1>1. QueueOK(queue', live')
  BY DEF OnTyphaConnectionRestarted, QueueOK, UniqueKeys
<1>2. DedupeTypeOK'
  BY <1>1, LiveInvParts DEF DedupeTypeOK, OnTyphaConnectionRestarted, QueueOK, sink
<1>3. UnseenOK'
  BY DEF UnseenOK, OnTyphaConnectionRestarted, Pending
<1>4. BatchOK'
  BY LiveInvParts, ClientKeepsBatch DEF OnTyphaConnectionRestarted
<1> QED BY <1>1, <1>2, <1>3, <1>4, LiveInvParts

(* A status keeps it, with the deletions that an InSync brings along.      *)
LEMMA OnStatusUpdatedKeeps ==
  ASSUME LiveInv, NEW s \in Statuses, OnStatusUpdated(s)
  PROVE  LiveInv'
<1>1. live' = live /\ UNCHANGED <<live, sink>> /\ recent' = s
  BY DEF OnStatusUpdated
<1>2. /\ QueueOK(queue', live)
      /\ \/ unseen' = {} /\ resyncing' = FALSE
         \/ UNCHANGED <<unseen, resyncing>> /\ \A k \in Keys : ~Pending(queue, k) => ~Pending(queue', k)
  <2>1. CASE s = "InSync" /\ resyncing
    <3>1. PICK ds \in Deletions({k \in unseen : ~Pending(queue, k)}) :
            queue' = IF recent = s THEN Deleted(queue, unseen) \o ds
                     ELSE QueueStatus(Deleted(queue, unseen) \o ds, s)
      BY <2>1, Zenon DEF OnStatusUpdated
    <3>2. Deleted(queue, unseen) = queue
      <4>1. \A i \in DOMAIN queue, k \in unseen : ~IsUpdateOf(queue[i], k)
        BY LiveInvParts DEF UnseenOK, Pending
      <4>2. Deleted(queue, unseen) = [i \in DOMAIN queue |-> queue[i]]
        BY <4>1 DEF Deleted
      <4> QED BY <4>2, LiveInvParts DEF QueueOK
    <3>3. {k \in unseen : ~Pending(queue, k)} \in SUBSET Keys
      BY LiveInvParts DEF DedupeTypeOK
    <3>4. QueueOK(queue \o ds, live)
      BY <3>3, LiveInvParts, DeletionsOK
    <3>5. QueueOK(queue', live)
      BY <3>1, <3>2, <3>4, QueueStatusOK
    <3> QED BY <3>5, <2>1, Zenon DEF OnStatusUpdated
  <2>2. CASE ~(s = "InSync" /\ resyncing)
    <3>1. queue' = IF recent = s THEN queue ELSE QueueStatus(queue, s)
      BY <2>2 DEF OnStatusUpdated
    <3>2. UNCHANGED <<unseen, resyncing>>
      BY <2>2 DEF OnStatusUpdated
    <3> QED BY <3>1, <3>2, LiveInvParts, QueueStatusOK
  <2> QED BY <2>1, <2>2, Zenon
<1>3. DedupeTypeOK'
  BY <1>1, <1>2, LiveInvParts, Zenon DEF DedupeTypeOK, QueueOK, sink
<1>4. UnseenOK'
  BY <1>1, <1>2, LiveInvParts DEF UnseenOK, DedupeTypeOK
<1>5. BatchOK'
  BY <1>1, LiveInvParts, ClientKeepsBatch
<1> QED BY <1>1, <1>2, <1>3, <1>4, <1>5, LiveInvParts

(* Sending one entry makes it part of what the sink has.                   *)
LEMMA SendToSinkKeeps ==
  ASSUME LiveInv, SendToSink
  PROVE  LiveInv'
<1> DEFINE e == Head(batch)
<1>1. /\ batch \in Seq(Entries) /\ batch # <<>> /\ e \in Entries /\ e = batch[1] /\ 1 \in DOMAIN batch
      /\ view \in [Keys -> Contents]
  BY LiveInvParts DEF SendToSink, DedupeTypeOK
<1>2. /\ batch' \in Seq(Entries) /\ DOMAIN batch' = 1..(Len(batch) - 1)
      /\ \A i \in DOMAIN batch' : i + 1 \in DOMAIN batch /\ i + 1 # 1 /\ batch'[i] = batch[i + 1]
  BY <1>1 DEF SendToSink
<1>3. \/ e.tag = "status" /\ sinkStatus' = e.status /\ view' = view
      \/ e.tag = "update" /\ view' = [view EXCEPT ![e.key] = e.value] /\ sinkStatus' = sinkStatus
  BY DEF SendToSink
<1>4. UNCHANGED <<queue, live, unseen, resyncing, recent>>
  BY DEF SendToSink, buffer
<1>5. /\ e.tag = "status" => e.status \in Statuses
      /\ e.tag = "update" => e.key \in Keys /\ e.value \in Contents
  BY <1>1 DEF Entries
<1> HIDE DEF e
<1>6. DedupeTypeOK'
  BY <1>2, <1>3, <1>4, <1>5, LiveInvParts, Zenon DEF DedupeTypeOK
<1>7. QueueOK(queue', live') /\ UnseenOK'
  BY <1>4, LiveInvParts DEF UnseenOK, Pending
<1>8. \A i \in DOMAIN batch' : e.tag = "update" /\ batch'[i].tag = "update" => batch'[i].key # e.key
  BY <1>1, <1>2, LiveInvParts, SMTT(30) DEF BatchOK, UniqueKeys
<1>9. BatchOK'
  <2>1. UniqueKeys(batch')
    <3> SUFFICES ASSUME NEW i \in DOMAIN batch', NEW j \in DOMAIN batch', batch'[i].tag = "update",
                        batch'[j].tag = "update", batch'[i].key = batch'[j].key
                 PROVE  i = j
      BY SMTT(30) DEF UniqueKeys
    <3>1. i + 1 = j + 1
      BY <1>2, LiveInvParts DEF BatchOK, UniqueKeys
    <3> QED BY <3>1, <1>1, <1>2
  <2>2. ASSUME NEW k \in Keys, ~Pending(batch', k)
        PROVE  k \in live <=> view'[k] # Absent
    <3>1. CASE e.tag = "update" /\ e.key = k
      BY <3>1, <1>1, <1>3, LiveInvParts, SMTT(30) DEF BatchOK
    <3>2. CASE ~(e.tag = "update" /\ e.key = k)
      <4>1. view'[k] = view[k]
        BY <3>2, <1>1, <1>3
      <4>2. ASSUME NEW i \in DOMAIN batch, IsUpdateOf(batch[i], k)
            PROVE  FALSE
        <5>1. i # 1
          BY <4>2, <3>2, <1>1 DEF IsUpdateOf
        <5>2. i - 1 \in DOMAIN batch' /\ (i - 1) + 1 = i
          BY <5>1, <1>1, <1>2, SMTT(30)
        <5> QED BY <5>2, <4>2, <2>2, <1>2 DEF Pending
      <4> QED BY <4>1, <4>2, LiveInvParts DEF BatchOK, Pending
    <3> QED BY <3>1, <3>2, SMTT(30)
  <2>3. ASSUME NEW i \in DOMAIN batch', batch'[i].tag = "update"
        PROVE  /\ batch'[i].key \in live <=> batch'[i].value # Absent
               /\ batch'[i].type = "new" => view'[batch'[i].key] = Absent
               /\ batch'[i].type = "updated" => view'[batch'[i].key] # Absent
               /\ batch'[i].type = "deleted" <=> batch'[i].value = Absent
    <3>1. batch'[i].key \in Keys
      BY <1>2, <2>3 DEF Entries
    <3>2. view'[batch'[i].key] = view[batch'[i].key]
      BY <3>1, <1>1, <1>3, <1>8, <2>3
    <3> QED BY <3>2, <1>2, <2>3, LiveInvParts DEF BatchOK
  <2> QED BY <2>1, <2>2, <2>3, <1>4, SMTT(30) DEF BatchOK, Pending, UniqueKeys
<1> QED BY <1>6, <1>7, <1>9, LiveInvParts

(* Taking a batch off the queue commits its keys to liveResourceKeys.      *)
LEMMA PullNextBatchKeeps ==
  ASSUME LiveInv, PullNextBatch
  PROVE  LiveInv'
<1> DEFINE n == IF Len(queue) < BatchSize THEN Len(queue) ELSE BatchSize
<1>1. queue \in Seq(Entries) /\ n \in Nat /\ n \in 0..Len(queue) /\ live \subseteq Keys /\ batch = <<>>
  BY LiveInvParts, DedupeAssumption DEF DedupeTypeOK, PullNextBatch
<1>2. Pulled(queue) = SubSeq(queue, 1, n)
  BY DEF Pulled
<1> HIDE DEF n
<1>3. /\ Pulled(queue) \in Seq(Entries) /\ Len(Pulled(queue)) = n
      /\ \A i \in 1..n : Pulled(queue)[i] = queue[i]
  BY <1>1, <1>2
<1>4. /\ batch' \in Seq(Entries) /\ DOMAIN batch' = 1..n
      /\ \A i \in 1..n : i \in DOMAIN queue /\ batch'[i] = queue[i]
  BY <1>1, <1>3 DEF PullNextBatch
<1>5. queue' = SubSeq(queue, n + 1, Len(queue))
  BY <1>3 DEF PullNextBatch
<1>6. /\ queue' \in Seq(Entries) /\ DOMAIN queue' = 1..(Len(queue) - n)
      /\ \A i \in DOMAIN queue' : i + n \in DOMAIN queue /\ i + n > n /\ queue'[i] = queue[i + n]
  BY <1>1, <1>5, SMTT(30)
<1>7. UNCHANGED <<unseen, resyncing, recent, view, sinkStatus>>
  BY DEF PullNextBatch
<1>8. \A f : f \in UpdatesOf(Pulled(queue)) <=> \E i \in 1..n : f = queue[i] /\ queue[i].tag = "update"
  BY <1>1, <1>3, SMTT(30) DEF UpdatesOf
<1>9. \A k : k \in live' <=>
        \/ k \in live /\ ~\E i \in 1..n : queue[i].tag = "update" /\ queue[i].key = k /\ queue[i].value = Absent
        \/ \E i \in 1..n : queue[i].tag = "update" /\ queue[i].key = k /\ queue[i].value # Absent
  BY <1>8 DEF PullNextBatch
<1>10. \A i, j \in DOMAIN queue :
         queue[i].tag = "update" /\ queue[j].tag = "update" /\ queue[i].key = queue[j].key => i = j
  BY LiveInvParts DEF QueueOK, UniqueKeys
<1>11. \A i \in DOMAIN queue : queue[i].tag = "update" => queue[i].key \in Keys
  BY <1>1 DEF Entries
<1>12. \A i \in 1..n : queue[i].tag = "update" => (queue[i].key \in live' <=> queue[i].value # Absent)
  BY <1>4, <1>9, <1>10
<1>13. \A k \in Keys : (\A i \in 1..n : ~IsUpdateOf(queue[i], k)) => (k \in live' <=> k \in live)
  BY <1>9 DEF IsUpdateOf
<1>14. DedupeTypeOK'
  <2>1. live' \subseteq Keys
    BY <1>1, <1>4, <1>9, <1>11, SMTT(30)
  <2> QED BY <2>1, <1>4, <1>6, <1>7, LiveInvParts, SMTT(30) DEF DedupeTypeOK
<1>15. QueueOK(queue', live')
  <2>1. UniqueKeys(queue')
    <3> SUFFICES ASSUME NEW i \in DOMAIN queue', NEW j \in DOMAIN queue', queue'[i].tag = "update",
                        queue'[j].tag = "update", queue'[i].key = queue'[j].key
                 PROVE  i = j
      BY DEF UniqueKeys
    <3>1. i + n = j + n
      BY <1>6, <1>10
    <3> QED BY <3>1, <1>1, <1>6
  <2>2. ASSUME NEW i \in DOMAIN queue', queue'[i].tag = "update"
        PROVE  queue'[i].key \in live' <=> queue'[i].key \in live
    <3>1. \A j \in 1..n : ~IsUpdateOf(queue[j], queue'[i].key)
      <4> SUFFICES ASSUME NEW j \in 1..n, IsUpdateOf(queue[j], queue'[i].key)
                   PROVE  FALSE
        OBVIOUS
      <4>1. j = i + n
        BY <1>4, <1>6, <1>10, <2>2 DEF IsUpdateOf
      <4> QED BY <4>1, <1>1, <1>6
    <3>2. queue'[i].key \in Keys
      BY <1>6, <1>11, <2>2
    <3> QED BY <3>1, <3>2, <1>13
  <2> QED BY <2>1, <2>2, <1>6, LiveInvParts DEF QueueOK
<1>16. UnseenOK'
  <2>1. \A k \in unseen : k \in live' /\ ~Pending(queue', k)
    BY <1>1, <1>4, <1>6, <1>13, LiveInvParts, SMTT(30) DEF UnseenOK, Pending, DedupeTypeOK
  <2> QED BY <2>1, <1>7, SMTT(30) DEF UnseenOK, Pending
<1>17. BatchOK'
  <2>1. UniqueKeys(batch')
    BY <1>4, <1>10, SMTT(30) DEF UniqueKeys
  <2>2. \A k \in Keys : k \in live <=> view[k] # Absent
    BY <1>1, LiveInvParts DEF BatchOK, Pending
  <2>3. \A k \in Keys : ~Pending(batch', k) => (k \in live' <=> view[k] # Absent)
    BY <2>2, <1>4, <1>13, SMTT(30) DEF Pending
  <2>4. \A i \in DOMAIN batch' : batch'[i].tag = "update" =>
          /\ batch'[i].key \in live' <=> batch'[i].value # Absent
          /\ batch'[i].type = "new" => view[batch'[i].key] = Absent
          /\ batch'[i].type = "updated" => view[batch'[i].key] # Absent
          /\ batch'[i].type = "deleted" <=> batch'[i].value = Absent
    BY <2>2, <1>4, <1>11, <1>12, LiveInvParts, SMTT(30) DEF QueueOK
  <2> QED BY <2>1, <2>3, <2>4, <1>7, SMTT(30) DEF BatchOK, Pending, UniqueKeys
<1> QED BY <1>14, <1>15, <1>16, <1>17, LiveInvParts, SMTT(30)

----------------------------------------------------------------------------
(* The buffer starts empty.                                                *)
LEMMA LiveInvInit == DedupeInit => LiveInv
<1> SUFFICES ASSUME DedupeInit PROVE LiveInv
  OBVIOUS
<1>1. queue = <<>> /\ batch = <<>> /\ DOMAIN queue = {} /\ DOMAIN batch = {}
  BY DEF DedupeInit
<1>2. DedupeTypeOK
  <2>1. queue \in Seq(Entries) /\ batch \in Seq(Entries)
    BY <1>1
  <2>2. view \in [Keys -> Contents]
    BY DEF DedupeInit, Contents
  <2>3. /\ live \subseteq Keys /\ unseen \subseteq Keys /\ resyncing \in BOOLEAN
        /\ recent \in Statuses /\ sinkStatus \in Statuses
    BY Zenon DEF DedupeInit, Statuses
  <2> QED BY <2>1, <2>2, <2>3 DEF DedupeTypeOK
<1>3. \A k \in Keys : k \notin live /\ view[k] = Absent
  BY DEF DedupeInit
<1>4. unseen = {}
  BY DEF DedupeInit
<1> QED BY <1>1, <1>2, <1>3, <1>4 DEF LiveInv, UniqueKeys, Pending

(* No call of any client and no step of the sender breaks LiveInv.         *)
LEMMA LiveInvStep == LiveInv /\ [DedupeNext]_dedupeVars => LiveInv'
<1> SUFFICES ASSUME LiveInv, [DedupeNext]_dedupeVars
             PROVE  LiveInv'
  OBVIOUS
<1>1. ASSUME NEW k \in Keys, NEW v \in Contents, OnUpdate(k, v)
      PROVE  LiveInv'
  BY <1>1, OnUpdateKeeps
<1>2. ASSUME NEW s \in Statuses, OnStatusUpdated(s)
      PROVE  LiveInv'
  BY <1>2, OnStatusUpdatedKeeps
<1>3. CASE OnTyphaConnectionRestarted
  BY <1>3, RestartKeeps
<1>4. CASE PullNextBatch
  BY <1>4, PullNextBatchKeeps, SMTT(30)
<1>5. CASE SendToSink
  BY <1>5, SendToSinkKeeps
<1>6. CASE UNCHANGED dedupeVars
  BY <1>6 DEF dedupeVars, LiveInv, DedupeTypeOK, UniqueKeys, Pending
<1> QED BY <1>1, <1>2, <1>3, <1>4, <1>5, <1>6, Zenon DEF DedupeNext, Sender

(* liveResourceKeys is what the sink will have once the batch under way is *)
(* sent, and no key is queued twice, whatever a client calls               *)
(* (dedupe_buffer.go).                                                     *)
THEOREM LiveKeysExact == DedupeSpec => []LiveInv
BY LiveInvInit, LiveInvStep, PTL DEF DedupeSpec

(* A sink that has what liveResourceKeys says is told fitting types.       *)
LEMMA LiveTypes == LiveInv => TypesMakeSense
<1> SUFFICES ASSUME LiveInv, batch # <<>>, Head(batch).tag = "update"
             PROVE  /\ Head(batch).type = "new" => view[Head(batch).key] = Absent
                    /\ Head(batch).type = "updated" => view[Head(batch).key] # Absent
                    /\ Head(batch).type = "deleted" <=> Head(batch).value = Absent
  BY DEF TypesMakeSense
<1>1. batch \in Seq(Entries) /\ 1 \in DOMAIN batch /\ Head(batch) = batch[1]
  BY LiveInvParts DEF DedupeTypeOK
<1> QED BY <1>1, LiveInvParts DEF BatchOK

(* Every update handed to the sink has the type that fits what the sink    *)
(* has, for any sets of keys and values, any batch size and any client.    *)
THEOREM SinkTypesMakeSense == DedupeSpec => []TypesMakeSense
BY LiveTypes, LiveKeysExact, PTL

-----------------------------------------------------------------------------
(* The breadcrumbs' condition variable.                                    *)

(* The invariant behind NoSleeperLeft: only a connection that follows the  *)
(* trail sleeps on the condition variable.                                 *)
SleeperInv == NoSleeperLeft /\ (asleep => conn = "following")

(* The cache's goroutine links a crumb, makes it the current one and wakes *)
(* the sleepers before it does anything else.                              *)
LEMMA CacheSleepers ==
  ASSUME SleeperInv, CacheStep
  PROVE  SleeperInv'
<1>0. conn' = conn /\ at' = at
  BY DEF CacheStep, link
<1>1. CASE Typha!FillBatch
  BY <1>0, <1>1 DEF SleeperInv, NoSleeperLeft, Typha!FillBatch, Typha!HasNext
<1>2. CASE Typha!PublishBreadcrumb
  <2>1. publishing = "publish" /\ asleep' = asleep
    BY <1>2 DEF Typha!PublishBreadcrumb
  <2>2. publishing' = "linked" \/ crumbs' = crumbs
    BY <1>2 DEF Typha!PublishBreadcrumb
  <2> QED BY <1>0, <2>1, <2>2 DEF SleeperInv, NoSleeperLeft, Typha!HasNext
<1>3. CASE Typha!MakeCurrent
  BY <1>0, <1>3 DEF SleeperInv, NoSleeperLeft, Typha!MakeCurrent, Typha!HasNext
<1>4. CASE Typha!Broadcast
  BY <1>0, <1>4 DEF SleeperInv, NoSleeperLeft, Typha!Broadcast, Typha!HasNext
<1> QED BY <1>1, <1>2, <1>3, <1>4 DEF CacheStep, Typha!Cache

(* A step that leaves the trail and the connection alone.                  *)
LEMMA SleeperSame ==
  ASSUME SleeperInv, UNCHANGED <<crumbs, publishing, asleep, conn, at>>
  PROVE  SleeperInv'
BY DEF SleeperInv, NoSleeperLeft, Typha!HasNext

(* Every step keeps it.                                                    *)
LEMMA SleeperStep ==
  ASSUME SleeperInv, [Next]_vars
  PROVE  SleeperInv'
<1>1. CASE UNCHANGED vars
  BY <1>1, SleeperSame, SMTT(30) DEF vars
<1>2. ASSUME NEW k \in Keys, NEW v \in Values \cup {Absent}, Change(k, v) PROVE SleeperInv'
  BY <1>2, SleeperSame, SMTT(30) DEF Change, restOfCache, link
<1>3. CASE Syncer
  BY <1>3, SleeperSame DEF Syncer, SendListed, SaySynced, SayResync, restOfCache, link
<1>4. CASE CacheStep
  BY <1>4, CacheSleepers
<1>5. CASE Tick
  BY <1>5 DEF Tick, Typha!WakeUpTick, SleeperInv, NoSleeperLeft
<1>6. CASE Server
  <2>1. ASSUME NEW i, StartFrom(i), conn = "greeting" PROVE SleeperInv'
    BY <2>1 DEF StartFrom, SleeperInv, NoSleeperLeft
  <2>2. CASE StreamSnapshot
    BY <2>1, <2>2 DEF StreamSnapshot
  <2>3. CASE SendSnapshot
    BY <2>1, <2>3 DEF SendSnapshot
  <2>4. CASE SendDeltas
    BY <2>4 DEF SendDeltas, SleeperInv, NoSleeperLeft
  <2> QED BY <1>6, <2>2, <2>3, <2>4 DEF Server
<1>7. CASE ExpireSnapshot
  BY <1>7, SleeperSame DEF ExpireSnapshot, cacheVars
<1>8. CASE WaitForNext
  BY <1>8 DEF WaitForNext, Typha!CanSleep, Typha!HasNext, SleeperInv, NoSleeperLeft, cacheVars, link
<1>9. CASE Client
  <2>1. CASE Receive
    BY <2>1, SleeperSame DEF Receive, cacheVars
  <2>2. CASE Connect \/ Restarted \/ SayWaiting
    <3>1. ~asleep /\ ~asleep'
      BY <2>2 DEF Connect, Restarted, SayWaiting, SleeperInv
    <3> QED BY <3>1 DEF SleeperInv, NoSleeperLeft
  <2> QED BY <1>9, <2>1, <2>2 DEF Client
<1>10. CASE Faults
  BY <1>10 DEF Faults, ConnectionLost, TyphaRestart, SleeperInv, NoSleeperLeft
<1>11. CASE SenderStep
  BY <1>11, SleeperSame DEF SenderStep, cacheVars, link
<1> QED BY <1>1, <1>2, <1>3, <1>4, <1>5, <1>6, <1>7, <1>8, <1>9, <1>10, <1>11, SMTT(30) DEF Next

(* Breadcrumb.Next and publishBreadcrumb miss no wake-up: a connection     *)
(* that sleeps at a crumb with a successor is about to be woken, for any   *)
(* keys, values, batch and message sizes.                                  *)
THEOREM SleepersAreWoken == Spec => []NoSleeperLeft
<1>1. Init => SleeperInv
  BY DEF Init, SleeperInv, NoSleeperLeft
<1>2. SleeperInv /\ [Next]_vars => SleeperInv'
  BY SleeperStep
<1>3. SleeperInv => NoSleeperLeft
  BY DEF SleeperInv
<1> QED BY <1>1, <1>2, <1>3, PTL DEF Spec


-----------------------------------------------------------------------------
(* Induction, and what a loop computes.                                    *)

(* A set of numbers that is not empty has a least element.                 *)
LEMMA LeastOf ==
  ASSUME NEW T, T \subseteq Nat, T # {}
  PROVE  \E x \in T : \A y \in T : ~(y < x)
<1> DEFINE R == {ss \in Nat \X Nat : ss[1] < ss[2]}
<1>1. IsWellFoundedOn(R, Nat)
  BY NatLessThanWellFounded DEF OpToRel
<1>2. PICK x \in T : \A y \in T : ~(<<y, x>> \in R)
  BY <1>1, WFMin, Zenon
<1> QED BY <1>2, Zenon

(* Induction up to n.                                                      *)
LEMMA UpTo ==
  ASSUME NEW n \in Nat, NEW S, 0 \in S, \A i \in 1..n : i - 1 \in S => i \in S
  PROVE  \A i \in 0..n : i \in S
<1> DEFINE T == {i \in 0..n : i \notin S}
<1> SUFFICES ASSUME T # {} PROVE FALSE
  OBVIOUS
<1>1. PICK x \in T : \A y \in T : ~(y < x)
  <2>1. T \subseteq Nat
    OBVIOUS
  <2> HIDE DEF T
  <2> QED BY <2>1, LeastOf, Zenon
<1>2. x \in 1..n
  BY <1>1
<1>3. x - 1 \in 0..n /\ x - 1 < x
  BY <1>2
<1>4. x - 1 \in S
  BY <1>1, <1>3
<1> QED BY <1>1, <1>2, <1>4

(* The results of F after each element of s, starting from q.              *)
LoopOf(a, F, q, s, S) ==
  /\ a \in [0..Len(s) -> S] /\ a[0] = q
  /\ \A i \in 1..Len(s) : a[i] = F[<<a[i - 1], s[i]>>]

(* There are such results.                                                 *)
LEMMA FoldExists ==
  ASSUME NEW S, NEW D, NEW F, F \in [S \X D -> S], NEW q, q \in S, NEW s, s \in Seq(D)
  PROVE  \E a : LoopOf(a, F, q, s, S)
<1> DEFINE Good(n) == \E a \in [0..n -> S] : a[0] = q /\ \A i \in 1..n : a[i] = F[<<a[i - 1], s[i]>>]
           T == {n \in 0..Len(s) : Good(n)}
<1>1. Len(s) \in Nat /\ \A i \in 1..Len(s) : s[i] \in D
  OBVIOUS
<1>2. 0 \in T
  <2> DEFINE a == [i \in 0..0 |-> q]
  <2>1. a \in [0..0 -> S] /\ a[0] = q /\ \A i \in 1..0 : a[i] = F[<<a[i - 1], s[i]>>]
    OBVIOUS
  <2> HIDE DEF a
  <2>2. Good(0)
    BY <2>1
  <2> QED BY <1>1, <2>2
<1>3. ASSUME NEW n \in 1..Len(s), n - 1 \in T PROVE n \in T
  <2>1. PICK a \in [0..(n - 1) -> S] : a[0] = q /\ \A i \in 1..(n - 1) : a[i] = F[<<a[i - 1], s[i]>>]
    BY <1>3
  <2> DEFINE b == [i \in 0..n |-> IF i = n THEN F[<<a[n - 1], s[n]>>] ELSE a[i]]
  <2>2. n \in Nat /\ n - 1 \in 0..(n - 1) /\ n # 0 /\ 0 \in 0..(n - 1)
    BY <1>1
  <2>3. a[n - 1] \in S /\ s[n] \in D
    BY <1>1, <2>1, <2>2
  <2>4. F[<<a[n - 1], s[n]>>] \in S
    BY <2>3
  <2>5. \A i \in 0..n : i # n => i \in 0..(n - 1)
    BY <2>2
  <2>6. b \in [0..n -> S]
    BY <2>1, <2>4, <2>5
  <2>7. b[0] = q
    BY <2>1, <2>2
  <2>8. ASSUME NEW i \in 1..n PROVE b[i] = F[<<b[i - 1], s[i]>>]
    <3>1. i \in 0..n /\ i - 1 \in 0..n /\ i - 1 # n
      BY <2>2
    <3>2. b[i - 1] = a[i - 1]
      BY <3>1
    <3>3. CASE i = n
      BY <3>1, <3>2, <3>3
    <3>4. CASE i # n
      <4>1. i \in 1..(n - 1)
        BY <3>4, <2>2
      <4>2. b[i] = a[i]
        BY <3>1, <3>4
      <4> QED BY <4>1, <4>2, <3>2, <2>1
    <3> QED BY <3>3, <3>4
  <2> HIDE DEF b
  <2>9. Good(n)
    BY <2>6, <2>7, <2>8
  <2>10. n \in 0..Len(s)
    BY <1>1
  <2> HIDE DEF Good
  <2> QED BY <2>9, <2>10, Zenon
<1> HIDE DEF T
<1>4. Len(s) \in T
  <2>1. \A n \in 1..Len(s) : n - 1 \in T => n \in T
    BY ONLY <1>3
  <2>2. \A n \in 0..Len(s) : n \in T
    BY ONLY <1>1, <1>2, <2>1, UpTo, Zenon
  <2> QED BY ONLY <1>1, <2>2
<1>5. Good(Len(s))
  <2> HIDE DEF Good
  <2> QED BY <1>4, Zenon DEF T
<1> QED BY ONLY <1>5, Zenon DEF Good, LoopOf

(* Two loops that start alike and step alike end alike.                    *)
LEMMA SameLoop ==
  ASSUME NEW n \in Nat, NEW a, NEW b, a[0] = b[0],
         \A i \in 1..n : a[i - 1] = b[i - 1] => a[i] = b[i]
  PROVE  a[n] = b[n]
<1> DEFINE T == {i \in 0..n : a[i] = b[i]}
<1>1. 0 \in T
  OBVIOUS
<1>2. \A i \in 1..n : i - 1 \in T => i \in T
  OBVIOUS
<1> HIDE DEF T
<1>3. n \in T
  BY <1>1, <1>2, UpTo
<1> QED BY <1>3 DEF T

-----------------------------------------------------------------------------
(* What goes along the pipeline.                                           *)
Updates == [key : Keys, value : Contents, type : {"new", "updated", "deleted"}]
Calls == [tag : {"status"}, status : Statuses] \cup [tag : {"updates"}, updates : Seq(Updates)]
Messages == [tag : {"status"}, status : Statuses] \cup [tag : {"kvs"}, updates : Seq(Updates)]
Crumbs == [kvs : [Keys -> Contents], deltas : Seq(Updates), status : Statuses]
Build == [kvs : [Keys -> Contents], deltas : Seq(Updates)]

(* The loop of Flat.                                                       *)
LEMMA FlatLoop ==
  ASSUME NEW ss \in Seq(Seq(Updates))
  PROVE  \E a \in [0..Len(ss) -> Seq(Updates)] :
           /\ a[0] = <<>> /\ Flat(ss) = a[Len(ss)]
           /\ \A i \in 1..Len(ss) : a[i] = a[i - 1] \o ss[i]
<1> DEFINE D == Seq(Updates)
           S == Seq(Updates)
           F == [p \in S \X D |-> p[1] \o p[2]]
           Is(b) == b = [i \in 0..Len(ss) |-> IF i = 0 THEN <<>> ELSE b[i - 1] \o ss[i]]
           b == CHOOSE b : Is(b)
<1>1. Flat(ss) = b[Len(ss)]
  BY DEF Flat, Typha!Loop
<1>2. Len(ss) \in Nat /\ (\A i \in 1..Len(ss) : ss[i] \in D) /\ ss \in Seq(D) /\ <<>> \in S
  OBVIOUS
<1>3. F \in [S \X D -> S] /\ \A x \in S, y \in D : F[<<x, y>>] = x \o y
  <2>1. \A x \in S, y \in D : x \o y \in S
    BY ONLY TRUE
  <2> HIDE DEF D, S
  <2>2. \A p \in S \X D : p[1] \o p[2] \in S
    BY ONLY <2>1
  <2>3. F \in [S \X D -> S]
    BY ONLY <2>2, Zenon
  <2>4. \A x \in S, y \in D : <<x, y>> \in S \X D /\ <<x, y>>[1] = x /\ <<x, y>>[2] = y
    BY ONLY TRUE
  <2>5. \A x \in S, y \in D : F[<<x, y>>] = x \o y
    BY ONLY <2>4, Zenon
  <2> QED BY ONLY <2>3, <2>5, Zenon
<1> HIDE DEF F, D, S
<1>4. PICK a \in [0..Len(ss) -> S] : a[0] = <<>> /\ \A i \in 1..Len(ss) : a[i] = F[<<a[i - 1], ss[i]>>]
  <2>1. \E a : LoopOf(a, F, <<>>, ss, S)
    BY ONLY <1>2, <1>3, FoldExists, Zenon
  <2> QED BY ONLY <2>1, Zenon DEF LoopOf
<1>5. \A i \in 1..Len(ss) : i - 1 \in 0..Len(ss) /\ i \in 0..Len(ss) /\ i # 0
  BY ONLY <1>2
<1>6. \A i \in 1..Len(ss) : a[i] = a[i - 1] \o ss[i]
  BY ONLY <1>2, <1>3, <1>4, <1>5, Zenon
<1>7. Is(a)
  <2>1. \A i \in 0..Len(ss) : i # 0 => i \in 1..Len(ss)
    BY ONLY <1>2
  <2> QED BY ONLY <1>4, <1>6, <2>1, Zenon
<1>8. Is(b)
  BY ONLY <1>7, Zenon
<1> HIDE DEF b
<1>9. b[0] = a[0] /\ \A i \in 1..Len(ss) : b[i] = b[i - 1] \o ss[i]
  <2>1. 0 \in 0..Len(ss)
    BY ONLY <1>2
  <2> QED BY ONLY <1>4, <1>5, <1>8, <2>1, Zenon
<1>10. b[Len(ss)] = a[Len(ss)]
  <2>1. \A i \in 1..Len(ss) : b[i - 1] = a[i - 1] => b[i] = a[i]
    BY ONLY <1>6, <1>9, Zenon
  <2> QED BY ONLY <2>1, <1>2, <1>9, SameLoop, Zenon
<1> QED BY ONLY <1>1, <1>4, <1>6, <1>10, Zenon DEF S

(* The loop of UpdatesIn.                                                  *)
LEMMA UpdatesInLoop ==
  ASSUME NEW calls \in Seq(Calls)
  PROVE  \E a \in [0..Len(calls) -> Seq(Updates)] :
           /\ a[0] = <<>> /\ Typha!UpdatesIn(calls) = a[Len(calls)]
           /\ \A i \in 1..Len(calls) : a[i] = (IF calls[i].tag = "status" THEN a[i - 1] ELSE a[i - 1] \o calls[i].updates)
<1> DEFINE D == Calls
           S == Seq(Updates)
           F == [p \in S \X D |-> (IF p[2].tag = "status" THEN p[1] ELSE p[1] \o p[2].updates)]
           Is(b) == b = [i \in 0..Len(calls) |-> IF i = 0 THEN <<>> ELSE (IF calls[i].tag = "status" THEN b[i - 1] ELSE b[i - 1] \o calls[i].updates)]
           b == CHOOSE b : Is(b)
<1>1. Typha!UpdatesIn(calls) = b[Len(calls)]
  BY DEF Typha!UpdatesIn, Typha!Loop
<1>2. Len(calls) \in Nat /\ (\A i \in 1..Len(calls) : calls[i] \in D) /\ calls \in Seq(D) /\ <<>> \in S
  BY TRUE
<1>3. F \in [S \X D -> S] /\ \A x \in S, y \in D : F[<<x, y>>] = (IF y.tag = "status" THEN x ELSE x \o y.updates)
  <2>1. \A x \in S, y \in D : (IF y.tag = "status" THEN x ELSE x \o y.updates) \in S
    <3>1. \A y \in D : y.tag = "status" \/ y.updates \in S
      BY DEF Calls
    <3>2. \A x, y \in S : x \o y \in S
      BY ONLY TRUE
    <3> QED BY ONLY <3>1, <3>2, Zenon
  <2> HIDE DEF D, S
  <2>2. \A p \in S \X D : (IF p[2].tag = "status" THEN p[1] ELSE p[1] \o p[2].updates) \in S
    <3>1. \A p \in S \X D : p[1] \in S /\ p[2] \in D
      BY ONLY TRUE
    <3> QED BY ONLY <2>1, <3>1, Zenon
  <2>3. F \in [S \X D -> S]
    BY ONLY <2>2, Zenon
  <2>4. \A x \in S, y \in D : <<x, y>> \in S \X D /\ <<x, y>>[1] = x /\ <<x, y>>[2] = y
    BY ONLY TRUE
  <2>5. \A x \in S, y \in D : F[<<x, y>>] = (IF y.tag = "status" THEN x ELSE x \o y.updates)
    BY ONLY <2>4, Zenon
  <2> QED BY ONLY <2>3, <2>5, Zenon
<1> HIDE DEF F, D, S
<1>4. PICK a \in [0..Len(calls) -> S] : a[0] = <<>> /\ \A i \in 1..Len(calls) : a[i] = F[<<a[i - 1], calls[i]>>]
  <2>1. \E a : LoopOf(a, F, <<>>, calls, S)
    BY ONLY <1>2, <1>3, FoldExists, Zenon
  <2> QED BY ONLY <2>1, Zenon DEF LoopOf
<1>5. \A i \in 1..Len(calls) : i - 1 \in 0..Len(calls) /\ i \in 0..Len(calls) /\ i # 0
  BY ONLY <1>2
<1>6. \A i \in 1..Len(calls) : a[i] = (IF calls[i].tag = "status" THEN a[i - 1] ELSE a[i - 1] \o calls[i].updates)
  BY ONLY <1>2, <1>3, <1>4, <1>5, Zenon
<1>7. Is(a)
  <2>1. \A i \in 0..Len(calls) : i # 0 => i \in 1..Len(calls)
    BY ONLY <1>2
  <2> QED BY ONLY <1>4, <1>6, <2>1, Zenon
<1>8. Is(b)
  BY ONLY <1>7, Zenon
<1> HIDE DEF b
<1>9. b[0] = a[0] /\ \A i \in 1..Len(calls) : b[i] = (IF calls[i].tag = "status" THEN b[i - 1] ELSE b[i - 1] \o calls[i].updates)
  <2>1. 0 \in 0..Len(calls)
    BY ONLY <1>2
  <2> QED BY ONLY <1>4, <1>5, <1>8, <2>1, Zenon
<1>10. b[Len(calls)] = a[Len(calls)]
  <2>1. \A i \in 1..Len(calls) : b[i - 1] = a[i - 1] => b[i] = a[i]
    BY ONLY <1>6, <1>9, Zenon
  <2> QED BY ONLY <2>1, <1>2, <1>9, SameLoop, Zenon
<1> QED BY ONLY <1>1, <1>4, <1>6, <1>10, Zenon DEF S

(* The loop of StatusIn.                                                   *)
LEMMA StatusInLoop ==
  ASSUME pendingStatus \in Statuses, NEW calls \in Seq(Calls)
  PROVE  \E a \in [0..Len(calls) -> Statuses] :
           /\ a[0] = pendingStatus /\ Typha!StatusIn(calls) = a[Len(calls)]
           /\ \A i \in 1..Len(calls) : a[i] = (IF calls[i].tag = "status" THEN calls[i].status ELSE a[i - 1])
<1> DEFINE D == Calls
           S == Statuses
           F == [p \in S \X D |-> (IF p[2].tag = "status" THEN p[2].status ELSE p[1])]
           Is(b) == b = [i \in 0..Len(calls) |-> IF i = 0 THEN pendingStatus ELSE (IF calls[i].tag = "status" THEN calls[i].status ELSE b[i - 1])]
           b == CHOOSE b : Is(b)
<1>1. Typha!StatusIn(calls) = b[Len(calls)]
  BY DEF Typha!StatusIn, Typha!Loop
<1>2. Len(calls) \in Nat /\ (\A i \in 1..Len(calls) : calls[i] \in D) /\ calls \in Seq(D) /\ pendingStatus \in S
  BY TRUE
<1>3. F \in [S \X D -> S] /\ \A x \in S, y \in D : F[<<x, y>>] = (IF y.tag = "status" THEN y.status ELSE x)
  <2>1. \A x \in S, y \in D : (IF y.tag = "status" THEN y.status ELSE x) \in S
    <3>1. \A y \in D : y.tag = "status" => y.status \in S
      BY DEF Calls
    <3> QED BY ONLY <3>1, Zenon
  <2> HIDE DEF D, S
  <2>2. \A p \in S \X D : (IF p[2].tag = "status" THEN p[2].status ELSE p[1]) \in S
    <3>1. \A p \in S \X D : p[1] \in S /\ p[2] \in D
      BY ONLY TRUE
    <3> QED BY ONLY <2>1, <3>1, Zenon
  <2>3. F \in [S \X D -> S]
    BY ONLY <2>2, Zenon
  <2>4. \A x \in S, y \in D : <<x, y>> \in S \X D /\ <<x, y>>[1] = x /\ <<x, y>>[2] = y
    BY ONLY TRUE
  <2>5. \A x \in S, y \in D : F[<<x, y>>] = (IF y.tag = "status" THEN y.status ELSE x)
    BY ONLY <2>4, Zenon
  <2> QED BY ONLY <2>3, <2>5, Zenon
<1> HIDE DEF F, D, S
<1>4. PICK a \in [0..Len(calls) -> S] : a[0] = pendingStatus /\ \A i \in 1..Len(calls) : a[i] = F[<<a[i - 1], calls[i]>>]
  <2>1. \E a : LoopOf(a, F, pendingStatus, calls, S)
    BY ONLY <1>2, <1>3, FoldExists, Zenon
  <2> QED BY ONLY <2>1, Zenon DEF LoopOf
<1>5. \A i \in 1..Len(calls) : i - 1 \in 0..Len(calls) /\ i \in 0..Len(calls) /\ i # 0
  BY ONLY <1>2
<1>6. \A i \in 1..Len(calls) : a[i] = (IF calls[i].tag = "status" THEN calls[i].status ELSE a[i - 1])
  <2>1. \A i \in 1..Len(calls) : a[i - 1] \in S /\ calls[i] \in D
    BY ONLY <1>2, <1>4, <1>5, Zenon
  <2> QED BY ONLY <1>3, <1>4, <2>1, Zenon
<1>7. Is(a)
  <2>1. \A i \in 0..Len(calls) : i # 0 => i \in 1..Len(calls)
    BY ONLY <1>2
  <2> QED BY ONLY <1>4, <1>6, <2>1, Zenon
<1>8. Is(b)
  BY ONLY <1>7, Zenon
<1> HIDE DEF b
<1>9. b[0] = a[0] /\ \A i \in 1..Len(calls) : b[i] = (IF calls[i].tag = "status" THEN calls[i].status ELSE b[i - 1])
  <2>1. 0 \in 0..Len(calls)
    BY ONLY <1>2
  <2> QED BY ONLY <1>4, <1>5, <1>8, <2>1, Zenon
<1>10. b[Len(calls)] = a[Len(calls)]
  <2>1. \A i \in 1..Len(calls) : b[i - 1] = a[i - 1] => b[i] = a[i]
    BY ONLY <1>6, <1>9, Zenon
  <2> QED BY ONLY <2>1, <1>2, <1>9, SameLoop, Zenon
<1> QED BY ONLY <1>1, <1>4, <1>6, <1>10, Zenon DEF S

(* The loop of publishBreadcrumb.                                          *)
LEMMA ApplyLoop ==
  ASSUME NEW f \in [Keys -> Contents], NEW us \in Seq(Updates)
  PROVE  \E a \in [0..Len(us) -> Build] :
           /\ a[0] = [kvs |-> f, deltas |-> <<>>] /\ Typha!Loop(Typha!Apply, [kvs |-> f, deltas |-> <<>>], us) = a[Len(us)]
           /\ \A i \in 1..Len(us) : a[i] = Typha!Apply(a[i - 1], us[i])
<1> DEFINE D == Updates
           S == Build
           F == [p \in S \X D |-> Typha!Apply(p[1], p[2])]
           Is(b) == b = [i \in 0..Len(us) |-> IF i = 0 THEN [kvs |-> f, deltas |-> <<>>] ELSE Typha!Apply(b[i - 1], us[i])]
           b == CHOOSE b : Is(b)
<1>1. Typha!Loop(Typha!Apply, [kvs |-> f, deltas |-> <<>>], us) = b[Len(us)]
  BY DEF Typha!Loop
<1>2. Len(us) \in Nat /\ (\A i \in 1..Len(us) : us[i] \in D) /\ us \in Seq(D) /\ [kvs |-> f, deltas |-> <<>>] \in S
  BY DEF Build
<1>3. F \in [S \X D -> S] /\ \A x \in S, y \in D : F[<<x, y>>] = Typha!Apply(x, y)
  <2>1. \A x \in S, y \in D : Typha!Apply(x, y) \in S
    BY DEF Typha!Apply, Build, Updates
  <2> HIDE DEF D, S
  <2>2. \A p \in S \X D : Typha!Apply(p[1], p[2]) \in S
    <3>1. \A p \in S \X D : p[1] \in S /\ p[2] \in D
      BY ONLY TRUE
    <3> QED BY ONLY <2>1, <3>1, Zenon
  <2>3. F \in [S \X D -> S]
    BY ONLY <2>2, Zenon
  <2>4. \A x \in S, y \in D : <<x, y>> \in S \X D /\ <<x, y>>[1] = x /\ <<x, y>>[2] = y
    BY ONLY TRUE
  <2>5. \A x \in S, y \in D : F[<<x, y>>] = Typha!Apply(x, y)
    BY ONLY <2>4, Zenon
  <2> QED BY ONLY <2>3, <2>5, Zenon
<1> HIDE DEF F, D, S
<1>4. PICK a \in [0..Len(us) -> S] : a[0] = [kvs |-> f, deltas |-> <<>>] /\ \A i \in 1..Len(us) : a[i] = F[<<a[i - 1], us[i]>>]
  <2>1. \E a : LoopOf(a, F, [kvs |-> f, deltas |-> <<>>], us, S)
    BY ONLY <1>2, <1>3, FoldExists, Zenon
  <2> QED BY ONLY <2>1, Zenon DEF LoopOf
<1>5. \A i \in 1..Len(us) : i - 1 \in 0..Len(us) /\ i \in 0..Len(us) /\ i # 0
  BY ONLY <1>2
<1>6. \A i \in 1..Len(us) : a[i] = Typha!Apply(a[i - 1], us[i])
  BY ONLY <1>2, <1>3, <1>4, <1>5, Zenon
<1>7. Is(a)
  <2>1. \A i \in 0..Len(us) : i # 0 => i \in 1..Len(us)
    BY ONLY <1>2
  <2> QED BY ONLY <1>4, <1>6, <2>1, Zenon
<1>8. Is(b)
  BY ONLY <1>7, Zenon
<1> HIDE DEF b
<1>9. b[0] = a[0] /\ \A i \in 1..Len(us) : b[i] = Typha!Apply(b[i - 1], us[i])
  <2>1. 0 \in 0..Len(us)
    BY ONLY <1>2
  <2> QED BY ONLY <1>4, <1>5, <1>8, <2>1, Zenon
<1>10. b[Len(us)] = a[Len(us)]
  <2>1. \A i \in 1..Len(us) : b[i - 1] = a[i - 1] => b[i] = a[i]
    BY ONLY <1>6, <1>9, Zenon
  <2> QED BY ONLY <2>1, <1>2, <1>9, SameLoop, Zenon
<1> QED BY ONLY <1>1, <1>4, <1>6, <1>10, Zenon DEF S

(* The queue after each of the updates.                                    *)
QueueSteps(a, q0, us) ==
  /\ a \in [0..Len(us) -> {q \in Seq(Entries) : QueueOK(q, live)}] /\ a[0] = q0
  /\ \A i \in 1..Len(us) : a[i] = queueUpdate(a[i - 1], us[i].key, us[i].value)
QueueResult(q0, us) == Typha!Loop(LAMBDA q, u : queueUpdate(q, u.key, u.value), q0, us)

(* The loop of OnUpdates.                                                  *)
LEMMA QueueLoop ==
  ASSUME NEW q0, QueueOK(q0, live), NEW us \in Seq(Updates)
  PROVE  \E a : QueueSteps(a, q0, us) /\ QueueResult(q0, us) = a[Len(us)]
<1> DEFINE D == Updates
           S == {q \in Seq(Entries) : QueueOK(q, live)}
           F == [p \in S \X D |-> queueUpdate(p[1], p[2].key, p[2].value)]
           Is(b) == b = [i \in 0..Len(us) |-> IF i = 0 THEN q0 ELSE queueUpdate(b[i - 1], us[i].key, us[i].value)]
           b == CHOOSE b : Is(b)
<1>1. QueueResult(q0, us) = b[Len(us)]
  BY DEF QueueResult, Typha!Loop
<1>2. Len(us) \in Nat /\ (\A i \in 1..Len(us) : us[i] \in D) /\ us \in Seq(D) /\ q0 \in S
  BY DEF QueueOK
<1>3. F \in [S \X D -> S] /\ \A x \in S, y \in D : F[<<x, y>>] = queueUpdate(x, y.key, y.value)
  <2>1. \A x \in S, y \in D : queueUpdate(x, y.key, y.value) \in S
    <3>1. \A y \in D : y.key \in Keys /\ y.value \in Contents
      BY DEF Updates
    <3>2. \A x \in S, y \in D : QueueOK(queueUpdate(x, y.key, y.value), live)
      BY ONLY <3>1, QueueUpdateOK, Zenon
    <3>3. \A x : QueueOK(x, live) => x \in S
      BY ONLY Zenon DEF QueueOK
    <3> QED BY ONLY <3>2, <3>3, Zenon
  <2> HIDE DEF D, S
  <2>2. \A p \in S \X D : queueUpdate(p[1], p[2].key, p[2].value) \in S
    <3>1. \A p \in S \X D : p[1] \in S /\ p[2] \in D
      BY ONLY TRUE
    <3> QED BY ONLY <2>1, <3>1, Zenon
  <2>3. F \in [S \X D -> S]
    BY ONLY <2>2, Zenon
  <2>4. \A x \in S, y \in D : <<x, y>> \in S \X D /\ <<x, y>>[1] = x /\ <<x, y>>[2] = y
    BY ONLY TRUE
  <2>5. \A x \in S, y \in D : F[<<x, y>>] = queueUpdate(x, y.key, y.value)
    BY ONLY <2>4, Zenon
  <2> QED BY ONLY <2>3, <2>5, Zenon
<1> HIDE DEF F, D, S
<1>4. PICK a \in [0..Len(us) -> S] : a[0] = q0 /\ \A i \in 1..Len(us) : a[i] = F[<<a[i - 1], us[i]>>]
  <2>1. \E a : LoopOf(a, F, q0, us, S)
    BY ONLY <1>2, <1>3, FoldExists, Zenon
  <2> QED BY ONLY <2>1, Zenon DEF LoopOf
<1>5. \A i \in 1..Len(us) : i - 1 \in 0..Len(us) /\ i \in 0..Len(us) /\ i # 0
  BY ONLY <1>2
<1>6. \A i \in 1..Len(us) : a[i] = queueUpdate(a[i - 1], us[i].key, us[i].value)
  BY ONLY <1>2, <1>3, <1>4, <1>5, Zenon
<1>7. Is(a)
  <2>1. \A i \in 0..Len(us) : i # 0 => i \in 1..Len(us)
    BY ONLY <1>2
  <2> QED BY ONLY <1>4, <1>6, <2>1, Zenon
<1>8. Is(b)
  BY ONLY <1>7, Zenon
<1> HIDE DEF b
<1>9. b[0] = a[0] /\ \A i \in 1..Len(us) : b[i] = queueUpdate(b[i - 1], us[i].key, us[i].value)
  <2>1. 0 \in 0..Len(us)
    BY ONLY <1>2
  <2> QED BY ONLY <1>4, <1>5, <1>8, <2>1, Zenon
<1>10. b[Len(us)] = a[Len(us)]
  <2>1. \A i \in 1..Len(us) : b[i - 1] = a[i - 1] => b[i] = a[i]
    BY ONLY <1>6, <1>9, Zenon
  <2> QED BY ONLY <2>1, <1>2, <1>9, SameLoop, Zenon
<1> QED BY ONLY <1>1, <1>4, <1>6, <1>10, Zenon DEF S, QueueSteps

-----------------------------------------------------------------------------
(* The effect of a list of updates on a key.                               *)

(* The first n updates take k from x to y.                                 *)
To(us, n, k, x, y) ==
  IF \E i \in 1..n : us[i].key = k
  THEN \E i \in 1..n : us[i].key = k /\ us[i].value = y /\ \A j \in 1..n : us[j].key = k => j <= i
  ELSE x = y

After(us, k, x, y) == To(us, Len(us), k, x, y)
Has(us, k) == \E i \in 1..Len(us) : us[i].key = k
Within(us, k, T) == \A i \in 1..Len(us) : us[i].key = k => us[i].value \in T

(* One more update.                                                        *)
LEMMA ToNext ==
  ASSUME NEW us, NEW n \in Nat, NEW k, NEW x, NEW y, To(us, n, k, x, y)
  PROVE  To(us, n + 1, k, x, IF us[n + 1].key = k THEN us[n + 1].value ELSE y)
<1>1. \A i \in 1..n : i \in 1..(n + 1) /\ i <= n + 1
  OBVIOUS
<1>2. \A i \in 1..(n + 1) : i \in 1..n \/ i = n + 1
  OBVIOUS
<1>3. n + 1 \in 1..(n + 1) /\ n + 1 <= n + 1
  OBVIOUS
<1>4. CASE us[n + 1].key = k
  <2>1. \A j \in 1..(n + 1) : j <= n + 1
    OBVIOUS
  <2> QED BY ONLY <1>3, <1>4, <2>1, Zenon DEF To
<1>5. CASE us[n + 1].key # k
  <2>1. CASE \E i \in 1..n : us[i].key = k
    <3>1. PICK i \in 1..n : us[i].key = k /\ us[i].value = y /\ \A j \in 1..n : us[j].key = k => j <= i
      BY ONLY <2>1, To(us, n, k, x, y), Zenon DEF To
    <3>2. \A j \in 1..(n + 1) : us[j].key = k => j <= i
      BY ONLY <3>1, <1>2, <1>5, Zenon
    <3> QED BY ONLY <1>1, <1>5, <3>1, <3>2, Zenon DEF To
  <2>2. CASE ~\E i \in 1..n : us[i].key = k
    <3>1. x = y
      BY ONLY <2>2, To(us, n, k, x, y), Zenon DEF To
    <3>2. ~\E i \in 1..(n + 1) : us[i].key = k
      BY ONLY <2>2, <1>2, <1>5, Zenon
    <3> QED BY ONLY <3>1, <3>2, <1>5, Zenon DEF To
  <2> QED BY ONLY <2>1, <2>2, Zenon
<1> QED BY ONLY <1>4, <1>5, Zenon

(* It depends on the first n updates only.                                 *)
LEMMA ToSame ==
  ASSUME NEW us, NEW vs, NEW n, \A i \in 1..n : us[i] = vs[i], NEW k, NEW x, NEW y,
         To(us, n, k, x, y)
  PROVE  To(vs, n, k, x, y)
<1>1. CASE \E i \in 1..n : us[i].key = k
  <2>1. PICK i \in 1..n : us[i].key = k /\ us[i].value = y /\ \A j \in 1..n : us[j].key = k => j <= i
    BY ONLY <1>1, To(us, n, k, x, y), Zenon DEF To
  <2>2. vs[i].key = k /\ vs[i].value = y /\ \A j \in 1..n : vs[j].key = k => j <= i
    BY ONLY <2>1, \A j \in 1..n : us[j] = vs[j], Zenon
  <2> QED BY ONLY <2>2, Zenon DEF To
<1>2. CASE ~\E i \in 1..n : us[i].key = k
  <2>1. ~\E i \in 1..n : vs[i].key = k
    BY ONLY <1>2, \A i \in 1..n : us[i] = vs[i], Zenon
  <2> QED BY ONLY <1>2, <2>1, To(us, n, k, x, y), Zenon DEF To
<1> QED BY ONLY <1>1, <1>2, Zenon

(* No update leaves a key alone.                                           *)
LEMMA AfterNone ==
  ASSUME NEW us \in Seq(Updates), NEW k, NEW x, NEW y, ~Has(us, k)
  PROVE  After(us, k, x, y) <=> x = y
BY ONLY ~Has(us, k), Zenon DEF After, To, Has

(* The updates of one key are those of a list after all the others.        *)
LEMMA AfterLast ==
  ASSUME NEW us \in Seq(Updates), NEW k, NEW x, NEW y, After(us, k, x, y), Has(us, k), NEW z
  PROVE  After(us, k, z, y)
BY ONLY After(us, k, x, y), Has(us, k), Zenon DEF After, To, Has

(* An update more at the end of a list.                                    *)
LEMMA AfterAppend ==
  ASSUME NEW us \in Seq(Updates), NEW u \in Updates, NEW k, NEW x, NEW y, After(us, k, x, y)
  PROVE  After(Append(us, u), k, x, IF u.key = k THEN u.value ELSE y)
<1> DEFINE vs == Append(us, u)
           n == Len(us)
<1>1. n \in Nat /\ Len(vs) = n + 1 /\ vs[n + 1] = u /\ \A i \in 1..n : us[i] = vs[i]
  OBVIOUS
<1>2. To(us, n, k, x, y)
  BY DEF After
<1> HIDE DEF n, vs
<1>3. To(vs, n, k, x, y)
  BY ONLY <1>1, <1>2, ToSame, Zenon
<1>4. To(vs, n + 1, k, x, IF vs[n + 1].key = k THEN vs[n + 1].value ELSE y)
  BY ONLY <1>1, <1>3, ToNext, Zenon
<1>5. After(vs, k, x, IF u.key = k THEN u.value ELSE y)
  BY ONLY <1>1, <1>4, Zenon DEF After
<1> QED BY ONLY <1>5, Zenon DEF vs

(* A list of which every update is accounted for by h.                     *)
LEMMA AfterChain ==
  ASSUME NEW us \in Seq(Updates), NEW k, NEW h,
         \A i \in 1..Len(us) : h[i] = IF us[i].key = k THEN us[i].value ELSE h[i - 1]
  PROVE  After(us, k, h[0], h[Len(us)])
<1> DEFINE S == {i \in 0..Len(us) : To(us, i, k, h[0], h[i])}
<1>1. Len(us) \in Nat
  OBVIOUS
<1>2. 0 \in S
  <2>1. 0 \in 0..Len(us) /\ ~\E i \in 1..0 : us[i].key = k
    BY ONLY <1>1
  <2> QED BY ONLY <2>1, Zenon DEF To
<1>3. ASSUME NEW i \in 1..Len(us), i - 1 \in S PROVE i \in S
  <2>1. i - 1 \in Nat /\ (i - 1) + 1 = i /\ i \in 0..Len(us)
    BY ONLY <1>1, i \in 1..Len(us)
  <2>2. To(us, i - 1, k, h[0], h[i - 1])
    BY ONLY <1>3, Zenon
  <2>3. To(us, (i - 1) + 1, k, h[0], IF us[(i - 1) + 1].key = k THEN us[(i - 1) + 1].value ELSE h[i - 1])
    BY ONLY <2>1, <2>2, ToNext, Zenon
  <2>4. h[i] = IF us[i].key = k THEN us[i].value ELSE h[i - 1]
    OBVIOUS
  <2>5. To(us, i, k, h[0], h[i])
    BY ONLY <2>1, <2>3, <2>4
  <2> QED BY ONLY <2>1, <2>5, Zenon
<1> HIDE DEF S
<1>4. \A i \in 1..Len(us) : i - 1 \in S => i \in S
  BY ONLY <1>3, Zenon
<1>5. \A i \in 0..Len(us) : i \in S
  BY ONLY <1>1, <1>2, <1>4, UpTo, Zenon
<1>6. Len(us) \in S
  BY ONLY <1>1, <1>5
<1> QED BY ONLY <1>6, Zenon DEF S, After

(* Where the updates of a concatenation come from.                         *)
LEMMA ConcatUpdates ==
  ASSUME NEW us \in Seq(Updates), NEW vs \in Seq(Updates)
  PROVE  /\ us \o vs \in Seq(Updates) /\ Len(us \o vs) = Len(us) + Len(vs)
         /\ \A i \in 1..Len(us) : i \in 1..(Len(us) + Len(vs)) /\ (us \o vs)[i] = us[i]
         /\ \A i \in 1..Len(vs) :
              Len(us) + i \in 1..(Len(us) + Len(vs)) /\ (us \o vs)[Len(us) + i] = vs[i]
         /\ \A i \in 1..(Len(us) + Len(vs)) :
              i \in 1..Len(us) \/ \E j \in 1..Len(vs) : i = Len(us) + j
<1>1. /\ us \o vs \in Seq(Updates) /\ Len(us \o vs) = Len(us) + Len(vs)
      /\ Len(us) \in Nat /\ Len(vs) \in Nat
      /\ \A i \in 1..(Len(us) + Len(vs)) : (us \o vs)[i] = IF i <= Len(us) THEN us[i] ELSE vs[i - Len(us)]
  OBVIOUS
<1> DEFINE w == us \o vs
           m == Len(us)
           n == Len(vs)
<1>2. m \in Nat /\ n \in Nat /\ \A i \in 1..(m + n) : w[i] = IF i <= m THEN us[i] ELSE vs[i - m]
  BY ONLY <1>1
<1> HIDE DEF w, m, n
<1>3. \A i \in 1..m : i \in 1..(m + n) /\ w[i] = us[i]
  BY ONLY <1>2
<1>4. \A i \in 1..n : m + i \in 1..(m + n) /\ w[m + i] = vs[i]
  BY ONLY <1>2
<1>5. ASSUME NEW i \in 1..(m + n), i \notin 1..m PROVE \E j \in 1..n : i = m + j
  <2>1. i - m \in 1..n /\ i = m + (i - m)
    BY ONLY <1>2, <1>5, i \in 1..(m + n)
  <2> QED BY ONLY <2>1, Zenon
<1> QED BY ONLY <1>1, <1>3, <1>4, <1>5, Zenon DEF w, m, n

(* One list after another.                                                 *)
LEMMA AfterConcat ==
  ASSUME NEW us \in Seq(Updates), NEW vs \in Seq(Updates), NEW k, NEW x, NEW y, NEW z,
         After(us, k, x, y), After(vs, k, y, z)
  PROVE  After(us \o vs, k, x, z)
<1> DEFINE w == us \o vs
           m == Len(us)
           n == Len(vs)
<1>1. /\ Len(w) = m + n
      /\ \A i \in 1..m : i \in 1..(m + n) /\ w[i] = us[i]
      /\ \A i \in 1..n : m + i \in 1..(m + n) /\ w[m + i] = vs[i]
      /\ \A i \in 1..(m + n) : i \in 1..m \/ \E j \in 1..n : i = m + j
  BY ONLY ConcatUpdates, us \in Seq(Updates), vs \in Seq(Updates), Zenon
<1>2. m \in Nat /\ n \in Nat
  OBVIOUS
<1>3. To(us, m, k, x, y) /\ To(vs, n, k, y, z)
  BY DEF After
<1> HIDE DEF w, m, n
<1>4. CASE \E i \in 1..n : vs[i].key = k
  <2>1. PICK i \in 1..n : vs[i].key = k /\ vs[i].value = z /\ \A j \in 1..n : vs[j].key = k => j <= i
    BY ONLY <1>4, <1>3, Zenon DEF To
  <2>2. m + i \in 1..(m + n) /\ w[m + i].key = k /\ w[m + i].value = z
    BY ONLY <1>1, <2>1, Zenon
  <2>3. ASSUME NEW j \in 1..(m + n), w[j].key = k PROVE j <= m + i
    <3>1. CASE j \in 1..m
      BY ONLY <1>2, <3>1, i \in 1..n
    <3>2. ASSUME NEW l \in 1..n, j = m + l PROVE j <= m + i
      <4>1. l <= i
        BY ONLY <2>1, <2>3, <3>2, <1>1, Zenon
      <4> QED BY ONLY <4>1, <3>2, <1>2, i \in 1..n, l \in 1..n
    <3> QED BY ONLY <3>1, <3>2, <1>1, j \in 1..(m + n), Zenon
  <2> QED BY ONLY <2>2, <2>3, <1>1, Zenon DEF After, To, w
<1>5. CASE ~\E i \in 1..n : vs[i].key = k
  <2>1. y = z
    BY ONLY <1>5, <1>3, Zenon DEF To
  <2>2. ASSUME NEW j \in 1..(m + n), w[j].key = k PROVE j \in 1..m
    <3>1. ASSUME NEW l \in 1..n, j = m + l PROVE FALSE
      <4>1. w[m + l] = vs[l]
        BY ONLY <1>1, Zenon
      <4> QED BY ONLY <4>1, <3>1, <2>2, <1>5, Zenon
    <3> QED BY ONLY <3>1, <1>1, j \in 1..(m + n), Zenon
  <2>3. CASE \E i \in 1..m : us[i].key = k
    <3>1. PICK i \in 1..m : us[i].key = k /\ us[i].value = y /\ \A j \in 1..m : us[j].key = k => j <= i
      BY ONLY <2>3, <1>3, Zenon DEF To
    <3>2. i \in 1..(m + n) /\ w[i].key = k /\ w[i].value = z
      BY ONLY <1>1, <2>1, <3>1, Zenon
    <3>3. \A j \in 1..(m + n) : w[j].key = k => j <= i
      BY ONLY <1>1, <2>2, <3>1, Zenon
    <3> QED BY ONLY <3>2, <3>3, <1>1, Zenon DEF After, To, w
  <2>4. CASE ~\E i \in 1..m : us[i].key = k
    <3>1. x = y
      BY ONLY <2>4, <1>3, Zenon DEF To
    <3>2. ~\E i \in 1..(m + n) : w[i].key = k
      BY ONLY <1>1, <2>2, <2>4, Zenon
    <3> QED BY ONLY <3>1, <3>2, <2>1, <1>1, Zenon DEF After, To, w
  <2> QED BY ONLY <2>3, <2>4, Zenon
<1> QED BY ONLY <1>4, <1>5, Zenon

(* A key stays within what it and its updates are within.                  *)
LEMMA AfterWithin ==
  ASSUME NEW us \in Seq(Updates), NEW k, NEW x, NEW y, After(us, k, x, y), NEW T, Within(us, k, T),
         x \in T \/ Has(us, k)
  PROVE  y \in T
BY ONLY After(us, k, x, y), Within(us, k, T), x \in T \/ Has(us, k), Zenon DEF After, To, Within, Has

(* The updates of a concatenation are those of its parts.                  *)
LEMMA ConcatWithin ==
  ASSUME NEW us \in Seq(Updates), NEW vs \in Seq(Updates), NEW k
  PROVE  /\ \A T : Within(us, k, T) /\ Within(vs, k, T) => Within(us \o vs, k, T)
         /\ Has(us, k) \/ Has(vs, k) => Has(us \o vs, k)
<1> DEFINE w == us \o vs
           m == Len(us)
           n == Len(vs)
<1>1. /\ Len(w) = m + n
      /\ \A i \in 1..m : i \in 1..(m + n) /\ w[i] = us[i]
      /\ \A i \in 1..n : m + i \in 1..(m + n) /\ w[m + i] = vs[i]
      /\ \A i \in 1..(m + n) : i \in 1..m \/ \E j \in 1..n : i = m + j
  BY ONLY ConcatUpdates, us \in Seq(Updates), vs \in Seq(Updates), Zenon
<1> HIDE DEF w
<1>2. ASSUME NEW T, Within(us, k, T), Within(vs, k, T) PROVE Within(w, k, T)
  <2> SUFFICES ASSUME NEW i \in 1..(m + n), w[i].key = k PROVE w[i].value \in T
    <3>1. Len(w) = m + n
      BY ONLY <1>1
    <3> QED BY <3>1, Zenon DEF Within
  <2>1. CASE i \in 1..m
    BY ONLY <1>1, <1>2, <2>1, w[i].key = k, Zenon DEF Within
  <2>2. ASSUME NEW j \in 1..n, i = m + j PROVE w[i].value \in T
    BY ONLY <1>1, <1>2, <2>2, w[i].key = k, Zenon DEF Within
  <2> QED BY ONLY <1>1, <2>1, <2>2, i \in 1..(m + n), Zenon
<1>3. ASSUME Has(us, k) PROVE Has(w, k)
  BY ONLY <1>1, <1>3, Zenon DEF Has
<1>4. ASSUME Has(vs, k) PROVE Has(w, k)
  BY ONLY <1>1, <1>4, Zenon DEF Has
<1> QED BY ONLY <1>2, <1>3, <1>4, Zenon DEF w

(* Flat, key by key: g is the key's value between the parts.               *)
LEMMA FlatAfter ==
  ASSUME NEW ss \in Seq(Seq(Updates))
  PROVE  /\ Flat(ss) \in Seq(Updates)
         /\ \A k, g : (\A i \in 1..Len(ss) : After(ss[i], k, g[i - 1], g[i]))
                        => After(Flat(ss), k, g[0], g[Len(ss)])
         /\ \A k, T : (\A i \in 1..Len(ss) : Within(ss[i], k, T)) => Within(Flat(ss), k, T)
<1>1. PICK a \in [0..Len(ss) -> Seq(Updates)] :
        /\ a[0] = <<>> /\ Flat(ss) = a[Len(ss)]
        /\ \A i \in 1..Len(ss) : a[i] = a[i - 1] \o ss[i]
  BY ONLY FlatLoop, ss \in Seq(Seq(Updates)), Zenon
<1> DEFINE n == Len(ss)
<1>2. n \in Nat /\ (\A i \in 1..n : ss[i] \in Seq(Updates)) /\ <<>> \in Seq(Updates) /\ Len(<<>>) = 0
  OBVIOUS
<1>3. /\ \A i \in 1..n : i - 1 \in 0..n /\ i \in 0..n
      /\ 0 \in 0..n /\ n \in 0..n /\ ~\E i \in 1..0 : TRUE
  BY ONLY <1>2
<1> HIDE DEF n
<1>4. \A i \in 1..n : a[i - 1] \in Seq(Updates) /\ a[i] = a[i - 1] \o ss[i]
  BY ONLY <1>1, <1>3, Zenon DEF n
<1>5. Flat(ss) \in Seq(Updates)
  BY ONLY <1>1, <1>3, Zenon DEF n
<1>6. ASSUME NEW k, NEW g, \A i \in 1..n : After(ss[i], k, g[i - 1], g[i])
      PROVE  After(Flat(ss), k, g[0], g[n])
  <2> DEFINE S == {i \in 0..n : After(a[i], k, g[0], g[i])}
  <2>1. 0 \in S
    BY ONLY <1>1, <1>2, <1>3, Zenon DEF After, To
  <2>2. ASSUME NEW i \in 1..n, i - 1 \in S PROVE i \in S
    <3>1. After(a[i - 1], k, g[0], g[i - 1]) /\ After(ss[i], k, g[i - 1], g[i])
      BY ONLY <2>2, <1>6, Zenon
    <3>2. After(a[i - 1] \o ss[i], k, g[0], g[i])
      BY ONLY <3>1, <1>2, <1>4, i \in 1..n, AfterConcat, Zenon
    <3> QED BY ONLY <3>2, <1>3, <1>4, i \in 1..n, Zenon
  <2> HIDE DEF S
  <2>3. n \in S
    BY ONLY <2>1, <2>2, <1>2, <1>3, UpTo, Zenon
  <2> QED BY ONLY <2>3, <1>1, Zenon DEF S, n
<1>7. ASSUME NEW k, NEW T, \A i \in 1..n : Within(ss[i], k, T)
      PROVE  Within(Flat(ss), k, T)
  <2> DEFINE S == {i \in 0..n : Within(a[i], k, T)}
  <2>1. 0 \in S
    BY ONLY <1>1, <1>2, <1>3, Zenon DEF Within
  <2>2. ASSUME NEW i \in 1..n, i - 1 \in S PROVE i \in S
    <3>1. Within(a[i - 1], k, T) /\ Within(ss[i], k, T)
      BY ONLY <2>2, <1>7, Zenon
    <3>2. Within(a[i - 1] \o ss[i], k, T)
      BY ONLY <3>1, <1>2, <1>4, i \in 1..n, ConcatWithin, Zenon
    <3> QED BY ONLY <3>2, <1>3, <1>4, i \in 1..n, Zenon
  <2> HIDE DEF S
  <2>3. n \in S
    BY ONLY <2>1, <2>2, <1>2, <1>3, UpTo, Zenon
  <2> QED BY ONLY <2>3, <1>1, Zenon DEF S, n
<1> QED BY ONLY <1>5, <1>6, <1>7, Zenon DEF n

(* UpdatesIn: the updates of the calls, and no others.                     *)
LEMMA UpdatesInOK ==
  ASSUME NEW calls \in Seq(Calls)
  PROVE  /\ Typha!UpdatesIn(calls) \in Seq(Updates)
         /\ \A k, T : (\A i \in 1..Len(calls) : calls[i].tag # "status" => Within(calls[i].updates, k, T))
                        => Within(Typha!UpdatesIn(calls), k, T)
         /\ \A k : \A i \in 1..Len(calls) : calls[i].tag # "status" /\ Has(calls[i].updates, k)
                        => Has(Typha!UpdatesIn(calls), k)
<1>1. PICK a \in [0..Len(calls) -> Seq(Updates)] :
        /\ a[0] = <<>> /\ Typha!UpdatesIn(calls) = a[Len(calls)]
        /\ \A i \in 1..Len(calls) : a[i] = IF calls[i].tag = "status" THEN a[i - 1] ELSE a[i - 1] \o calls[i].updates
  BY ONLY UpdatesInLoop, calls \in Seq(Calls), Zenon
<1> DEFINE n == Len(calls)
<1>2. n \in Nat /\ <<>> \in Seq(Updates) /\ Len(<<>>) = 0
  OBVIOUS
<1>3. /\ \A i \in 1..n : i - 1 \in 0..n /\ i \in 0..n
      /\ 0 \in 0..n /\ n \in 0..n /\ ~\E i \in 1..0 : TRUE
  BY ONLY <1>2
<1>4. \A i \in 1..n : calls[i].tag # "status" => calls[i].updates \in Seq(Updates)
  BY DEF Calls
<1> HIDE DEF n
<1>5. \A i \in 1..n : a[i - 1] \in Seq(Updates)
  BY ONLY <1>1, <1>3, Zenon DEF n
<1>6. \A i \in 1..n : calls[i].tag = "status" => a[i] = a[i - 1]
  BY ONLY <1>1, Zenon DEF n
<1>7. \A i \in 1..n : calls[i].tag # "status" => a[i] = a[i - 1] \o calls[i].updates
  BY ONLY <1>1, Zenon DEF n
<1>8. Typha!UpdatesIn(calls) \in Seq(Updates)
  BY ONLY <1>1, <1>3, Zenon DEF n
<1>9. ASSUME NEW k, NEW T, \A i \in 1..n : calls[i].tag # "status" => Within(calls[i].updates, k, T)
      PROVE  Within(Typha!UpdatesIn(calls), k, T)
  <2> DEFINE S == {i \in 0..n : Within(a[i], k, T)}
  <2>1. 0 \in S
    BY ONLY <1>1, <1>2, <1>3, Zenon DEF Within
  <2>2. ASSUME NEW i \in 1..n, Within(a[i - 1], k, T) PROVE Within(a[i], k, T)
    <3>1. CASE calls[i].tag = "status"
      BY ONLY <3>1, <2>2, <1>6, Zenon
    <3>2. CASE calls[i].tag # "status"
      BY ONLY <3>2, <2>2, <1>4, <1>5, <1>7, <1>9, ConcatWithin, Zenon
    <3> QED BY ONLY <3>1, <3>2, Zenon
  <2>3. \A i \in 1..n : i - 1 \in S => i \in S
    BY ONLY <1>3, <2>2, Zenon
  <2> HIDE DEF S
  <2>4. n \in S
    BY ONLY <2>1, <2>3, <1>2, <1>3, UpTo, Zenon
  <2> QED BY ONLY <2>4, <1>1, Zenon DEF S, n
<1>10. ASSUME NEW k, NEW j \in 1..n, calls[j].tag # "status", Has(calls[j].updates, k)
       PROVE  Has(Typha!UpdatesIn(calls), k)
  <2> DEFINE S == {i \in 0..n : j <= i => Has(a[i], k)}
  <2>1. 0 \in S
    <3>1. ~(j <= 0)
      BY ONLY <1>2, j \in 1..n
    <3> QED BY ONLY <3>1, <1>3, Zenon
  <2>2. ASSUME NEW i \in 1..n, j <= i - 1 => Has(a[i - 1], k), j <= i PROVE Has(a[i], k)
    <3>1. CASE j = i
      BY ONLY <3>1, <1>10, <1>4, <1>5, <1>7, ConcatWithin, Zenon
    <3>2. CASE j # i
      <4>1. Has(a[i - 1], k)
        <5>1. j <= i - 1
          BY ONLY <3>2, <2>2, <1>2, i \in 1..n, j \in 1..n
        <5> QED BY ONLY <5>1, <2>2, Zenon
      <4>2. CASE calls[i].tag = "status"
        BY ONLY <4>1, <4>2, <1>6, Zenon
      <4>3. CASE calls[i].tag # "status"
        BY ONLY <4>1, <4>3, <1>4, <1>5, <1>7, ConcatWithin, Zenon
      <4> QED BY ONLY <4>2, <4>3, Zenon
    <3> QED BY ONLY <3>1, <3>2, Zenon
  <2>3. \A i \in 1..n : i - 1 \in S => i \in S
    BY ONLY <1>3, <2>2, Zenon
  <2> HIDE DEF S
  <2>4. n \in S
    BY ONLY <2>1, <2>3, <1>2, <1>3, UpTo, Zenon
  <2>5. j <= n
    BY ONLY <1>2, j \in 1..n
  <2> QED BY ONLY <2>4, <2>5, <1>1, Zenon DEF S, n
<1> QED BY ONLY <1>8, <1>9, <1>10, Zenon DEF n

(* StatusIn: the last status of the calls, if there is one.                *)
LEMMA StatusInOK ==
  ASSUME pendingStatus \in Statuses, NEW calls \in Seq(Calls)
  PROVE  /\ Typha!StatusIn(calls) \in Statuses
         /\ \/ Typha!StatusIn(calls) = pendingStatus
            \/ \E i \in 1..Len(calls) : calls[i].tag = "status" /\ calls[i].status = Typha!StatusIn(calls)
<1>1. PICK a \in [0..Len(calls) -> Statuses] :
        /\ a[0] = pendingStatus /\ Typha!StatusIn(calls) = a[Len(calls)]
        /\ \A i \in 1..Len(calls) : a[i] = IF calls[i].tag = "status" THEN calls[i].status ELSE a[i - 1]
  BY ONLY StatusInLoop, calls \in Seq(Calls), pendingStatus \in Statuses, Zenon
<1> DEFINE n == Len(calls)
<1>2. n \in Nat
  OBVIOUS
<1>3. /\ \A i \in 1..n : i \in 0..n
      /\ 0 \in 0..n /\ n \in 0..n
  BY ONLY <1>2
<1> HIDE DEF n
<1> DEFINE Ok(i) == \/ a[i] = pendingStatus
                    \/ \E j \in 1..n : calls[j].tag = "status" /\ calls[j].status = a[i]
           S == {i \in 0..n : Ok(i)}
<1>4. 0 \in S
  BY ONLY <1>1, <1>3, Zenon
<1>5. ASSUME NEW i \in 1..n, i - 1 \in S PROVE i \in S
  <2>1. CASE calls[i].tag = "status"
    <3>1. a[i] = calls[i].status
      BY ONLY <1>1, <2>1, i \in 1..n, Zenon DEF n
    <3> QED BY ONLY <3>1, <2>1, <1>3, i \in 1..n, Zenon
  <2>2. CASE calls[i].tag # "status"
    <3>1. a[i] = a[i - 1]
      BY ONLY <1>1, <2>2, i \in 1..n, Zenon DEF n
    <3> QED BY ONLY <3>1, <1>5, <1>3, i \in 1..n, Zenon
  <2> QED BY ONLY <2>1, <2>2, Zenon
<1> HIDE DEF S
<1>6. n \in S
  BY ONLY <1>2, <1>3, <1>4, <1>5, UpTo, Zenon
<1>7. Ok(n)
  BY ONLY <1>6, Zenon DEF S
<1> QED BY ONLY <1>1, <1>3, <1>7, Zenon DEF n

(* One update applied to the master copy.                                  *)
LEMMA ApplyOne ==
  ASSUME NEW s \in Build, NEW u \in Updates
  PROVE  /\ Typha!Apply(s, u) \in Build
         /\ \A k \in Keys : Typha!Apply(s, u).kvs[k] = IF u.key = k THEN u.value ELSE s.kvs[k]
         /\ \/ Typha!Apply(s, u).deltas = s.deltas /\ Typha!Apply(s, u).kvs = s.kvs
            \/ Typha!Apply(s, u).deltas = Append(s.deltas, u)
<1>1. /\ s.kvs \in [Keys -> Contents] /\ s.deltas \in Seq(Updates)
      /\ u.key \in Keys /\ u.value \in Contents
  BY DEF Build, Updates
<1>2. CASE u.value # Absent /\ Typha!NoOp(s.kvs, u)
  <2>1. Typha!Apply(s, u) = s /\ s.kvs[u.key] = u.value
    BY ONLY <1>2, Zenon DEF Typha!Apply, Typha!NoOp
  <2> QED BY ONLY <2>1, s \in Build, Zenon
<1>3. CASE ~(u.value # Absent /\ Typha!NoOp(s.kvs, u))
  <2> DEFINE f == [s.kvs EXCEPT ![u.key] = u.value]
             ds == Append(s.deltas, u)
  <2>1. Typha!Apply(s, u) = [kvs |-> f, deltas |-> ds]
    BY ONLY <1>3, Zenon DEF Typha!Apply
  <2>2. ds \in Seq(Updates)
    BY ONLY <1>1, u \in Updates
  <2>3. f \in [Keys -> Contents] /\ \A k \in Keys : f[k] = IF u.key = k THEN u.value ELSE s.kvs[k]
    BY ONLY <1>1
  <2> HIDE DEF f, ds
  <2>4. /\ [kvs |-> f, deltas |-> ds] \in Build
        /\ [kvs |-> f, deltas |-> ds].kvs = f /\ [kvs |-> f, deltas |-> ds].deltas = ds
    BY ONLY <2>2, <2>3 DEF Build
  <2> QED BY ONLY <2>1, <2>3, <2>4, Zenon DEF ds
<1> QED BY ONLY <1>2, <1>3, Zenon

(* What the loop of publishBreadcrumb makes of f.                           *)
Applied(f, us) == Typha!Loop(Typha!Apply, [kvs |-> f, deltas |-> <<>>], us)

(* publishBreadcrumb's loop: the deltas lead from the old contents to the  *)
(* new, and are taken from the updates.                                    *)
LEMMA ApplyOK ==
  ASSUME NEW f \in [Keys -> Contents], NEW us \in Seq(Updates), NEW r, r = Applied(f, us)
  PROVE  /\ r.kvs \in [Keys -> Contents] /\ r.deltas \in Seq(Updates)
         /\ \A k \in Keys : /\ After(r.deltas, k, f[k], r.kvs[k])
                            /\ After(us, k, f[k], r.kvs[k])
                            /\ \A T : Within(us, k, T) => Within(r.deltas, k, T)
<1>1. PICK a \in [0..Len(us) -> Build] :
        /\ a[0] = [kvs |-> f, deltas |-> <<>>] /\ r = a[Len(us)]
        /\ \A i \in 1..Len(us) : a[i] = Typha!Apply(a[i - 1], us[i])
  BY ONLY ApplyLoop, f \in [Keys -> Contents], us \in Seq(Updates), r = Applied(f, us), Zenon DEF Applied
<1> DEFINE n == Len(us)
<1>2. n \in Nat /\ \A i \in 1..n : us[i] \in Updates
  OBVIOUS
<1>3. /\ \A i \in 1..n : i - 1 \in 0..n /\ i \in 0..n
      /\ 0 \in 0..n /\ n \in 0..n /\ ~\E i \in 1..0 : TRUE
  BY ONLY <1>2
<1>4. \A s \in Build : s.kvs \in [Keys -> Contents] /\ s.deltas \in Seq(Updates)
  BY ONLY TRUE DEF Build
<1>5. a[0].kvs = f /\ a[0].deltas = <<>> /\ Len(<<>>) = 0
  BY ONLY <1>1
<1> HIDE DEF n
<1>6. \A i \in 1..n : a[i - 1] \in Build /\ a[i] = Typha!Apply(a[i - 1], us[i])
  BY ONLY <1>1, <1>3, Zenon DEF n
<1>7. r \in Build
  BY ONLY <1>1, <1>3, Zenon DEF n
<1>8. ASSUME NEW i \in 1..n
      PROVE  /\ \A k \in Keys : a[i].kvs[k] = IF us[i].key = k THEN us[i].value ELSE a[i - 1].kvs[k]
             /\ \/ a[i].deltas = a[i - 1].deltas /\ a[i].kvs = a[i - 1].kvs
                \/ a[i].deltas = Append(a[i - 1].deltas, us[i])
  <2> DEFINE x == a[i - 1]
             u == us[i]
             y == a[i]
  <2>1. x \in Build /\ u \in Updates /\ y = Typha!Apply(x, u)
    BY ONLY <1>2, <1>6, i \in 1..n, Zenon
  <2> HIDE DEF x, u, y
  <2>2. /\ \A k \in Keys : y.kvs[k] = IF u.key = k THEN u.value ELSE x.kvs[k]
        /\ \/ y.deltas = x.deltas /\ y.kvs = x.kvs
           \/ y.deltas = Append(x.deltas, u)
    BY ONLY <2>1, ApplyOne, Zenon
  <2> QED BY ONLY <2>2, Zenon DEF x, u, y
<1>10. ASSUME NEW k \in Keys PROVE After(r.deltas, k, f[k], r.kvs[k])
  <2> DEFINE S == {i \in 0..n : After(a[i].deltas, k, f[k], a[i].kvs[k])}
  <2>1. 0 \in S
    BY ONLY <1>3, <1>5, Zenon DEF After, To
  <2>2. ASSUME NEW i \in 1..n, i - 1 \in S PROVE i \in S
    <3>1. After(a[i - 1].deltas, k, f[k], a[i - 1].kvs[k])
      BY ONLY <2>2, Zenon
    <3>2. CASE a[i].deltas = a[i - 1].deltas /\ a[i].kvs = a[i - 1].kvs
      BY ONLY <3>1, <3>2, <1>3, i \in 1..n, Zenon
    <3>3. CASE a[i].deltas = Append(a[i - 1].deltas, us[i])
      <4>1. a[i - 1].deltas \in Seq(Updates) /\ us[i] \in Updates
        BY ONLY <1>2, <1>4, <1>6, i \in 1..n, Zenon
      <4>2. After(a[i].deltas, k, f[k], IF us[i].key = k THEN us[i].value ELSE a[i - 1].kvs[k])
        BY ONLY <3>1, <3>3, <4>1, AfterAppend, Zenon
      <4>3. After(a[i].deltas, k, f[k], a[i].kvs[k])
        BY ONLY <4>2, <1>8, i \in 1..n, k \in Keys
      <4> QED BY ONLY <4>3, <1>3, i \in 1..n, Zenon
    <3> QED BY ONLY <3>2, <3>3, <1>8, i \in 1..n, Zenon
  <2> HIDE DEF S
  <2>3. n \in S
    BY ONLY <2>1, <2>2, <1>2, <1>3, UpTo, Zenon
  <2> QED BY ONLY <2>3, <1>1, Zenon DEF S, n
<1>11. ASSUME NEW k \in Keys PROVE After(us, k, f[k], r.kvs[k])
  <2> DEFINE h == [i \in 0..n |-> a[i].kvs[k]]
  <2>1. h[0] = f[k] /\ h[n] = r.kvs[k]
    BY ONLY <1>1, <1>3, <1>5, Zenon DEF n
  <2>2. \A i \in 1..n : h[i] = IF us[i].key = k THEN us[i].value ELSE h[i - 1]
    BY ONLY <1>3, <1>8, k \in Keys
  <2> HIDE DEF h
  <2>3. After(us, k, h[0], h[n])
    BY ONLY <2>2, AfterChain, us \in Seq(Updates), Zenon DEF n
  <2> QED BY ONLY <2>1, <2>3, Zenon
<1>12. ASSUME NEW k \in Keys, NEW T, Within(us, k, T) PROVE Within(r.deltas, k, T)
  <2> DEFINE S == {i \in 0..n : Within(a[i].deltas, k, T)}
  <2>1. 0 \in S
    BY ONLY <1>3, <1>5, Zenon DEF Within
  <2>2. ASSUME NEW i \in 1..n, i - 1 \in S PROVE i \in S
    <3>1. Within(a[i - 1].deltas, k, T)
      BY ONLY <2>2, Zenon
    <3>2. CASE a[i].deltas = a[i - 1].deltas /\ a[i].kvs = a[i - 1].kvs
      BY ONLY <3>1, <3>2, <1>3, i \in 1..n, Zenon
    <3>3. CASE a[i].deltas = Append(a[i - 1].deltas, us[i])
      <4>1. a[i - 1].deltas \in Seq(Updates) /\ us[i] \in Updates
        BY ONLY <1>2, <1>4, <1>6, i \in 1..n, Zenon
      <4>2. us[i].key = k => us[i].value \in T
        BY ONLY <1>12, i \in 1..n, Zenon DEF Within, n
      <4>3. Within(Append(a[i - 1].deltas, us[i]), k, T)
        BY ONLY <3>1, <4>1, <4>2 DEF Within
      <4> QED BY ONLY <3>3, <4>3, <1>3, i \in 1..n, Zenon
    <3> QED BY ONLY <3>2, <3>3, <1>8, i \in 1..n, Zenon
  <2> HIDE DEF S
  <2>3. n \in S
    BY ONLY <2>1, <2>2, <1>2, <1>3, UpTo, Zenon
  <2> QED BY ONLY <2>3, <1>1, Zenon DEF S, n
<1> QED BY ONLY <1>4, <1>7, <1>10, <1>11, <1>12, Zenon

-----------------------------------------------------------------------------
(* The snapshot, and the messages on the wire.                             *)

(* A message takes k from x to y with updates within T, and a client that  *)
(* is told InSync has k within T.                                          *)
Tells(m, k, T, x, y) ==
  IF m.tag = "kvs" THEN After(m.updates, k, x, y) /\ Within(m.updates, k, T)
  ELSE x = y /\ (m.status = "InSync" => x \in T)

(* The messages of w do so one after the other.                            *)
Leads(w, k, T, x, y) ==
  \E g : g[0] = x /\ g[Len(w)] = y /\ \A i \in 1..Len(w) : Tells(w[i], k, T, g[i - 1], g[i])

(* Listed lists every element of a finite set.                             *)
LEMMA ListedIs ==
  ASSUME NEW S, IsFiniteSet(S)
  PROVE  /\ Cardinality(S) \in Nat
         /\ Listed(S) \in [1..Cardinality(S) -> S]
         /\ \A e \in S : \E i \in 1..Cardinality(S) : Listed(S)[i] = e
<1> DEFINE n == Cardinality(S)
           f == Listed(S)
<1>1. n \in Nat /\ ExistsBijection(1..n, S)
  BY FS_CardinalityType, Zenon
<1>2. \E g \in [1..n -> S] : \A i, j \in DOMAIN g : g[i] = g[j] => i = j
  BY <1>1, Zenon DEF ExistsBijection, Bijection, Injection, IsInjective
<1>3. f \in [1..n -> S] /\ \A i, j \in DOMAIN f : f[i] = f[j] => i = j
  BY <1>2, Zenon DEF Listed
<1>4. IsFiniteSet(1..n) /\ Cardinality(1..n) = n
  BY ONLY <1>1, FS_Interval
<1>5. f \in Injection(1..n, S)
  BY <1>3, Zenon DEF Injection, IsInjective
<1> HIDE DEF n, f
<1>6. f \in Surjection(1..n, S)
  BY <1>4, <1>5, FS_Injection, Zenon DEF n
<1> QED BY <1>1, <1>3, <1>6, Zenon DEF Surjection, n, f

(* A snapshot has the value of every key that has one.                     *)
LEMMA SnapshotOK ==
  ASSUME NEW f \in [Keys -> Contents]
  PROVE  /\ Snapshot(f) \in Seq(Updates)
         /\ \A i \in 1..Len(Snapshot(f)) : Snapshot(f)[i].value = f[Snapshot(f)[i].key]
         /\ \A k \in Keys : Has(Snapshot(f), k) <=> f[k] # Absent
<1> DEFINE S == Present(f)
           n == Cardinality(S)
           ks == Listed(S)
           us == Snapshot(f)
<1>1. S \subseteq Keys /\ IsFiniteSet(S) /\ \A k \in Keys : k \in S <=> f[k] # Absent
  BY DedupeAssumption, FS_Subset DEF Present
<1>2. us = [i \in DOMAIN ks |-> Typha!Update(ks[i], f[ks[i]], "new")]
  BY ONLY Zenon DEF Snapshot
<1> HIDE DEF S, us
<1>3. n \in Nat /\ ks \in [1..n -> S] /\ \A e \in S : \E i \in 1..n : ks[i] = e
  BY ONLY <1>1, ListedIs, Zenon
<1> HIDE DEF n, ks
<1>4. \A i \in 1..n : ks[i] \in S /\ ks[i] \in Keys
  BY ONLY <1>1, <1>3, Zenon
<1>5. us = [i \in 1..n |-> [key |-> ks[i], value |-> f[ks[i]], type |-> "new"]]
  BY ONLY <1>2, <1>3, Zenon DEF Typha!Update
<1>6. \A i \in 1..n : [key |-> ks[i], value |-> f[ks[i]], type |-> "new"] \in Updates
  BY ONLY <1>4, f \in [Keys -> Contents] DEF Updates
<1>7. us \in Seq(Updates) /\ Len(us) = n
  BY ONLY <1>3, <1>5, <1>6
<1>8. \A i \in 1..n : us[i].key = ks[i] /\ us[i].value = f[ks[i]]
  BY ONLY <1>5
<1>9. \A k \in Keys : Has(us, k) <=> f[k] # Absent
  BY ONLY <1>1, <1>3, <1>4, <1>7, <1>8 DEF Has
<1>10. \A i \in 1..Len(us) : us[i].value = f[us[i].key]
  BY ONLY <1>7, <1>8, Zenon
<1> QED BY ONLY <1>7, <1>9, <1>10, Zenon DEF us

(* A part of a list.                                                       *)
LEMMA PartOf ==
  ASSUME NEW us \in Seq(Updates), NEW a \in Nat, NEW b \in Nat, a <= b, b <= Len(us)
  PROVE  /\ SubSeq(us, a + 1, b) \in Seq(Updates) /\ Len(SubSeq(us, a + 1, b)) = b - a
         /\ \A i \in 1..(b - a) : SubSeq(us, a + 1, b)[i] = us[a + i]
OBVIOUS

(* A part of a snapshot adds what is in it.                                *)
LEMMA PartAfter ==
  ASSUME NEW us \in Seq(Updates), NEW f, NEW k, \A i \in 1..Len(us) : us[i].value = f[us[i].key],
         NEW a \in Nat, NEW b \in Nat, a <= b, b <= Len(us)
  PROVE  After(SubSeq(us, a + 1, b), k,
               IF \E i \in 1..a : us[i].key = k THEN f[k] ELSE Absent,
               IF \E i \in 1..b : us[i].key = k THEN f[k] ELSE Absent)
<1> DEFINE c == SubSeq(us, a + 1, b)
           Seen(n) == \E i \in 1..n : us[i].key = k
           h == [i \in 0..(b - a) |-> IF Seen(a + i) THEN f[k] ELSE Absent]
<1>1. c \in Seq(Updates) /\ Len(c) = b - a /\ \A i \in 1..(b - a) : c[i] = us[a + i]
  BY PartOf
<1> HIDE DEF c
<1>2. \A i \in 1..(b - a) : /\ i \in 0..(b - a) /\ i - 1 \in 0..(b - a) /\ a + i \in 1..Len(us)
                            /\ a + (i - 1) \in Nat /\ a + i = (a + (i - 1)) + 1
  OBVIOUS
<1>3. \A n \in Nat : Seen(n + 1) <=> Seen(n) \/ us[n + 1].key = k
  <2>1. \A n \in Nat : /\ n + 1 \in 1..(n + 1)
                       /\ \A i \in 1..n : i \in 1..(n + 1)
                       /\ \A i \in 1..(n + 1) : i \in 1..n \/ i = n + 1
    BY ONLY TRUE
  <2> QED BY ONLY <2>1, Zenon
<1> HIDE DEF Seen
<1>4. ASSUME NEW i \in 1..(b - a) PROVE h[i] = IF c[i].key = k THEN c[i].value ELSE h[i - 1]
  <2>1. h[i] = (IF Seen(a + i) THEN f[k] ELSE Absent) /\ h[i - 1] = (IF Seen(a + (i - 1)) THEN f[k] ELSE Absent)
    BY ONLY <1>2, i \in 1..(b - a), Zenon
  <2>2. Seen(a + i) <=> Seen(a + (i - 1)) \/ us[a + i].key = k
    BY ONLY <1>2, <1>3, i \in 1..(b - a), Zenon
  <2>3. c[i] = us[a + i] /\ us[a + i].value = f[us[a + i].key]
    BY <1>1, <1>2, i \in 1..(b - a), Zenon
  <2> QED BY ONLY <2>1, <2>2, <2>3
<1>5. h[0] = (IF Seen(a) THEN f[k] ELSE Absent) /\ h[b - a] = (IF Seen(b) THEN f[k] ELSE Absent)
  <2>1. 0 \in 0..(b - a) /\ b - a \in 0..(b - a) /\ a + 0 = a /\ a + (b - a) = b
    OBVIOUS
  <2> QED BY ONLY <2>1
<1> HIDE DEF h
<1>6. After(c, k, h[0], h[b - a])
  <2>1. \A i \in 1..Len(c) : h[i] = IF c[i].key = k THEN c[i].value ELSE h[i - 1]
    BY ONLY <1>1, <1>4, Zenon
  <2>2. After(c, k, h[0], h[Len(c)])
    BY ONLY <1>1, <2>1, AfterChain, Zenon
  <2> QED BY ONLY <2>2, <1>1, Zenon
<1> QED BY ONLY <1>5, <1>6, Zenon DEF c, Seen

(* How many messages of M updates hold L updates.                          *)
LEMMA DivUp ==
  ASSUME NEW L \in Nat, NEW M \in Nat \ {0}, NEW n, n = (L + M - 1) \div M
  PROVE  n \in Nat /\ L <= n * M /\ \A j \in 1..n : (j - 1) * M \in Nat /\ j * M \in Nat
                                       /\ (j - 1) * M < L /\ (j - 1) * M + M = j * M
<1>1. n \in Nat /\ n * M \in Nat /\ L <= n * M /\ n * M < L + M
  OBVIOUS
<1>2. ASSUME NEW j \in 1..n
      PROVE  (j - 1) * M \in Nat /\ j * M \in Nat /\ (j - 1) * M < L /\ (j - 1) * M + M = j * M
  <2>1. j * M \in Int /\ (j - 1) * M = j * M - M
    BY <1>1
  <2>2. j * M <= n * M
    BY <1>1
  <2>3. (j - 1) * M >= 0
    BY <1>1
  <2> QED BY <1>1, <2>1, <2>2, <2>3
<1> QED BY ONLY <1>1, <1>2, Zenon

(* writeSnapshotMessages: the messages of a snapshot lead from nothing to  *)
(* its contents.                                                           *)
LEMMA ChunksOK ==
  ASSUME NEW f \in [Keys -> Contents]
  PROVE  /\ Chunks(Snapshot(f)) \in Seq(Messages)
         /\ \A k \in Keys : \A T : f[k] \in T \cup {Absent} => Leads(Chunks(Snapshot(f)), k, T, Absent, f[k])
<1> DEFINE us == Snapshot(f)
           L == Len(us)
           M == MaxMessageSize
           n == (L + M - 1) \div M
           e(j) == IF j * M < L THEN j * M ELSE L
           part(j) == SubSeq(us, (j - 1) * M + 1, e(j))
           w == Chunks(us)
<1>1. /\ us \in Seq(Updates)
      /\ \A i \in 1..L : us[i].value = f[us[i].key]
      /\ \A k \in Keys : Has(us, k) <=> f[k] # Absent
  BY ONLY SnapshotOK, f \in [Keys -> Contents], Zenon
<1>2. w = [j \in 1..n |-> KVsMessage(part(j))]
  BY ONLY Zenon DEF Chunks
<1> HIDE DEF us, w
<1>3. L \in Nat /\ M \in Nat \ {0}
  BY <1>1, TyphaAssumption
<1>4. n \in Nat /\ L <= n * M /\ \A j \in 1..n : (j - 1) * M \in Nat /\ j * M \in Nat
                                    /\ (j - 1) * M < L /\ (j - 1) * M + M = j * M
  <2> HIDE DEF L, M
  <2>1. n = (L + M - 1) \div M
    OBVIOUS
  <2> HIDE DEF n
  <2> QED BY ONLY <1>3, <2>1, DivUp
<1> HIDE DEF L, M, n
<1>5. ASSUME NEW j \in 1..n
      PROVE  /\ (j - 1) * M \in Nat /\ e(j) \in Nat /\ (j - 1) * M <= e(j) /\ e(j) <= L
             /\ e(j - 1) = (j - 1) * M
  BY ONLY <1>3, <1>4, j \in 1..n
<1>6. e(0) = 0 /\ e(n) = L
  BY ONLY <1>3, <1>4
<1> HIDE DEF e
<1>7. \A j \in 1..n : part(j) \in Seq(Updates)
  BY ONLY <1>1, <1>5, PartOf DEF L
<1>8. \A c \in Seq(Updates) : KVsMessage(c) \in Messages /\ KVsMessage(c).tag = "kvs" /\ KVsMessage(c).updates = c
  BY ONLY TRUE DEF KVsMessage, Messages
<1> HIDE DEF part
<1>9. w \in Seq(Messages) /\ Len(w) = n /\ \A j \in 1..n : w[j].tag = "kvs" /\ w[j].updates = part(j)
  BY ONLY <1>2, <1>4, <1>7, <1>8
<1>10. ASSUME NEW k \in Keys, NEW T, f[k] \in T \cup {Absent}
       PROVE  Leads(w, k, T, Absent, f[k])
  <2> DEFINE Seen(m) == \E i \in 1..m : us[i].key = k
             g == [j \in 0..n |-> IF Seen(e(j)) THEN f[k] ELSE Absent]
  <2>1. \A j \in 1..n : j \in 0..n /\ j - 1 \in 0..n
    BY ONLY <1>4
  <2>2. 0 \in 0..n /\ n \in 0..n /\ ~\E i \in 1..0 : TRUE
    BY ONLY <1>4
  <2>3. Seen(L) <=> f[k] # Absent
    BY ONLY <1>1, k \in Keys, Zenon DEF Has, L
  <2>4. g[0] = Absent
    BY ONLY <1>6, <2>2, Zenon
  <2>5. g[n] = f[k]
    BY ONLY <1>6, <2>2, <2>3, Zenon
  <2>6. ASSUME NEW j \in 1..n PROVE Tells(w[j], k, T, g[j - 1], g[j])
    <3>1. After(part(j), k, IF Seen((j - 1) * M) THEN f[k] ELSE Absent, IF Seen(e(j)) THEN f[k] ELSE Absent)
      BY ONLY <1>1, <1>5, j \in 1..n, PartAfter, Zenon DEF part, L
    <3>2. After(part(j), k, g[j - 1], g[j])
      BY ONLY <3>1, <1>5, <2>1, j \in 1..n, Zenon
    <3>3. Within(part(j), k, T)
      <4> DEFINE a == (j - 1) * M
                 c == part(j)
      <4>1. a \in Nat /\ e(j) \in Nat /\ a <= e(j) /\ e(j) <= L
        BY ONLY <1>5, j \in 1..n, Zenon
      <4>2. Len(c) = e(j) - a /\ \A i \in 1..(e(j) - a) : c[i] = us[a + i]
        BY ONLY <1>1, <4>1, PartOf, Zenon DEF part, L
      <4> HIDE DEF a, c
      <4>3. \A i \in 1..(e(j) - a) : a + i \in 1..L
        BY ONLY <4>1, <1>3
      <4>4. \A i \in 1..L : us[i].key = k => us[i].value = f[k] /\ f[k] # Absent
        BY ONLY <1>1, <2>3, Zenon
      <4>5. ASSUME NEW i \in 1..Len(c), c[i].key = k PROVE c[i].value \in T
        BY ONLY <4>2, <4>3, <4>4, <4>5, <1>10
      <4> QED BY ONLY <4>5, Zenon DEF Within, c
    <3> QED BY ONLY <3>2, <3>3, <1>9, j \in 1..n, Zenon DEF Tells
  <2> HIDE DEF g
  <2> QED BY ONLY <2>4, <2>5, <2>6, <1>9, Zenon DEF Leads
<1> QED BY ONLY <1>9, <1>10, Zenon DEF w, us

(* No message, or one.                                                     *)
LEMMA LeadsOne ==
  ASSUME NEW k, NEW T, NEW x
  PROVE  /\ Leads(<<>>, k, T, x, x)
         /\ \A m, y : Tells(m, k, T, x, y) => Leads(<<m>>, k, T, x, y)
<1>1. Leads(<<>>, k, T, x, x)
  <2> DEFINE g == [i \in 0..0 |-> x]
  <2>1. g[0] = x /\ Len(<<>>) = 0 /\ ~\E i \in 1..0 : TRUE
    OBVIOUS
  <2> QED BY ONLY <2>1, Zenon DEF Leads
<1>2. ASSUME NEW m, NEW y, Tells(m, k, T, x, y) PROVE Leads(<<m>>, k, T, x, y)
  <2> DEFINE g == [i \in 0..1 |-> IF i = 0 THEN x ELSE y]
  <2>1. g[0] = x /\ g[1] = y /\ Len(<<m>>) = 1 /\ \A i \in 1..1 : i = 1 /\ i - 1 = 0 /\ <<m>>[i] = m
    OBVIOUS
  <2>2. \A i \in 1..1 : Tells(<<m>>[i], k, T, g[i - 1], g[i])
    <3> HIDE DEF g
    <3>1. ASSUME NEW i \in 1..1 PROVE Tells(<<m>>[i], k, T, g[i - 1], g[i])
      <4>1. <<m>>[i] = m /\ g[i - 1] = x /\ g[i] = y
        BY ONLY <2>1, i \in 1..1
      <4> QED BY ONLY <4>1, <1>2, Zenon
    <3> QED BY ONLY <3>1, Zenon
  <2> HIDE DEF g
  <2> QED BY ONLY <2>1, <2>2, Zenon DEF Leads
<1> QED BY ONLY <1>1, <1>2, Zenon

(* Some messages after others.                                             *)
LEMMA LeadsConcat ==
  ASSUME NEW w \in Seq(Messages), NEW u \in Seq(Messages), NEW k, NEW T, NEW x, NEW y, NEW z,
         Leads(w, k, T, x, y), Leads(u, k, T, y, z)
  PROVE  Leads(w \o u, k, T, x, z)
<1>1. PICK g : g[0] = x /\ g[Len(w)] = y /\ \A i \in 1..Len(w) : Tells(w[i], k, T, g[i - 1], g[i])
  BY ONLY Leads(w, k, T, x, y), Zenon DEF Leads
<1>2. PICK h : h[0] = y /\ h[Len(u)] = z /\ \A i \in 1..Len(u) : Tells(u[i], k, T, h[i - 1], h[i])
  BY ONLY Leads(u, k, T, y, z), Zenon DEF Leads
<1> DEFINE m == Len(w)
           n == Len(u)
           v == w \o u
           f == [i \in 0..(m + n) |-> IF i <= m THEN g[i] ELSE h[i - m]]
<1>3. /\ m \in Nat /\ n \in Nat /\ Len(v) = m + n
      /\ \A i \in 1..(m + n) : v[i] = IF i <= m THEN w[i] ELSE u[i - m]
  OBVIOUS
<1> HIDE DEF m, n, v
<1>4. f[0] = x
  <2>1. 0 \in 0..(m + n) /\ 0 <= m
    BY ONLY <1>3
  <2> QED BY ONLY <2>1, <1>1, Zenon
<1>5. f[m + n] = z
  <2>1. m + n \in 0..(m + n) /\ (m + n <= m => n = 0 /\ m + n = m) /\ (m + n) - m = n
    BY ONLY <1>3
  <2>2. CASE m + n <= m
    BY ONLY <2>1, <2>2, <1>1, <1>2, Zenon DEF m, n
  <2>3. CASE ~(m + n <= m)
    BY ONLY <2>1, <2>3, <1>2, Zenon DEF n
  <2> QED BY ONLY <2>2, <2>3, Zenon
<1>6. ASSUME NEW i \in 1..(m + n) PROVE Tells(v[i], k, T, f[i - 1], f[i])
  <2>1. i \in 0..(m + n) /\ i - 1 \in 0..(m + n)
    BY ONLY <1>3, i \in 1..(m + n)
  <2>2. CASE i <= m
    <3>1. i \in 1..m /\ i - 1 <= m
      BY ONLY <1>3, <2>2, i \in 1..(m + n)
    <3>2. v[i] = w[i]
      BY ONLY <1>3, <2>2, i \in 1..(m + n), Zenon
    <3>3. f[i] = g[i] /\ f[i - 1] = g[i - 1]
      BY ONLY <2>1, <2>2, <3>1, Zenon
    <3> QED BY ONLY <3>1, <3>2, <3>3, <1>1, Zenon DEF m
  <2>3. CASE ~(i <= m)
    <3>1. i - m \in 1..n /\ (i - 1) - m = (i - m) - 1 /\ (i - 1 <= m => (i - m) - 1 = 0 /\ i - 1 = m)
      BY ONLY <1>3, <2>3, i \in 1..(m + n)
    <3>2. v[i] = u[i - m] /\ f[i] = h[i - m]
      BY ONLY <1>3, <2>1, <2>3, i \in 1..(m + n), Zenon
    <3>3. f[i - 1] = h[(i - m) - 1]
      <4>1. CASE i - 1 <= m
        <5>1. f[i - 1] = g[m]
          BY ONLY <4>1, <2>1, <3>1, Zenon
        <5> QED BY ONLY <5>1, <4>1, <3>1, <1>1, <1>2, Zenon DEF m
      <4>2. CASE ~(i - 1 <= m)
        BY ONLY <4>2, <2>1, <3>1, Zenon
      <4> QED BY ONLY <4>1, <4>2, Zenon
    <3> QED BY ONLY <3>1, <3>2, <3>3, <1>2, Zenon DEF n
  <2> QED BY ONLY <2>2, <2>3, Zenon
<1> HIDE DEF f
<1> QED BY ONLY <1>3, <1>4, <1>5, <1>6, Zenon DEF Leads, v

(* What the first message does, and then the others.                       *)
LEMMA LeadsTail ==
  ASSUME NEW w \in Seq(Messages), w # <<>>, NEW k, NEW T, NEW x, NEW z, Leads(w, k, T, x, z)
  PROVE  \E y : Tells(Head(w), k, T, x, y) /\ Leads(Tail(w), k, T, y, z)
<1>1. PICK g : g[0] = x /\ g[Len(w)] = z /\ \A i \in 1..Len(w) : Tells(w[i], k, T, g[i - 1], g[i])
  BY ONLY Leads(w, k, T, x, z), Zenon DEF Leads
<1> DEFINE n == Len(w)
           v == Tail(w)
           f == [i \in 0..(n - 1) |-> g[i + 1]]
<1>2. /\ n \in Nat /\ n >= 1 /\ Head(w) = w[1] /\ Len(v) = n - 1
      /\ \A i \in 1..(n - 1) : v[i] = w[i + 1]
  OBVIOUS
<1> HIDE DEF n, v
<1>3. Tells(Head(w), k, T, x, g[1])
  <2>1. 1 \in 1..n /\ 1 - 1 = 0
    BY ONLY <1>2
  <2> QED BY ONLY <2>1, <1>1, <1>2, Zenon DEF n
<1>4. f[0] = g[1] /\ f[n - 1] = z
  <2>1. 0 \in 0..(n - 1) /\ n - 1 \in 0..(n - 1) /\ 0 + 1 = 1 /\ (n - 1) + 1 = n
    BY ONLY <1>2
  <2> QED BY ONLY <2>1, <1>1, Zenon DEF n
<1>5. ASSUME NEW i \in 1..(n - 1) PROVE Tells(v[i], k, T, f[i - 1], f[i])
  <2>1. i \in 0..(n - 1) /\ i - 1 \in 0..(n - 1) /\ i + 1 \in 1..n /\ (i - 1) + 1 = (i + 1) - 1
    BY ONLY <1>2, i \in 1..(n - 1)
  <2>2. f[i] = g[i + 1] /\ f[i - 1] = g[(i + 1) - 1] /\ v[i] = w[i + 1]
    BY ONLY <2>1, <1>2, i \in 1..(n - 1), Zenon
  <2> QED BY ONLY <2>1, <2>2, <1>1, Zenon DEF n
<1> HIDE DEF f
<1>6. Leads(v, k, T, g[1], z)
  BY ONLY <1>2, <1>4, <1>5, Zenon DEF Leads
<1> QED BY ONLY <1>3, <1>6, Zenon DEF v

(* T may grow.                                                             *)
LEMMA LeadsMore ==
  ASSUME NEW w, NEW k, NEW T, NEW U, T \subseteq U, NEW x, NEW y, Leads(w, k, T, x, y)
  PROVE  Leads(w, k, U, x, y)
<1>1. PICK g : g[0] = x /\ g[Len(w)] = y /\ \A i \in 1..Len(w) : Tells(w[i], k, T, g[i - 1], g[i])
  BY ONLY Leads(w, k, T, x, y), Zenon DEF Leads
<1>2. ASSUME NEW i \in 1..Len(w) PROVE Tells(w[i], k, U, g[i - 1], g[i])
  BY <1>1, Zenon DEF Tells, Within
<1> QED BY ONLY <1>1, <1>2, Zenon DEF Leads

(* What is on the wire takes k from x to y.                                *)
LEMMA WireAfter ==
  ASSUME wire \in Seq(Messages), NEW k, NEW T, NEW x, NEW y, Leads(wire, k, T, x, y)
  PROVE  OnWire \in Seq(Updates) /\ After(OnWire, k, x, y)
<1>1. PICK g : g[0] = x /\ g[Len(wire)] = y /\ \A i \in 1..Len(wire) : Tells(wire[i], k, T, g[i - 1], g[i])
  BY ONLY Leads(wire, k, T, x, y), Zenon DEF Leads
<1> DEFINE part(i) == IF wire[i].tag = "kvs" THEN wire[i].updates ELSE <<>>
           ss == [i \in DOMAIN wire |-> part(i)]
<1>2. DOMAIN wire = 1..Len(wire) /\ Len(wire) \in Nat
  OBVIOUS
<1>3. \A i \in 1..Len(wire) : part(i) \in Seq(Updates)
  BY DEF Messages
<1>4. OnWire = Flat(ss)
  BY ONLY Zenon DEF OnWire
<1> HIDE DEF part
<1>5. ss \in Seq(Seq(Updates)) /\ Len(ss) = Len(wire) /\ \A i \in 1..Len(wire) : ss[i] = part(i)
  BY ONLY <1>2, <1>3
<1> HIDE DEF ss
<1>6. ASSUME NEW i \in 1..Len(ss) PROVE After(ss[i], k, g[i - 1], g[i])
  <2>1. Tells(wire[i], k, T, g[i - 1], g[i]) /\ ss[i] = part(i)
    BY ONLY <1>1, <1>5, i \in 1..Len(ss), Zenon
  <2>2. CASE wire[i].tag = "kvs"
    BY ONLY <2>1, <2>2, Zenon DEF Tells, part
  <2>3. CASE wire[i].tag # "kvs"
    <3>1. ss[i] = <<>> /\ g[i - 1] = g[i]
      BY ONLY <2>1, <2>3, Zenon DEF Tells, part
    <3>2. Len(<<>>) = 0 /\ ~\E j \in 1..0 : TRUE
      BY ONLY TRUE
    <3> QED BY ONLY <3>1, <3>2, Zenon DEF After, To
  <2> QED BY ONLY <2>2, <2>3, Zenon
<1>7. Flat(ss) \in Seq(Updates) /\ After(Flat(ss), k, g[0], g[Len(ss)])
  BY ONLY <1>5, <1>6, FlatAfter, Zenon
<1> QED BY ONLY <1>1, <1>4, <1>5, <1>7, Zenon

=============================================================================
