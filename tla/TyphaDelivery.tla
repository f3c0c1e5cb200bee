--------------------------- MODULE TyphaDelivery ---------------------------
(***************************************************************************)
(* What a consumer fed by Typha ends up with.  Nothing is lost between the *)
(* cache's breadcrumbs and the sink, and a sink that is told InSync has    *)
(* nothing from before this connection's snapshot and all that the         *)
(* datastore held, for any keys, values, batch and message sizes, and      *)
(* however the cache, the server, the client and the sender interleave     *)
(* with failures.                                                          *)
(***************************************************************************)
EXTENDS TyphaLink

-----------------------------------------------------------------------------
(* The connection, continued: it begins, breaks, and is served.            *)

(* A connection begins.                                                    *)
LEMMA ConnectKeepsLink ==
  ASSUME LiveInv, LinkInv, Connect \/ SayWaiting
  PROVE  LinkInv'
<1>1. Linking
  BY DEF LinkInv
<1>2. /\ conn \in {"restarted", "dialing"} /\ UNCHANGED <<wire, sent>>
      /\ \/ conn' = "greeting" /\ OnStatusUpdated("ResyncInProgress")
         \/ conn' = "dialing" /\ OnStatusUpdated("WaitForDatastore")
  BY DEF Connect, SayWaiting
<1>3. ASSUME NEW s \in Statuses, OnStatusUpdated(s), s # "InSync"
      PROVE  recent' = s /\ unseen' = unseen /\ resyncing' = resyncing /\ \A k \in Keys : Held(k)' = Held(k)
  <2>1. unseen # {} => resyncing
    BY ONLY <1>1 DEF Linking
  <2> QED BY ONLY <1>3, <2>1, LiveInv, StatusHeld, Zenon
<1>4. /\ unseen' = unseen /\ resyncing' = resyncing /\ \A k \in Keys : Held(k)' = Held(k)
      /\ conn' = "greeting" => recent' = "ResyncInProgress"
  <2>1. CASE conn' = "greeting" /\ OnStatusUpdated("ResyncInProgress")
    BY ONLY <1>3, <2>1 DEF Statuses
  <2>2. CASE conn' = "dialing" /\ OnStatusUpdated("WaitForDatastore")
    BY ONLY <1>3, <2>2 DEF Statuses
  <2> QED BY ONLY <1>2, <2>1, <2>2
<1>5. Linking' /\ conn' # "following"
  BY ONLY <1>1, <1>2, <1>4 DEF Linking
<1> QED BY ONLY <1>5 DEF LinkInv

(* A client that has lost its connection knows of no key.                  *)
LEMMA RestartedKeepsLink ==
  ASSUME LiveInv, LinkInv, Restarted
  PROVE  LinkInv'
<1>1. Linking /\ BatchOK
  BY LiveInvParts DEF LinkInv
<1>2. /\ conn' = "restarted" /\ UNCHANGED <<wire, sent, live, batch, view>>
      /\ queue' = <<>> /\ unseen' = live /\ resyncing' = TRUE
  BY DEF Restarted, OnTyphaConnectionRestarted, sink
<1>3. ASSUME NEW k \in Keys PROVE Held(k)' = Absent
  <2>1. CASE k \in live
    BY ONLY <1>2, <2>1 DEF Held
  <2>2. CASE k \notin live
    <3>1. Base(k) = Absent
      BY ONLY <1>1, <2>2, k \in Keys, BaseLive, Zenon
    <3>2. Base(k)' = Base(k)
      BY ONLY <1>2 DEF Base, Pending, ValueIn
    <3>3. ~Pending(queue, k)'
      <4>1. DOMAIN queue' = {}
        BY ONLY <1>2
      <4> QED BY ONLY <4>1, Zenon DEF Pending
    <3>4. Told(queue, k)' = Base(k)'
      BY ONLY <3>3, Zenon DEF Told
    <3> QED BY ONLY <1>2, <2>2, <3>1, <3>2, <3>4 DEF Held
  <2> QED BY ONLY <2>1, <2>2
<1>4. Linking' /\ conn' # "following"
  BY ONLY <1>1, <1>2, <1>3 DEF Linking
<1> QED BY ONLY <1>4 DEF LinkInv

(* A connection ends.                                                      *)
LEMMA FaultsKeepLink ==
  ASSUME LinkInv, Faults
  PROVE  LinkInv'
<1>1. Linking /\ UNCHANGED buf
  BY DEF LinkInv, Faults, ConnectionLost, TyphaRestart
<1>2. (\A k : Held(k)' = Held(k)) /\ unseen' = unseen /\ resyncing' = resyncing
  BY ONLY <1>1, BufSame, Zenon DEF buf
<1>3. CASE conn' = "down" /\ sent' = "WaitForDatastore" /\ wire' = <<>>
  <2>1. Linking' /\ conn' # "following"
    BY ONLY <1>1, <1>2, <1>3 DEF Linking, Statuses
  <2> QED BY ONLY <2>1 DEF LinkInv
<1>4. CASE conn \notin {"greeting", "following"} /\ UNCHANGED <<conn, sent, wire>>
  <2>1. Linking' /\ conn' # "following"
    BY ONLY <1>1, <1>2, <1>4 DEF Linking
  <2> QED BY ONLY <2>1 DEF LinkInv
<1> QED BY <1>3, <1>4 DEF Faults, ConnectionLost, TyphaRestart, Disconnected

(* maybeSendStatus: a status is told of the full picture.                  *)
LEMMA StatusLeads ==
  ASSUME NEW last, NEW s \in Statuses, NEW k, NEW T, NEW x, s = "InSync" => x \in T
  PROVE  maybeSendStatus(last, s) \in Seq(Messages) /\ Leads(maybeSendStatus(last, s), k, T, x, x)
<1>1. CASE last = s
  <2>1. maybeSendStatus(last, s) = <<>>
    BY ONLY <1>1, Zenon DEF maybeSendStatus
  <2>2. <<>> \in Seq(Messages)
    OBVIOUS
  <2> QED BY ONLY <2>1, <2>2, LeadsOne, Zenon
<1>2. CASE last # s
  <2> DEFINE m == StatusMessage(s)
  <2>1. maybeSendStatus(last, s) = <<m>>
    BY ONLY <1>2, Zenon DEF maybeSendStatus
  <2>2. m \in Messages /\ m.tag # "kvs" /\ m.status = s
    BY DEF StatusMessage, Messages
  <2> HIDE DEF m
  <2>3. Tells(m, k, T, x, x)
    BY ONLY <2>2, s = "InSync" => x \in T DEF Tells
  <2>4. <<m>> \in Seq(Messages)
    BY ONLY <2>2
  <2> QED BY ONLY <2>1, <2>3, <2>4, LeadsOne, Zenon
<1> QED BY ONLY <1>1, <1>2

(* What a crumb has of a key that has not changed.                         *)
LEMMA CrumbFull ==
  ASSUME FullInv, NEW i \in 1..Len(crumbs), NEW k \in Keys, k \notin touched
  PROVE  /\ crumbs[i].kvs[k] \in {Absent, src[k]} /\ Within(crumbs[i].deltas, k, {src[k]})
         /\ crumbs[i].status = "InSync" => crumbs[i].kvs[k] = src[k]
<1>1. Full(k, src[k], inputC, pendingStatus, pendingUpdates, kvs, crumbs, unsent)
  BY ONLY FullInv, k \in Keys, k \notin touched, Zenon DEF FullInv
<1> QED BY ONLY <1>1, i \in 1..Len(crumbs), Zenon DEF Full

(* The types of a crumb.                                                   *)
LEMMA CrumbTyped ==
  ASSUME CacheTypeOK, NEW i \in 1..Len(crumbs)
  PROVE  /\ crumbs[i].kvs \in [Keys -> Contents] /\ crumbs[i].deltas \in Seq(Updates)
         /\ crumbs[i].status \in Statuses
<1>1. crumbs[i] \in Crumbs
  BY DEF CacheTypeOK
<1> QED BY ONLY <1>1 DEF Crumbs

(* The snapshot of a crumb, then its status.                               *)
LEMMA StartKeepsLink ==
  ASSUME CacheInv, FullInv, LinkInv, conn = "greeting", NEW i \in 1..Len(crumbs), StartFrom(i)
  PROVE  LinkInv'
<1> DEFINE f == crumbs[i].kvs
           s == crumbs[i].status
           w == Chunks(Snapshot(f))
           u == maybeSendStatus("WaitForDatastore", s)
<1>1. Linking /\ CacheTypeOK
  BY DEF LinkInv, CacheInv
<1>2. /\ conn' = "following" /\ from' = i /\ at' = i /\ sent' = s /\ wire' = w \o u
      /\ UNCHANGED <<crumbs, src, touched>> /\ UNCHANGED buf
  BY DEF StartFrom, cacheVars, upstream
<1>3. f \in [Keys -> Contents] /\ s \in Statuses
  BY ONLY <1>1, i \in 1..Len(crumbs), CrumbTyped, Zenon
<1>4. /\ \A k \in Keys : Held(k)' = Absent
      /\ recent' # "InSync" /\ unseen' = unseen /\ resyncing' = resyncing
  <2>1. (\A k \in Keys : Held(k) = Absent) /\ recent = "ResyncInProgress"
    BY <1>1 DEF Linking
  <2>2. \A k : Held(k)' = Held(k)
    BY ONLY <1>2, BufSame, Zenon
  <2> QED BY ONLY <1>2, <2>1, <2>2 DEF buf
<1>5. ASSUME NEW k \in Keys
      PROVE  /\ f[k] \in Trail(k)' /\ f[k] \in Fit(k)' \cup {Absent}
             /\ s = "InSync" => f[k] \in Fit(k)'
  <2>1. f[k] \in Contents
    BY <1>3
  <2>2. crumbs'[from'].kvs[k] = f[k]
    BY ONLY <1>2
  <2>3. f[k] \in Trail(k)'
    BY ONLY <2>1, <2>2, Zenon DEF Trail, Contents
  <2>4. k \notin touched => f[k] \in {Absent, src[k]} /\ (s = "InSync" => f[k] = src[k])
    BY ONLY FullInv, i \in 1..Len(crumbs), k \in Keys, CrumbFull, Zenon
  <2>5. k \in touched \/ f[k] = src[k] => f[k] \in Fit(k)'
    BY ONLY <1>2, <2>3 DEF Fit
  <2> QED BY ONLY <2>3, <2>4, <2>5
<1>6. w \in Seq(Messages) /\ u \in Seq(Messages)
  <2>1. w \in Seq(Messages)
    BY ONLY <1>3, ChunksOK, Zenon
  <2>2. u \in Seq(Messages)
    BY <1>3, StatusLeads, Zenon
  <2> QED BY ONLY <2>1, <2>2
<1>7. ASSUME NEW k \in Keys PROVE Leads(wire', k, Fit(k)', Held(k)', crumbs'[at'].kvs[k])
  <2> DEFINE T == Fit(k)'
  <2>1. f[k] \in T \cup {Absent} /\ (s = "InSync" => f[k] \in T)
    BY ONLY <1>5, k \in Keys
  <2> HIDE DEF T
  <2>2. Leads(w, k, T, Absent, f[k])
    BY ONLY <2>1, <1>3, k \in Keys, ChunksOK, Zenon
  <2>3. Leads(u, k, T, f[k], f[k])
    BY ONLY <2>1, <1>3, StatusLeads, Zenon
  <2>4. Leads(w \o u, k, T, Absent, f[k])
    BY ONLY <1>6, <2>2, <2>3, LeadsConcat, Zenon
  <2>5. crumbs'[at'].kvs[k] = f[k] /\ Held(k)' = Absent /\ wire' = w \o u
    BY ONLY <1>2, <1>4, k \in Keys
  <2> QED BY ONLY <2>4, <2>5 DEF T
<1> HIDE DEF w, u
<1>8. from' \in 1..at' /\ at' \in 1..Len(crumbs')
  <2>1. i \in 1..i /\ i \in 1..Len(crumbs)
    BY <1>1 DEF CacheTypeOK
  <2> QED BY ONLY <1>2, <2>1
<1>9. \A k \in Keys : crumbs'[at'].kvs[k] \in Trail(k)'
  BY ONLY <1>2, <1>5
<1>10. wire' \in Seq(Messages)
  BY ONLY <1>2, <1>6
<1>11. Linking'
  BY ONLY <1>1, <1>2, <1>3, <1>4, <1>10 DEF Linking
<1>12. Following'
  BY ONLY <1>4, <1>7, <1>8, <1>9, FollowingNext, Zenon
<1> QED BY ONLY <1>11, <1>12 DEF LinkInv

(* The deltas of the crumbs after i, to j, lead from one to the other.     *)
LEMMA DeltasAfter ==
  ASSUME CacheInv, NEW i \in 1..Len(crumbs), NEW j \in (i + 1)..Len(crumbs)
  PROVE  /\ DeltasOf(i, j) \in Seq(Updates)
         /\ \A k \in Keys : After(DeltasOf(i, j), k, crumbs[i].kvs[k], crumbs[j].kvs[k])
         /\ \A k, T : (\A n \in (i + 1)..j : Within(crumbs[n].deltas, k, T)) => Within(DeltasOf(i, j), k, T)
<1> DEFINE m == j - i
           ss == [n \in 1..m |-> crumbs[i + n].deltas]
<1>1. CacheTypeOK /\ Linked(crumbs) /\ Len(crumbs) \in Nat
  BY DEF CacheInv, CacheTypeOK
<1>2. /\ m \in Nat /\ i + 0 = i /\ i + m = j /\ m \in 0..m /\ 0 \in 0..m
      /\ \A n \in 1..m : /\ i + n \in 2..Len(crumbs) /\ i + n \in 1..Len(crumbs) /\ i + n \in (i + 1)..j
                         /\ (i + n) - 1 = i + (n - 1) /\ n \in 0..m /\ n - 1 \in 0..m
  BY ONLY <1>1, i \in 1..Len(crumbs), j \in (i + 1)..Len(crumbs)
<1>3. DeltasOf(i, j) = Flat(ss)
  BY ONLY Zenon DEF DeltasOf
<1> HIDE DEF m
<1>4. \A n \in 1..m : crumbs[i + n].deltas \in Seq(Updates)
  BY ONLY <1>1, <1>2, CrumbTyped, Zenon
<1>5. ss \in Seq(Seq(Updates)) /\ Len(ss) = m /\ \A n \in 1..m : ss[n] = crumbs[i + n].deltas
  BY ONLY <1>2, <1>4
<1> HIDE DEF ss
<1>6. /\ Flat(ss) \in Seq(Updates)
      /\ \A k, g : (\A n \in 1..m : After(ss[n], k, g[n - 1], g[n])) => After(Flat(ss), k, g[0], g[m])
      /\ \A k, T : (\A n \in 1..m : Within(ss[n], k, T)) => Within(Flat(ss), k, T)
  <2>1. /\ Flat(ss) \in Seq(Updates)
        /\ \A k, g : (\A n \in 1..Len(ss) : After(ss[n], k, g[n - 1], g[n]))
                        => After(Flat(ss), k, g[0], g[Len(ss)])
        /\ \A k, T : (\A n \in 1..Len(ss) : Within(ss[n], k, T)) => Within(Flat(ss), k, T)
    BY ONLY <1>5, FlatAfter, Zenon
  <2> QED BY ONLY <2>1, <1>5
<1>7. ASSUME NEW k \in Keys PROVE After(Flat(ss), k, crumbs[i].kvs[k], crumbs[j].kvs[k])
  <2> DEFINE g == [n \in 0..m |-> crumbs[i + n].kvs[k]]
  <2>1. \A n \in 0..m : g[n] = crumbs[i + n].kvs[k]
    OBVIOUS
  <2> HIDE DEF g
  <2>2. ASSUME NEW n \in 1..m PROVE After(ss[n], k, g[n - 1], g[n])
    <3>1. After(crumbs[i + n].deltas, k, crumbs[(i + n) - 1].kvs[k], crumbs[i + n].kvs[k])
      BY ONLY <1>1, <1>2, n \in 1..m, k \in Keys, Zenon DEF Linked
    <3>2. /\ ss[n] = crumbs[i + n].deltas /\ g[n] = crumbs[i + n].kvs[k]
          /\ g[n - 1] = crumbs[i + (n - 1)].kvs[k] /\ (i + n) - 1 = i + (n - 1)
      BY ONLY <1>2, <1>5, <2>1, n \in 1..m, Zenon
    <3> QED BY ONLY <3>1, <3>2
  <2>3. After(Flat(ss), k, g[0], g[m])
    BY ONLY <1>6, <2>2, Zenon
  <2>4. g[0] = crumbs[i].kvs[k] /\ g[m] = crumbs[j].kvs[k]
    BY ONLY <1>2, <2>1
  <2> QED BY ONLY <2>3, <2>4
<1>8. ASSUME NEW k, NEW T, \A n \in (i + 1)..j : Within(crumbs[n].deltas, k, T) PROVE Within(Flat(ss), k, T)
  <2>1. \A n \in 1..m : Within(ss[n], k, T)
    BY ONLY <1>2, <1>5, <1>8, Zenon
  <2> QED BY ONLY <2>1, <1>6, Zenon
<1> QED BY ONLY <1>3, <1>6, <1>7, <1>8, Zenon

(* The message of the deltas, when there are any.                          *)
LEMMA DeltasLead ==
  ASSUME NEW ds \in Seq(Updates), NEW k, NEW T, NEW x, NEW y, After(ds, k, x, y), Within(ds, k, T),
         NEW w, w = IF ds = <<>> THEN <<>> ELSE <<KVsMessage(ds)>>
  PROVE  Leads(w, k, T, x, y)
<1>1. CASE ds = <<>>
  <2>1. w = <<>>
    BY <1>1
  <2>2. ~\E i \in 1..Len(ds) : ds[i].key = k
    BY <1>1
  <2>3. x = y
    BY <2>2, AfterNone, Zenon DEF Has
  <2> QED BY ONLY <2>1, <2>3, LeadsOne, Zenon
<1>2. CASE ds # <<>>
  <2> DEFINE m == KVsMessage(ds)
  <2>1. w = <<m>>
    BY <1>2
  <2>2. m.tag = "kvs" /\ m.updates = ds
    BY DEF KVsMessage
  <2> HIDE DEF m
  <2>3. Tells(m, k, T, x, y)
    BY ONLY <2>2, After(ds, k, x, y), Within(ds, k, T) DEF Tells
  <2> QED BY ONLY <2>1, <2>3, LeadsOne, Zenon
<1> QED BY ONLY <1>1, <1>2

(* It is a message.                                                        *)
LEMMA DeltasTyped ==
  ASSUME NEW ds \in Seq(Updates)
  PROVE  (IF ds = <<>> THEN <<>> ELSE <<KVsMessage(ds)>>) \in Seq(Messages)
<1>1. KVsMessage(ds) \in Messages
  BY DEF KVsMessage, Messages
<1> QED BY ONLY <1>1

(* sendDeltaUpdatesToClient.                                               *)
LEMMA DeltasKeepLink ==
  ASSUME CacheInv, FullInv, LinkInv, SendDeltas
  PROVE  LinkInv'
<1>1. Linking /\ Following /\ CacheTypeOK /\ Len(crumbs) \in Nat
  BY DEF LinkInv, CacheInv, SendDeltas, CacheTypeOK
<1>2. PICK j \in (at + 1)..Len(crumbs) :
        /\ wire' = wire \o (IF DeltasOf(at, j) = <<>> THEN <<>> ELSE <<KVsMessage(DeltasOf(at, j))>>)
                        \o maybeSendStatus(sent, crumbs[j].status)
        /\ sent' = crumbs[j].status
        /\ at' = j
  BY Zenon DEF SendDeltas
<1>3. conn' = "following" /\ UNCHANGED <<crumbs, from, src, touched>> /\ UNCHANGED buf
  BY DEF SendDeltas, cacheVars, upstream
<1> DEFINE D == DeltasOf(at, j)
           s == crumbs[j].status
           m == IF D = <<>> THEN <<>> ELSE <<KVsMessage(D)>>
           u == maybeSendStatus(sent, s)
<1>4. from \in 1..at /\ at \in 1..Len(crumbs)
  BY ONLY <1>1, Zenon DEF Following
<1>5. j \in 1..Len(crumbs) /\ from \in 1..j /\ at <= j /\ at' \in Nat
  BY ONLY <1>1, <1>2, <1>4
<1>6. s \in Statuses
  BY ONLY <1>1, <1>5, CrumbTyped, Zenon
<1>7. /\ D \in Seq(Updates)
      /\ \A k \in Keys : After(D, k, crumbs[at].kvs[k], crumbs[j].kvs[k])
      /\ \A k, T : (\A n \in (at + 1)..j : Within(crumbs[n].deltas, k, T)) => Within(D, k, T)
  BY ONLY <1>4, <1>2, CacheInv, DeltasAfter, Zenon
<1>8. m \in Seq(Messages) /\ wire \in Seq(Messages)
  BY ONLY <1>1, <1>7, DeltasTyped, Zenon DEF Linking
<1>9. u \in Seq(Messages)
  BY <1>6, StatusLeads, Zenon
<1>10. wire' = (wire \o m) \o u
  BY ONLY <1>2
<1>11. \A k \in Keys : Trail(k) \subseteq Trail(k)' /\ Fit(k) \subseteq Fit(k)'
  <2>1. \A i \in 1..Len(crumbs) : crumbs'[i] = crumbs[i]
    BY ONLY <1>3
  <2>2. from' = from /\ touched \subseteq touched' /\ (\A k : k \notin touched' => src'[k] = src[k]) /\ at <= at'
    BY ONLY <1>2, <1>3, <1>5
  <2> QED BY ONLY <1>1, <1>4, <1>5, <2>1, <2>2, FitGrows, Zenon
<1>12. ASSUME NEW k \in Keys, NEW n \in (at + 1)..j
       PROVE  Within(crumbs[n].deltas, k, Trail(k)') /\ Within(crumbs[n].deltas, k, Fit(k)')
  <2>1. n \in 1..Len(crumbs) /\ n \in (from' + 1)..at'
    BY ONLY <1>1, <1>2, <1>3, <1>4, <1>5, n \in (at + 1)..j
  <2>2. crumbs[n].deltas \in Seq(Updates)
    BY ONLY <1>1, <2>1, CrumbTyped, Zenon
  <2>3. ASSUME NEW i \in 1..Len(crumbs[n].deltas), crumbs[n].deltas[i].key = k
        PROVE  crumbs[n].deltas[i].value \in Trail(k)' /\ crumbs[n].deltas[i].value \in Fit(k)'
    <3> DEFINE v == crumbs[n].deltas[i].value
    <3>1. v \in Contents /\ i \in DOMAIN crumbs[n].deltas
      <4> DEFINE ds == crumbs[n].deltas
      <4>1. ds \in Seq(Updates) /\ i \in 1..Len(ds)
        BY ONLY <2>2, i \in 1..Len(crumbs[n].deltas)
      <4> HIDE DEF ds
      <4>2. ds[i] \in Updates /\ i \in DOMAIN ds
        BY ONLY <4>1
      <4>3. \A e \in Updates : e.value \in Contents
        BY ONLY TRUE DEF Updates
      <4> QED BY ONLY <4>2, <4>3, Zenon DEF ds
    <3>2. crumbs'[n].deltas[i].key = k /\ crumbs'[n].deltas[i].value = v /\ i \in DOMAIN crumbs'[n].deltas
      BY ONLY <1>3, <2>3, <3>1
    <3>3. k \notin touched => v = src[k]
      <4>1. ASSUME k \notin touched PROVE v \in {src[k]}
        <5>1. Within(crumbs[n].deltas, k, {src[k]})
          BY ONLY FullInv, <2>1, <4>1, k \in Keys, CrumbFull, Zenon
        <5> QED BY ONLY <5>1, <2>3, i \in 1..Len(crumbs[n].deltas), Zenon DEF Within
      <4> QED BY ONLY <4>1
    <3> HIDE DEF v
    <3>4. v \in Trail(k)'
      BY ONLY <2>1, <3>1, <3>2, Zenon DEF Trail, Contents
    <3>5. v \in Fit(k)'
      BY ONLY <1>3, <3>3, <3>4 DEF Fit
    <3> QED BY ONLY <3>4, <3>5 DEF v
  <2> QED BY ONLY <2>3, Zenon DEF Within
<1> HIDE DEF m, u, D
<1>13. ASSUME NEW k \in Keys
       PROVE  crumbs[j].kvs[k] \in Trail(k)' /\ Leads(wire', k, Fit(k)', Held(k)', crumbs[j].kvs[k])
  <2> DEFINE T == Fit(k)'
             R == Trail(k)'
             x == crumbs[at].kvs[k]
             y == crumbs[j].kvs[k]
  <2>1. x \in R /\ Leads(wire, k, Fit(k), Held(k), x) /\ Fit(k) \subseteq T
    <3>1. x \in Trail(k) /\ Leads(wire, k, Fit(k), Held(k), x)
      BY ONLY <1>1, k \in Keys, Zenon DEF Following
    <3> QED BY ONLY <3>1, <1>11, k \in Keys
  <2>2. After(D, k, x, y) /\ Within(D, k, R) /\ Within(D, k, T)
    BY ONLY <1>7, <1>12, k \in Keys, Zenon
  <2>3. s = "InSync" /\ k \notin touched => y = src[k]
    BY ONLY FullInv, <1>5, k \in Keys, CrumbFull, Zenon
  <2>4. y \in R
    <3> HIDE DEF R, x, y
    <3> QED BY ONLY <2>1, <2>2, <1>7, AfterWithin, Zenon
  <2>5. s = "InSync" => y \in T
    BY ONLY <2>3, <2>4, <1>3 DEF Fit
  <2>6. Held(k)' = Held(k)
    BY ONLY <1>3, BufSame, Zenon
  <2> HIDE DEF T, x, y
  <2>7. Leads(wire, k, T, Held(k), x)
    BY ONLY <2>1, LeadsMore, Zenon
  <2>8. Leads(m, k, T, x, y)
    <3>1. m = IF D = <<>> THEN <<>> ELSE <<KVsMessage(D)>>
      BY ONLY Zenon DEF m
    <3> QED BY ONLY <1>7, <2>2, <3>1, DeltasLead, Zenon
  <2>9. Leads(u, k, T, y, y)
    BY ONLY <1>6, <2>5, StatusLeads, Zenon DEF u
  <2>10. Leads(wire \o m, k, T, Held(k), y) /\ wire \o m \in Seq(Messages)
    <3>1. wire \o m \in Seq(Messages)
      BY ONLY <1>8
    <3>2. Leads(wire \o m, k, T, Held(k), y)
      BY ONLY <1>8, <2>7, <2>8, LeadsConcat, Zenon
    <3> QED BY ONLY <3>1, <3>2
  <2>11. Leads((wire \o m) \o u, k, T, Held(k), y)
    BY ONLY <1>9, <2>9, <2>10, LeadsConcat, Zenon
  <2> QED BY ONLY <1>10, <2>4, <2>6, <2>11 DEF T, y
<1>14. ASSUME recent' = "InSync"
       PROVE  /\ resyncing' = FALSE
              /\ \A k \in Keys : Told(queue, k)' \in Fit(k)' /\ \A T : T = Fit(k)' => InTime(queue, k, T)'
  <2>1. recent = "InSync" /\ resyncing' = resyncing
    BY ONLY <1>3, <1>14 DEF buf
  <2>2. resyncing = FALSE /\ \A k \in Keys : Told(queue, k) \in Fit(k) /\ InTime(queue, k, Fit(k))
    BY ONLY <1>1, <2>1, Zenon DEF Following
  <2>3. /\ \A k : Told(queue, k)' = Told(queue, k)
        /\ \A k, T : InTime(queue, k, T)' <=> InTime(queue, k, T)
    BY ONLY <1>3, BufSame, Zenon
  <2>4. \A k \in Keys : Told(queue, k)' \in Fit(k)'
    BY ONLY <1>11, <2>2, <2>3
  <2>5. ASSUME NEW k \in Keys, NEW T, T = Fit(k)' PROVE InTime(queue, k, T)'
    <3>1. Fit(k) \subseteq T /\ InTime(queue, k, Fit(k))
      BY ONLY <1>11, <2>2, <2>5, k \in Keys
    <3>2. InTime(queue, k, T)
      BY ONLY <3>1, InTimeMore, Zenon
    <3> QED BY ONLY <3>2, <2>3, Zenon
  <2> QED BY ONLY <2>1, <2>2, <2>4, <2>5, Zenon
<1>15. from' \in 1..at' /\ at' \in 1..Len(crumbs')
  BY ONLY <1>2, <1>3, <1>5
<1>16. /\ \A k \in Keys : crumbs'[at'].kvs[k] \in Trail(k)'
       /\ \A k \in Keys : Leads(wire', k, Fit(k)', Held(k)', crumbs'[at'].kvs[k])
  <2>1. crumbs'[at'] = crumbs[j]
    BY ONLY <1>2, <1>3
  <2> QED BY ONLY <1>13, <2>1
<1>17. Following'
  BY ONLY <1>14, <1>15, <1>16, FollowingNext, Zenon
<1>18. wire' \in Seq(Messages) /\ sent' \in Statuses
  <2>1. wire \o m \in Seq(Messages)
    BY ONLY <1>8
  <2>2. wire' \in Seq(Messages)
    BY ONLY <1>9, <1>10, <2>1
  <2>3. sent' = s
    BY ONLY <1>2, Zenon
  <2> QED BY ONLY <1>6, <2>2, <2>3
<1>19. Linking'
  BY ONLY <1>1, <1>3, <1>18 DEF Linking, buf
<1> QED BY ONLY <1>17, <1>19 DEF LinkInv

(* The cache's goroutine only adds to the trail.                           *)
LEMMA TrailGrows ==
  ASSUME CacheTypeOK, Typha!Cache
  PROVE  /\ \A i \in 1..Len(crumbs) : crumbs'[i] = crumbs[i]
         /\ Len(crumbs') \in Nat /\ Len(crumbs) <= Len(crumbs')
<1>1. crumbs \in Seq(Crumbs)
  BY DEF CacheTypeOK
<1>2. CASE UNCHANGED crumbs
  BY <1>1, <1>2
<1>3. ASSUME NEW c, crumbs' = Append(crumbs, c)
      PROVE  /\ \A i \in 1..Len(crumbs) : crumbs'[i] = crumbs[i]
             /\ Len(crumbs') \in Nat /\ Len(crumbs) <= Len(crumbs')
  BY ONLY <1>1, <1>3
<1>4. UNCHANGED crumbs \/ \E c : crumbs' = Append(crumbs, c)
  <2>1. CASE Typha!PublishBreadcrumb
    BY ONLY <2>1, Zenon DEF Typha!PublishBreadcrumb
  <2>2. CASE Typha!FillBatch \/ Typha!MakeCurrent \/ Typha!Broadcast
    BY ONLY <2>2 DEF Typha!FillBatch, Typha!MakeCurrent, Typha!Broadcast
  <2> QED BY <2>1, <2>2 DEF Typha!Cache
<1> QED BY ONLY <1>2, <1>3, <1>4, Zenon

(* Every step keeps the connection's part.                                 *)
LEMMA LinkInvStep ==
  ASSUME LiveInv, CacheInv, FullInv, LinkInv, [Next]_vars
  PROVE  LinkInv'
<1>0. CacheTypeOK /\ Len(crumbs) \in Nat /\ current \in 1..Len(crumbs) /\ active \in 0..Len(crumbs)
  BY DEF CacheInv, CacheTypeOK
<1>1. ASSUME UNCHANGED <<crumbs, conn, from, at, sent, wire, buf>>, touched \subseteq touched',
             \A k \in Keys : k \notin touched' => src'[k] = src[k]
      PROVE  LinkInv'
  BY <1>0, <1>1, LinkKept
<1>2. CASE UNCHANGED vars
  BY <1>1, <1>2 DEF vars, buf
<1>3. ASSUME NEW k \in Keys, NEW v \in Values \cup {Absent}, Change(k, v) PROVE LinkInv'
  <2>1. UNCHANGED <<crumbs, conn, from, at, sent, wire, buf>>
    BY <1>3 DEF Change, restOfCache, link
  <2>2. touched' = touched \cup {k} /\ src' = [src EXCEPT ![k] = v]
    BY <1>3 DEF Change
  <2>3. \A j \in Keys : j \notin touched' => src'[j] = src[j]
    BY <1>0, <2>2 DEF CacheTypeOK
  <2> QED BY <1>1, <2>1, <2>2, <2>3
<1>4. CASE Syncer
  BY <1>1, <1>4, Zenon DEF Syncer, SendListed, SaySynced, SayResync, restOfCache, link
<1>5. CASE CacheStep
  <2>1. UNCHANGED <<conn, from, at, sent, wire, buf>> /\ UNCHANGED <<touched, src>>
    BY <1>5 DEF CacheStep, upstream, link
  <2>2. /\ \A i \in 1..Len(crumbs) : crumbs'[i] = crumbs[i]
        /\ Len(crumbs') \in Nat /\ Len(crumbs) <= Len(crumbs')
    BY <1>0, <1>5, TrailGrows DEF CacheStep
  <2>3. touched \subseteq touched' /\ \A k \in Keys : k \notin touched' => src'[k] = src[k]
    BY ONLY <2>1
  <2> QED BY ONLY <1>0, <2>1, <2>2, <2>3, LinkInv, LinkKept, Zenon
<1>6. CASE Tick
  BY <1>1, <1>6 DEF Tick, Typha!WakeUpTick, Typha!cacheVars, upstream, link
<1>7. CASE StreamSnapshot
  BY <1>0, <1>7, StartKeepsLink DEF StreamSnapshot
<1>8. CASE SendSnapshot
  <2>1. active' \in 1..Len(crumbs) /\ conn = "greeting" /\ StartFrom(active')
    BY <1>0, <1>8 DEF SendSnapshot
  <2> QED BY <2>1, StartKeepsLink
<1>9. CASE SendDeltas
  BY <1>9, DeltasKeepLink
<1>10. CASE ExpireSnapshot
  BY <1>1, <1>10 DEF ExpireSnapshot, cacheVars, upstream
<1>11. CASE WaitForNext
  BY <1>1, <1>11 DEF WaitForNext, cacheVars, upstream, link
<1>12. CASE Receive
  <2>1. /\ conn = "following" /\ wire # <<>> /\ wire' = Tail(wire)
        /\ UNCHANGED <<crumbs, from, at, touched, src, conn, sent>>
        /\ \/ Head(wire).tag = "kvs" /\ OnUpdates(Head(wire).updates)
           \/ Head(wire).tag = "status" /\ OnStatusUpdated(Head(wire).status)
    BY <1>12 DEF Receive, cacheVars, upstream
  <2>2. CASE Head(wire).tag = "kvs" /\ OnUpdates(Head(wire).updates)
    BY ONLY <2>1, <2>2, LiveInv, LinkInv, UpdatesKeepLink, Zenon
  <2>3. CASE Head(wire).tag = "status" /\ OnStatusUpdated(Head(wire).status)
    BY ONLY <2>1, <2>3, LiveInv, LinkInv, StatusKeepsLink, Zenon
  <2> QED BY ONLY <2>1, <2>2, <2>3, Zenon
<1>13. CASE Connect \/ SayWaiting
  BY <1>13, ConnectKeepsLink
<1>14. CASE Restarted
  BY <1>14, RestartedKeepsLink
<1>15. CASE Faults
  BY <1>15, FaultsKeepLink
<1>16. CASE SenderStep
  BY <1>16, SenderKeepsLink
<1> QED BY <1>2, <1>3, <1>4, <1>5, <1>6, <1>7, <1>8, <1>9, <1>10, <1>11, <1>12, <1>13, <1>14,
           <1>15, <1>16 DEF Next, Server, Client

(* The buffer's own invariant, with this client.                           *)
LEMMA LiveInvTypha ==
  ASSUME LiveInv, LinkInv, [Next]_vars
  PROVE  LiveInv'
<1>1. ASSUME UNCHANGED buf PROVE LiveInv'
  BY <1>1, LiveInvStep DEF buf, dedupeVars
<1>2. ASSUME NEW s \in Statuses, OnStatusUpdated(s) PROVE LiveInv'
  BY <1>2, OnStatusUpdatedKeeps
<1>3. CASE Receive
  <2>1. Head(wire) \in Messages
    BY <1>3 DEF Receive, LinkInv, Linking
  <2>2. CASE Head(wire).tag = "kvs" /\ OnUpdates(Head(wire).updates)
    <3>1. Head(wire).updates \in Seq(Updates)
      BY <2>1, <2>2 DEF Messages
    <3> QED BY ONLY <2>2, <3>1, LiveInv, OnUpdatesTold, Zenon
  <2>3. CASE Head(wire).tag = "status" /\ OnStatusUpdated(Head(wire).status)
    BY <1>2, <2>1, <2>3 DEF Messages
  <2> QED BY <1>3, <2>2, <2>3 DEF Receive
<1>4. CASE Connect \/ SayWaiting
  BY <1>2, <1>4 DEF Connect, SayWaiting, Statuses
<1>5. CASE Restarted
  BY <1>5, RestartKeeps DEF Restarted
<1>6. CASE SenderStep
  BY <1>6, LiveInvStep DEF SenderStep, DedupeNext
<1>7. CASE \/ UNCHANGED vars \/ Syncer \/ CacheStep \/ Tick \/ ExpireSnapshot \/ WaitForNext \/ Faults
  BY <1>1, <1>7, ZenonT(30) DEF vars, buf, Syncer, SendListed, SaySynced, SayResync, CacheStep, Tick, ExpireSnapshot,
                    WaitForNext, Faults, ConnectionLost, TyphaRestart
<1>8. CASE Server
  BY <1>1, <1>8, Zenon DEF Server, StreamSnapshot, SendSnapshot, StartFrom, SendDeltas
<1>9. ASSUME NEW k \in Keys, NEW v \in Values \cup {Absent}, Change(k, v) PROVE LiveInv'
  BY <1>1, <1>9 DEF Change
<1> QED BY <1>3, <1>4, <1>5, <1>6, <1>7, <1>8, <1>9 DEF Next, Client

-----------------------------------------------------------------------------
(* The theorems.                                                           *)

TyphaInv == LiveInv /\ CacheInv /\ FullInv /\ LinkInv

(* Typha, the connection and the buffer start empty.                       *)
LEMMA TyphaInvInit == Init => TyphaInv
<1> SUFFICES ASSUME Init PROVE TyphaInv
  OBVIOUS
<1>1. LiveInv
  BY LiveInvInit DEF Init
<1>2. /\ inputC = <<>> /\ pendingStatus = "WaitForDatastore" /\ pendingUpdates = <<>>
      /\ kvs = Typha!Nothing
      /\ crumbs = <<Typha!Crumb(Typha!Nothing, <<>>, "WaitForDatastore")>> /\ current = 1
      /\ active = 0 /\ unsent = Present(src) /\ said = "WaitForDatastore" /\ touched = {}
  BY DEF Init, Typha!CacheInit
<1>3. src \in [Keys -> Contents] /\ Present(src) \subseteq Keys
  BY DEF Init, Contents, Present
<1>4. CacheInv
  <2> DEFINE cs == <<Typha!Crumb(Typha!Nothing, <<>>, "WaitForDatastore")>>
  <2>1. /\ cs \in Seq(Crumbs) /\ Len(cs) = 1 /\ cs[1].kvs = Typha!Nothing /\ Linked(cs) /\ cs # <<>>
        /\ Typha!Nothing \in [Keys -> Contents]
    BY EmptyCache
  <2> HIDE DEF cs
  <2>2. crumbs = cs
    BY ONLY <1>2 DEF cs
  <2>3. CacheTypeOK
    BY ONLY <1>2, <1>3, <2>1, <2>2 DEF CacheTypeOK, Statuses
  <2>4. TrailEnd
    BY ONLY <1>2, <2>1, <2>2 DEF TrailEnd
  <2> QED BY ONLY <2>1, <2>2, <2>3, <2>4 DEF CacheInv
<1>5. FullInv
  <2>1. ASSUME NEW k \in Keys
        PROVE  Full(k, src[k], inputC, pendingStatus, pendingUpdates, kvs, crumbs, unsent)
    BY ONLY <1>2, <1>3, k \in Keys, EmptyFull
  <2> QED BY ONLY <2>1, Zenon DEF FullInv
<1>6. LinkInv
  <2>1. /\ conn = "dialing" /\ sent = "WaitForDatastore" /\ wire = <<>>
        /\ queue = <<>> /\ batch = <<>> /\ unseen = {} /\ view = [k \in Keys |-> Absent]
    BY DEF Init, DedupeInit
  <2>2. ASSUME NEW k \in Keys PROVE Held(k) = Absent
    <3>1. DOMAIN queue = {} /\ DOMAIN batch = {} /\ view[k] = Absent
      BY ONLY <2>1, k \in Keys
    <3> QED BY ONLY <2>1, <3>1 DEF Held, Told, Base, Pending
  <2>3. wire \in Seq(Messages) /\ sent \in Statuses
    BY ONLY <2>1 DEF Statuses
  <2> QED BY ONLY <2>1, <2>2, <2>3 DEF LinkInv, Linking
<1> QED BY ONLY <1>1, <1>4, <1>5, <1>6 DEF TyphaInv

(* Every step of the composition keeps the invariant.                      *)
LEMMA TyphaInvStep == TyphaInv /\ [Next]_vars => TyphaInv'
<1> SUFFICES ASSUME TyphaInv, [Next]_vars PROVE TyphaInv'
  OBVIOUS
<1>1. LiveInv /\ CacheInv /\ FullInv /\ LinkInv
  BY DEF TyphaInv
<1>2. LiveInv'
  BY ONLY <1>1, [Next]_vars, LiveInvTypha, Zenon
<1>3. CacheInv'
  BY ONLY <1>1, [Next]_vars, CacheInvStep, Zenon
<1>4. FullInv'
  BY ONLY <1>1, [Next]_vars, FullInvStep, Zenon
<1>5. LinkInv'
  BY ONLY <1>1, [Next]_vars, LinkInvStep, Zenon
<1> QED BY ONLY <1>2, <1>3, <1>4, <1>5 DEF TyphaInv

(* The entries of the buffer, by their place in it.                        *)
LEMMA BufferedAt ==
  ASSUME LiveInv
  PROVE  /\ \A i \in DOMAIN batch : i \in DOMAIN (batch \o queue) /\ (batch \o queue)[i] = batch[i]
         /\ \A i \in DOMAIN queue : /\ Len(batch) + i \in DOMAIN (batch \o queue)
                                    /\ (batch \o queue)[Len(batch) + i] = queue[i]
         /\ \A i \in DOMAIN (batch \o queue) : i \in DOMAIN batch \/ \E j \in DOMAIN queue : i = Len(batch) + j
         /\ \A i \in DOMAIN batch, j \in DOMAIN queue : i <= Len(batch) + j
<1>1. batch \in Seq(Entries) /\ queue \in Seq(Entries)
  BY LiveInvParts DEF DedupeTypeOK
<1>2. \A i \in DOMAIN batch : i \in DOMAIN (batch \o queue) /\ (batch \o queue)[i] = batch[i]
  BY ONLY <1>1
<1>3. \A i \in DOMAIN queue : /\ Len(batch) + i \in DOMAIN (batch \o queue)
                              /\ (batch \o queue)[Len(batch) + i] = queue[i]
  BY ONLY <1>1
<1>4. ASSUME NEW i \in DOMAIN (batch \o queue) PROVE i \in DOMAIN batch \/ \E j \in DOMAIN queue : i = Len(batch) + j
  <2>1. i \in DOMAIN batch \/ (i - Len(batch) \in DOMAIN queue /\ i = Len(batch) + (i - Len(batch)))
    BY ONLY <1>1, i \in DOMAIN (batch \o queue)
  <2> QED BY ONLY <2>1, Zenon
<1>5. \A i \in DOMAIN batch, j \in DOMAIN queue : i <= Len(batch) + j
  BY ONLY <1>1
<1> QED BY ONLY <1>2, <1>3, <1>4, <1>5, Zenon

(* A sink that is told InSync holds what fits.                             *)
LEMMA SettledFits ==
  ASSUME LiveInv, LinkInv, Settled, NEW k \in Keys
  PROVE  view[k] \in Fit(k)
<1>1. conn = "following" /\ recent = "InSync" /\ ~StatusPending
  BY DEF Settled
<1>2. InTime(queue, k, Fit(k))
  BY ONLY <1>1, LinkInv, k \in Keys, Zenon DEF LinkInv, Following
<1>3. ~\E i \in DOMAIN batch : batch[i].tag = "status"
  BY ONLY <1>1, LiveInv, BufferedAt, Zenon DEF StatusPending
<1>4. ~\E i \in DOMAIN queue : queue[i].tag = "status"
  BY ONLY <1>1, LiveInv, BufferedAt, Zenon DEF StatusPending
<1> QED BY ONLY <1>2, <1>3, <1>4, Zenon DEF InTime

(* The greatest of some numbers.                                           *)
LEMMA LatestIs ==
  ASSUME NEW is, is \subseteq Nat, NEW i \in is, \A j \in is : j <= i
  PROVE  Latest(is) = i
<1>1. Latest(is) \in is /\ \A j \in is : j <= Latest(is)
  BY Zenon DEF Latest
<1>2. Latest(is) <= i /\ i <= Latest(is) /\ Latest(is) \in Nat /\ i \in Nat
  BY <1>1, Zenon
<1> QED BY ONLY <1>2

(* What the buffer will have told the sink.                                *)
LEMMA BufferedTold ==
  ASSUME LiveInv, NEW k \in Keys, NEW is,
         is = {i \in DOMAIN (batch \o queue) : IsUpdateOf((batch \o queue)[i], k)}
  PROVE  Told(queue, k) = IF is # {} THEN (batch \o queue)[Latest(is)].value ELSE view[k]
<1> DEFINE b == batch \o queue
<1>1. /\ \A i \in DOMAIN batch : i \in DOMAIN b /\ b[i] = batch[i]
      /\ \A i \in DOMAIN queue : Len(batch) + i \in DOMAIN b /\ b[Len(batch) + i] = queue[i]
      /\ \A i \in DOMAIN b : i \in DOMAIN batch \/ \E j \in DOMAIN queue : i = Len(batch) + j
      /\ \A i \in DOMAIN batch, j \in DOMAIN queue : i <= Len(batch) + j
  BY ONLY LiveInv, BufferedAt, Zenon
<1>2. UniqueKeys(queue) /\ UniqueKeys(batch) /\ batch \in Seq(Entries) /\ queue \in Seq(Entries)
  BY DEF LiveInv, DedupeTypeOK
<1>3. DOMAIN b \subseteq Nat /\ \A i \in DOMAIN b : i <= i
  BY ONLY <1>2
<1> HIDE DEF b
<1>4. is = {i \in DOMAIN b : IsUpdateOf(b[i], k)} /\ is \subseteq Nat
  <2>1. is = {i \in DOMAIN b : IsUpdateOf(b[i], k)}
    BY Zenon DEF b
  <2> QED BY ONLY <2>1, <1>3
<1>5. CASE Pending(queue, k)
  <2>1. PICK i \in DOMAIN queue : IsUpdateOf(queue[i], k)
    BY ONLY <1>5, Zenon DEF Pending
  <2>2. Told(queue, k) = queue[i].value
    BY ONLY <1>2, <1>5, <2>1, ValueIs, Zenon DEF Told
  <2>3. Len(batch) + i \in is /\ b[Len(batch) + i] = queue[i]
    BY ONLY <1>1, <1>4, <2>1, Zenon
  <2>4. ASSUME NEW j \in is PROVE j <= Len(batch) + i
    <3>1. j \in DOMAIN b /\ IsUpdateOf(b[j], k)
      BY ONLY <1>4, j \in is, Zenon
    <3>2. CASE j \in DOMAIN batch
      BY ONLY <1>1, <3>2, i \in DOMAIN queue, Zenon
    <3>3. ASSUME NEW n \in DOMAIN queue, j = Len(batch) + n PROVE j <= Len(batch) + i
      <4>1. IsUpdateOf(queue[n], k)
        BY ONLY <1>1, <3>1, <3>3, Zenon
      <4>2. n = i
        BY ONLY <1>2, <2>1, <4>1, n \in DOMAIN queue, Zenon DEF UniqueKeys, IsUpdateOf
      <4> QED BY ONLY <1>3, <3>1, <3>3, <4>2, Zenon
    <3> QED BY ONLY <1>1, <3>1, <3>2, <3>3, Zenon
  <2>5. Latest(is) = Len(batch) + i
    BY ONLY <1>4, <2>3, <2>4, LatestIs, Zenon
  <2> QED BY ONLY <2>2, <2>3, <2>5, Zenon DEF b
<1>6. CASE ~Pending(queue, k) /\ Pending(batch, k)
  <2>1. PICK i \in DOMAIN batch : IsUpdateOf(batch[i], k)
    BY ONLY <1>6, Zenon DEF Pending
  <2>2. Told(queue, k) = batch[i].value
    BY ONLY <1>2, <1>6, <2>1, ValueIs, Zenon DEF Told, Base
  <2>3. i \in is /\ b[i] = batch[i]
    BY ONLY <1>1, <1>4, <2>1, Zenon
  <2>4. ASSUME NEW j \in is PROVE j <= i
    <3>1. j \in DOMAIN b /\ IsUpdateOf(b[j], k)
      BY ONLY <1>4, j \in is, Zenon
    <3>2. j \in DOMAIN batch
      BY ONLY <1>1, <1>6, <3>1, Zenon DEF Pending
    <3>3. IsUpdateOf(batch[j], k)
      BY ONLY <1>1, <3>1, <3>2, Zenon
    <3>4. j = i
      BY ONLY <1>2, <2>1, <3>2, <3>3, Zenon DEF UniqueKeys, IsUpdateOf
    <3> QED BY ONLY <1>3, <3>1, <3>4, Zenon
  <2>5. Latest(is) = i
    BY ONLY <1>4, <2>3, <2>4, LatestIs, Zenon
  <2> QED BY ONLY <2>2, <2>3, <2>5, Zenon DEF b
<1>7. CASE ~Pending(queue, k) /\ ~Pending(batch, k)
  <2>1. is = {}
    BY ONLY <1>1, <1>4, <1>7, Zenon DEF Pending
  <2> QED BY ONLY <1>7, <2>1, Zenon DEF Told, Base
<1> QED BY ONLY <1>5, <1>6, <1>7, Zenon

(* What the wire and the buffer lead to.                                   *)
LEMMA PromisedIs ==
  ASSUME LiveInv, LinkInv, conn = "following", NEW k \in Keys
  PROVE  \/ Promised(k) = crumbs[at].kvs[k]
         \/ crumbs[at].kvs[k] = Absent /\ resyncing /\ k \in unseen
<1> DEFINE us == OnWire
           y == crumbs[at].kvs[k]
           on == {i \in DOMAIN us : us[i].key = k}
           b == batch \o queue
           is == {i \in DOMAIN b : IsUpdateOf(b[i], k)}
<1>1. Following /\ wire \in Seq(Messages) /\ (unseen # {} => resyncing)
  BY DEF LinkInv, Linking
<1>2. Leads(wire, k, Fit(k), Held(k), y)
  BY ONLY <1>1, k \in Keys, Zenon DEF Following
<1>3. us \in Seq(Updates) /\ After(us, k, Held(k), y)
  BY ONLY <1>1, <1>2, WireAfter, Zenon
<1>4. Promised(k) = IF on # {} THEN us[Latest(on)].value
                    ELSE IF is # {} THEN b[Latest(is)].value ELSE view[k]
  BY ONLY Zenon DEF Promised
<1>5. Told(queue, k) = IF is # {} THEN b[Latest(is)].value ELSE view[k]
  BY ONLY LiveInv, k \in Keys, BufferedTold, Zenon
<1> HIDE DEF us, y, b, is
<1>6. DOMAIN us = 1..Len(us) /\ DOMAIN us \subseteq Nat
  BY ONLY <1>3
<1>7. on \subseteq Nat
  BY ONLY <1>6
<1>8. CASE Has(us, k)
  <2>1. PICK i \in 1..Len(us) : us[i].key = k /\ us[i].value = y /\ \A j \in 1..Len(us) : us[j].key = k => j <= i
    BY ONLY <1>3, <1>8, Zenon DEF After, To, Has
  <2>2. i \in on /\ \A j \in on : j <= i
    BY ONLY <1>6, <2>1, Zenon
  <2>3. Latest(on) = i
    BY ONLY <1>7, <2>2, LatestIs, Zenon
  <2> QED BY ONLY <1>4, <2>1, <2>2, <2>3, Zenon DEF y
<1>9. CASE ~Has(us, k)
  <2>1. on = {}
    BY ONLY <1>6, <1>9, Zenon DEF Has
  <2>2. Held(k) = y
    BY ONLY <1>3, <1>9, AfterNone, Zenon
  <2>3. Promised(k) = Told(queue, k)
    BY ONLY <1>4, <1>5, <2>1
  <2>4. CASE k \in unseen
    BY ONLY <1>1, <2>2, <2>4, Zenon DEF Held, y
  <2>5. CASE k \notin unseen
    BY ONLY <2>2, <2>3, <2>5, Zenon DEF Held, y
  <2> QED BY ONLY <2>4, <2>5, Zenon
<1> QED BY ONLY <1>8, <1>9, Zenon

(* The invariant holds of Typha, its client and the buffer, however the    *)
(* cache, the server, the client, the sender, the datastore and the        *)
(* failures interleave.                                                    *)
THEOREM TyphaInvariant == Spec => []TyphaInv
BY TyphaInvInit, TyphaInvStep, PTL DEF Spec

(* publishBreadcrumb, sendDeltaUpdatesToClient and queueUpdate lose        *)
(* nothing: the sink, the buffer and the wire add up to the crumb that the *)
(* connection has followed to, for any keys, values, batch and message     *)
(* sizes, and any number of reconnections and restarts.                    *)
THEOREM DeliveryLosesNothing == Spec => []NothingLost
<1>1. TyphaInv => NothingLost
  <2> SUFFICES ASSUME TyphaInv, conn = "following", NEW k \in Keys
               PROVE  \/ Promised(k) = crumbs[at].kvs[k]
                      \/ crumbs[at].kvs[k] = Absent /\ resyncing /\ k \in unseen
    BY Zenon DEF NothingLost
  <2>1. LiveInv /\ LinkInv
    BY DEF TyphaInv
  <2> QED BY ONLY <2>1, conn = "following", k \in Keys, PromisedIs, Zenon
<1> QED BY <1>1, TyphaInvariant, PTL

(* A sink that was told InSync over this connection has nothing older than *)
(* the snapshot the connection began with (OnTyphaConnectionRestarted and  *)
(* onInSyncAfterReconnection).                                             *)
THEOREM NothingFromBefore == Spec => []InSyncIsThisTrail
<1>1. TyphaInv => InSyncIsThisTrail
  <2> SUFFICES ASSUME TyphaInv, Settled, NEW k \in Keys PROVE view[k] \in Trail(k)
    BY Zenon DEF InSyncIsThisTrail
  <2>1. LiveInv /\ LinkInv
    BY DEF TyphaInv
  <2>2. view[k] \in Fit(k)
    BY ONLY <2>1, Settled, k \in Keys, SettledFits, Zenon
  <2> QED BY ONLY <2>2, Zenon DEF Fit
<1> QED BY <1>1, TyphaInvariant, PTL

(* A sink that was told InSync has every key of the datastore that has not *)
(* changed since Typha started: neither the cache nor the server lets      *)
(* InSync overtake an update.                                              *)
THEOREM InSyncIsFullPicture == Spec => []FullPicture
<1>1. TyphaInv => FullPicture
  <2> SUFFICES ASSUME TyphaInv, Settled, NEW k \in Keys \ touched PROVE view[k] = src[k]
    BY Zenon DEF FullPicture
  <2>1. LiveInv /\ LinkInv /\ k \in Keys /\ k \notin touched
    BY DEF TyphaInv
  <2>2. view[k] \in Fit(k)
    BY ONLY <2>1, Settled, SettledFits, Zenon
  <2> QED BY ONLY <2>1, <2>2, Zenon DEF Fit
<1> QED BY <1>1, TyphaInvariant, PTL

(* The types handed to the sink fit what it has, with Typha's own client   *)
(* and its lists of updates.                                               *)
THEOREM TyphaTypesMakeSense == Spec => []TypesMakeSense
<1>1. TyphaInv => TypesMakeSense
  BY LiveTypes DEF TyphaInv
<1> QED BY <1>1, TyphaInvariant, PTL

=============================================================================
