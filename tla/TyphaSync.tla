----------------------------- MODULE TyphaSync -----------------------------
(***************************************************************************)
(* A consumer fed by Typha: the datastore's syncer calls Typha's snapshot  *)
(* cache, a connection of Typha's server sends a snapshot and then follows *)
(* the breadcrumbs, the client passes what it receives to the              *)
(* deduplicating buffer, and the buffer's sender tells the consumer.       *)
(* Connections break, Typha restarts with an empty cache, and the client   *)
(* connects again.                                                         *)
(***************************************************************************)
EXTENDS DedupeBuffer

CONSTANTS MaxBatchSize,    \* how many updates go into a crumb
          MaxMessageSize,  \* how many updates go into a message
          BinarySnapshots, \* the client can take the cached binary snapshot
          MaxWire,         \* bound: messages under way before the server blocks
          MaxChanges,      \* bound: changes of the datastore and its syncer's resyncs
          MaxFaults        \* bound: broken connections and restarts of Typha

ASSUME TyphaAssumption == MaxBatchSize \in Nat \ {0} /\ MaxMessageSize \in Nat \ {0}

VARIABLES src,       \* the datastore
          unsent,    \* keys Typha's syncer has listed and not yet passed on
          said,      \* the last status Typha's syncer has passed on
          touched,   \* keys changed since Typha started (for FullPicture)
          changes, faults,
          active,    \* the crumb of the cached binary snapshot, 0 if there is none
          conn,      \* the client's connection
          from, at,  \* the crumb of its snapshot, and the one it has followed to
          sent,      \* lastSentStatus
          wire,      \* the messages under way to the client
          inputC, pendingStatus, pendingUpdates, kvs, crumbs, current, publishing,
          asleep     \* the connection's goroutine waits for a crumb

Typha == INSTANCE SnapCache

upstream == <<src, unsent, said, touched, changes>>
link == <<active, conn, from, at, sent, wire>>
cacheVars == <<inputC, pendingStatus, pendingUpdates, kvs, crumbs, current, publishing>>
buf == <<queue, live, unseen, resyncing, recent, batch, view, sinkStatus>>
vars == <<inputC, pendingStatus, pendingUpdates, kvs, crumbs, current, publishing, asleep,
          src, unsent, said, touched, changes, faults, active, conn, from, at, sent, wire,
          queue, live, unseen, resyncing, recent, batch, view, sinkStatus>>

(* Deltas one after the other; the keys in the order of the tree.          *)
Flat(ss) == Typha!Loop(\o, <<>>, ss)
Listed(S) == CHOOSE s \in [1..Cardinality(S) -> S] : \A i, j \in DOMAIN s : s[i] = s[j] => i = j
Present(f) == {k \in Keys : f[k] # Absent}
Snapshot(f) ==
  LET ks == Listed(Present(f))
  IN  [i \in DOMAIN ks |-> Typha!Update(ks[i], f[ks[i]], "new")]
CallCache(call) == inputC' = Append(inputC, call)
restOfCache == <<pendingStatus, pendingUpdates, kvs, crumbs, current, publishing, asleep>>

----------------------------------------------------------------------------
(* Typha's syncer, as far as its calls go (see WatcherSyncer).             *)

(* A key is written or deleted.  The syncer has nothing to say of a key    *)
(* before it lists, or of one that goes before it was listed.              *)
Change(k, v) ==
  LET listing == said # "WaitForDatastore"
      known == src[k] # Absent /\ k \notin unsent
      type == IF v = Absent THEN "deleted" ELSE IF known THEN "updated" ELSE "new"
  IN  /\ changes < MaxChanges
      /\ src[k] # Absent \/ v # Absent
      /\ src' = [src EXCEPT ![k] = v]
      /\ changes' = changes + 1
      /\ touched' = touched \cup {k}
      /\ unsent' = IF listing THEN unsent \ {k} ELSE Present(src')
      /\ IF listing /\ (known \/ v # Absent)
         THEN CallCache(Typha!UpdatesCall(<<Typha!Update(k, v, type)>>))
         ELSE UNCHANGED inputC
      /\ UNCHANGED <<said, faults, restOfCache, link, buf>>

SendListed ==
  /\ said = "ResyncInProgress" /\ unsent # {}
  /\ unsent' = {}
  /\ CallCache(Typha!UpdatesCall(Snapshot([k \in Keys |-> IF k \in unsent THEN src[k] ELSE Absent])))
  /\ UNCHANGED <<src, said, touched, changes, faults, restOfCache, link, buf>>

SaySynced ==
  /\ said = "ResyncInProgress" /\ unsent = {}
  /\ said' = "InSync"
  /\ CallCache(Typha!StatusCall("InSync"))
  /\ UNCHANGED <<src, unsent, touched, changes, faults, restOfCache, link, buf>>

SayResync ==
  /\ \/ said = "WaitForDatastore" /\ UNCHANGED changes
     \/ said = "InSync" /\ changes < MaxChanges /\ changes' = changes + 1
  /\ said' = "ResyncInProgress"
  /\ CallCache(Typha!StatusCall("ResyncInProgress"))
  /\ UNCHANGED <<src, unsent, touched, faults, restOfCache, link, buf>>

----------------------------------------------------------------------------
(* The server's side of a connection.                                      *)

KVsMessage(us) == [tag |-> "kvs", updates |-> us]
StatusMessage(s) == [tag |-> "status", status |-> s]

(* writeSnapshotMessages: the snapshot in messages of a bounded size.      *)
Chunks(us) ==
  [j \in 1..((Len(us) + MaxMessageSize - 1) \div MaxMessageSize) |->
     KVsMessage(SubSeq(us, (j - 1) * MaxMessageSize + 1,
                       IF j * MaxMessageSize < Len(us) THEN j * MaxMessageSize ELSE Len(us)))]

maybeSendStatus(last, s) == IF last = s THEN <<>> ELSE <<StatusMessage(s)>>

\* Mutant: the deltas that follow are those of the current crumb.
StartFromCurrent(i) ==
  /\ conn' = "following"
  /\ from' = i /\ at' = current
  /\ sent' = crumbs[i].status
  /\ wire' = Chunks(Snapshot(crumbs[i].kvs)) \o maybeSendStatus("WaitForDatastore", crumbs[i].status)
  /\ UNCHANGED <<cacheVars, asleep, upstream, faults, buf>>

\* Mutant: the status goes ahead of the snapshot.
StartFromStatus(i) ==
  /\ conn' = "following"
  /\ from' = i /\ at' = i
  /\ sent' = crumbs[i].status
  /\ wire' = maybeSendStatus("WaitForDatastore", crumbs[i].status) \o Chunks(Snapshot(crumbs[i].kvs))
  /\ UNCHANGED <<cacheVars, asleep, upstream, faults, buf>>

(* The snapshot of crumb i, and then its status.                           *)
StartFrom(i) ==
  /\ conn' = "following"
  /\ from' = i /\ at' = i
  /\ sent' = crumbs[i].status
  /\ wire' = Chunks(Snapshot(crumbs[i].kvs)) \o maybeSendStatus("WaitForDatastore", crumbs[i].status)
  /\ UNCHANGED <<cacheVars, asleep, upstream, faults, buf>>

StreamSnapshot ==
  /\ conn = "greeting" /\ ~BinarySnapshots
  /\ StartFrom(current)
  /\ UNCHANGED active

(* SendSnapshot: the cached binary snapshot if there is one.               *)
SendSnapshot ==
  /\ conn = "greeting" /\ BinarySnapshots
  /\ active' = (IF active = 0 THEN current ELSE active)
  /\ StartFrom(active')

(* populateSnapshot: the cached one expires once there is a newer crumb.   *)
ExpireSnapshot ==
  /\ active # 0 /\ Typha!HasNext(active)
  /\ active' = 0
  /\ UNCHANGED <<cacheVars, asleep, upstream, faults, conn, from, at, sent, wire, buf>>

DeltasOf(i, j) == Flat([n \in 1..(j - i) |-> crumbs[i + n].deltas])

(* sendDeltaUpdatesToClient: the deltas of the next crumb, or of several   *)
(* when the client is behind, and the status of the last of them.          *)
SendDeltas ==
  /\ conn = "following" /\ ~asleep /\ Len(wire) < MaxWire
  /\ \E j \in (at + 1)..Len(crumbs) :
       /\ Len(DeltasOf(at, j - 1)) < MaxMessageSize
       /\ wire' = wire \o (IF DeltasOf(at, j) = <<>> THEN <<>> ELSE <<KVsMessage(DeltasOf(at, j))>>)
                       \o maybeSendStatus(sent, crumbs[j].status)
       /\ sent' = crumbs[j].status
       /\ at' = j
  /\ UNCHANGED <<cacheVars, asleep, upstream, faults, active, conn, from, buf>>

WaitForNext ==
  /\ conn = "following" /\ Typha!CanSleep(at)
  /\ asleep' = TRUE
  /\ UNCHANGED <<cacheVars, upstream, faults, link, buf>>

----------------------------------------------------------------------------
(* The client (typha/pkg/syncclient).                                      *)

(* startOneConnection and the start of loop.                               *)
Connect ==
  /\ conn = "dialing"
  /\ conn' = "greeting"
  /\ OnStatusUpdated("ResyncInProgress")
  /\ UNCHANGED <<cacheVars, asleep, upstream, faults, active, from, at, sent, wire>>

OnUpdates(us) ==
  /\ queue' = Typha!Loop(LAMBDA q, u : queueUpdate(q, u.key, u.value), queue, us)
  /\ unseen' = unseen \ {us[i].key : i \in DOMAIN us}
  /\ UNCHANGED <<live, resyncing, recent, batch, view, sinkStatus>>

Receive ==
  /\ conn = "following" /\ wire # <<>>
  /\ wire' = Tail(wire)
  /\ LET m == Head(wire)
     IN  \/ m.tag = "kvs" /\ OnUpdates(m.updates)
         \/ m.tag = "status" /\ OnStatusUpdated(m.status)
  /\ UNCHANGED <<cacheVars, asleep, upstream, faults, active, conn, from, at, sent>>

Disconnected == conn' = "down" /\ from' = 0 /\ at' = 0 /\ sent' = "WaitForDatastore" /\ wire' = <<>>

(* A network failure, a missed ping, or a client that fell behind.         *)
ConnectionLost ==
  /\ faults < MaxFaults /\ faults' = faults + 1
  /\ conn \in {"greeting", "following"}
  /\ Disconnected
  /\ asleep' = FALSE
  /\ UNCHANGED <<cacheVars, upstream, active, buf>>

(* Start: the two calls after a connection has failed.                     *)
Restarted ==
  /\ conn = "down"
  /\ conn' = "restarted"
  /\ OnTyphaConnectionRestarted
  /\ UNCHANGED <<cacheVars, asleep, upstream, faults, active, from, at, sent, wire>>

SayWaiting ==
  /\ conn = "restarted"
  /\ conn' = "dialing"
  /\ OnStatusUpdated("WaitForDatastore")
  /\ UNCHANGED <<cacheVars, asleep, upstream, faults, active, from, at, sent, wire>>

(* Typha restarts, or the client fails over to a Typha just started.       *)
TyphaRestart ==
  /\ faults < MaxFaults /\ faults' = faults + 1
  /\ unsent' = Present(src) /\ said' = "WaitForDatastore" /\ touched' = {}
  /\ inputC' = <<>>
  /\ pendingStatus' = "WaitForDatastore" /\ pendingUpdates' = <<>>
  /\ kvs' = Typha!Nothing
  /\ crumbs' = <<Typha!Crumb(Typha!Nothing, <<>>, "WaitForDatastore")>> /\ current' = 1
  /\ publishing' = "fill" /\ asleep' = FALSE /\ active' = 0
  /\ \/ conn \in {"greeting", "following"} /\ Disconnected
     \/ conn \notin {"greeting", "following"} /\ UNCHANGED <<conn, from, at, sent, wire>>
  /\ UNCHANGED <<src, changes, buf>>

SenderStep ==
  /\ Sender
  /\ UNCHANGED <<cacheVars, asleep, upstream, faults, link>>

----------------------------------------------------------------------------
Init ==
  /\ Typha!CacheInit /\ asleep = FALSE
  /\ src \in [Keys -> Values]
  /\ unsent = Present(src) /\ said = "WaitForDatastore"
  /\ touched = {} /\ changes = 0 /\ faults = 0
  /\ active = 0
  /\ conn = "dialing" /\ from = 0 /\ at = 0 /\ sent = "WaitForDatastore" /\ wire = <<>>
  /\ DedupeInit

CacheStep == Typha!Cache /\ UNCHANGED <<upstream, faults, link, buf>>
Tick == Typha!WakeUpTick /\ UNCHANGED <<upstream, faults, link, buf>>
Syncer == SendListed \/ SaySynced \/ SayResync
Server == StreamSnapshot \/ SendSnapshot \/ SendDeltas
Client == Connect \/ Receive \/ Restarted \/ SayWaiting
Faults == ConnectionLost \/ TyphaRestart

Next ==
  \/ \E k \in Keys, v \in Values \cup {Absent} : Change(k, v)
  \/ Syncer \/ CacheStep \/ Tick
  \/ Server \/ ExpireSnapshot \/ WaitForNext
  \/ Client \/ Faults \/ SenderStep

Spec == Init /\ [][Next]_vars

(* The goroutines of the syncer, the cache, the connection, the client and *)
(* the sender run.  The cache's ticker is not needed.                      *)
Fairness ==
  /\ WF_vars(Syncer) /\ WF_vars(CacheStep) /\ WF_vars(Server)
  /\ WF_vars(Client) /\ WF_vars(SenderStep)
FairSpec == Spec /\ Fairness

----------------------------------------------------------------------------
(* What a key will hold when all that is under way has been told.          *)
Latest(is) == CHOOSE i \in is : \A j \in is : j <= i
OnWire == Flat([i \in DOMAIN wire |-> IF wire[i].tag = "kvs" THEN wire[i].updates ELSE <<>>])
Promised(k) ==
  LET buffered == batch \o queue
      onWire == {i \in DOMAIN OnWire : OnWire[i].key = k}
      inBuffer == {i \in DOMAIN buffered : IsUpdateOf(buffered[i], k)}
  IN  IF onWire # {} THEN OnWire[Latest(onWire)].value
      ELSE IF inBuffer # {} THEN buffered[Latest(inBuffer)].value
      ELSE view[k]

(* What is in the sink, the buffer and on the wire adds up to the crumb    *)
(* the connection has followed to, key by key; the one exception is a key  *)
(* that was deleted while the client was away, which InSync will remove.   *)
NothingLost ==
  conn = "following" =>
    \A k \in Keys :
      \/ Promised(k) = crumbs[at].kvs[k]
      \/ crumbs[at].kvs[k] = Absent /\ resyncing /\ k \in unseen

StatusPending == \E i \in DOMAIN (batch \o queue) : (batch \o queue)[i].tag = "status"

Settled ==
  conn = "following" /\ sinkStatus = "InSync" /\ recent = "InSync" /\ ~StatusPending

(* The values of k in the snapshot the connection began with and in the    *)
(* deltas of the crumbs it has followed since.                             *)
Trail(k) ==
  {v \in Contents :
     \/ v = crumbs[from].kvs[k]
     \/ \E i \in (from + 1)..at : \E j \in DOMAIN crumbs[i].deltas :
          crumbs[i].deltas[j].key = k /\ crumbs[i].deltas[j].value = v}

(* A sink that was told InSync over this connection holds nothing older    *)
(* than the snapshot the connection began with: no value or key survives   *)
(* from before a reconnection.                                             *)
InSyncIsThisTrail == Settled => \A k \in Keys : view[k] \in Trail(k)

(* A sink that was told InSync has every key of the datastore that has not *)
(* changed since Typha started: a Typha that is still listing does not     *)
(* pass for one in sync.                                                   *)
FullPicture == Settled => \A k \in Keys \ touched : view[k] = src[k]

(* A connection that sleeps although there is a further crumb is about to  *)
(* be woken: the link is made, and the sleeper looks, with the lock held.  *)
NoSleeperLeft == asleep /\ Typha!HasNext(at) => publishing \in {"linked", "broadcast"}

(* When the datastore is left alone and nothing fails any more, the sink   *)
(* ends up with the datastore's contents, and InSync.                      *)
Converges == <>[](view = src /\ sinkStatus = "InSync")
============================================================================
