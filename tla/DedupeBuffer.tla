---------------------------- MODULE DedupeBuffer ----------------------------
(***************************************************************************)
(* The deduplicating buffer between a Typha client and its consumer        *)
(* (libcalico-go/lib/backend/syncersv1/dedupebuffer).  The client's        *)
(* goroutine queues updates and statuses; the sender's goroutine takes     *)
(* them off in batches and calls the sink with the lock dropped.  An       *)
(* update to a key that is still queued replaces the queued one.  After a  *)
(* reconnection the buffer works out what was deleted in the meantime.     *)
(*                                                                         *)
(* The module leaves open what the client calls, in which order:           *)
(* DedupeSpec allows anything, TyphaSync supplies the real client.         *)
(***************************************************************************)
EXTENDS Naturals, Sequences, FiniteSets

CONSTANTS Keys,
          Values,     \* what a key may hold; Absent where it does not exist
          Absent,
          BatchSize   \* how many queue entries the sender takes at a time

ASSUME DedupeAssumption ==
  /\ IsFiniteSet(Keys)
  /\ Absent \notin Values
  /\ BatchSize \in Nat \ {0}

VARIABLES queue,      \* pendingUpdates, with keyToPendingUpdate
          live,       \* liveResourceKeys
          unseen,     \* liveKeysNotSeenSinceReconnect
          resyncing,  \* whether that is not nil
          recent,     \* mostRecentStatusReceived
          batch,      \* what the sender took off the queue and still has to send
          view,       \* what the sink has been told of each key
          sinkStatus  \* the last status it has been told

buffer == <<queue, live, unseen, resyncing, recent>>
sink == <<batch, view, sinkStatus>>
dedupeVars == <<queue, live, unseen, resyncing, recent, batch, view, sinkStatus>>

Statuses == {"WaitForDatastore", "ResyncInProgress", "InSync"}
Contents == Values \cup {Absent}

StatusEntry(s) == [tag |-> "status", status |-> s]
UpdateEntry(k, v, t) == [tag |-> "update", key |-> k, value |-> v, type |-> t]

IsUpdateOf(e, k) == e.tag = "update" /\ e.key = k
Pending(q, k) == \E i \in DOMAIN q : IsUpdateOf(q[i], k)

----------------------------------------------------------------------------
\* Mutant: the type is the one that Typha's snapshot gives.
RetypedAsSent(k, v) == UpdateEntry(k, v, IF v = Absent THEN "deleted" ELSE "new")

(* queueUpdate: the type is worked out again from what the sink has.       *)
Retyped(k, v) ==
  UpdateEntry(k, v, IF v = Absent THEN "deleted"
                    ELSE IF k \in live THEN "updated" ELSE "new")

Without(q, k) ==
  LET i == CHOOSE i \in DOMAIN q : IsUpdateOf(q[i], k)
  IN  SubSeq(q, 1, i - 1) \o SubSeq(q, i + 1, Len(q))

\* Mutant: an update to a key that is queued already is dropped.
queueUpdateDropped(q, k, v) == IF ~Pending(q, k) THEN Append(q, Retyped(k, v)) ELSE q

queueUpdate(q, k, v) ==
  IF ~Pending(q, k) THEN Append(q, Retyped(k, v))
  ELSE IF v = Absent /\ k \notin live THEN Without(q, k)
  ELSE [i \in DOMAIN q |-> IF IsUpdateOf(q[i], k) THEN Retyped(k, v) ELSE q[i]]

(* OnUpdates, for one update: a longer list is as many calls in a row.     *)
OnUpdate(k, v) ==
  /\ queue' = queueUpdate(queue, k, v)
  /\ unseen' = unseen \ {k}
  /\ UNCHANGED <<live, resyncing, recent, sink>>

\* Mutant: what is queued from the old connection stays.
OnTyphaConnectionRestartedKeepQueue ==
  /\ unseen' = live
  /\ resyncing' = TRUE
  /\ UNCHANGED <<queue, live, recent, sink>>

OnTyphaConnectionRestarted ==
  /\ queue' = <<>>
  /\ unseen' = live
  /\ resyncing' = TRUE
  /\ UNCHANGED <<live, recent, sink>>

(* onInSyncAfterReconnection: a deletion for every key of ks, in the order *)
(* of the map, which Go leaves open.                                       *)
Deletions(ks) ==
  {[i \in DOMAIN f |-> UpdateEntry(f[i], Absent, "deleted")] :
     f \in {g \in [1..Cardinality(ks) -> ks] : \A i, j \in DOMAIN g : i # j => g[i] # g[j]}}

Deleted(q, ks) ==
  [i \in DOMAIN q |->
     IF \E k \in ks : IsUpdateOf(q[i], k) THEN Retyped(q[i].key, Absent) ELSE q[i]]

(* The status replaces one at the end of the queue, so that a flapping     *)
(* status does not make the queue grow.                                    *)
QueueStatus(q, s) ==
  IF q # <<>> /\ q[Len(q)].tag = "status" THEN [q EXCEPT ![Len(q)] = StatusEntry(s)]
  ELSE Append(q, StatusEntry(s))

\* Mutant: keys not seen since the reconnection are not deleted.
OnStatusUpdatedOnly(s) ==
  /\ queue' = IF recent = s THEN queue ELSE QueueStatus(queue, s)
  /\ recent' = s
  /\ UNCHANGED <<unseen, resyncing, live, sink>>

OnStatusUpdated(s) ==
  /\ IF s = "InSync" /\ resyncing
     THEN /\ \E ds \in Deletions({k \in unseen : ~Pending(queue, k)}) :
               LET q == Deleted(queue, unseen) \o ds
               IN  queue' = IF recent = s THEN q ELSE QueueStatus(q, s)
          /\ unseen' = {} /\ resyncing' = FALSE
     ELSE /\ queue' = IF recent = s THEN queue ELSE QueueStatus(queue, s)
          /\ UNCHANGED <<unseen, resyncing>>
  /\ recent' = s
  /\ UNCHANGED <<live, sink>>

----------------------------------------------------------------------------
(* The sender.                                                             *)

Pulled(q) == SubSeq(q, 1, IF Len(q) < BatchSize THEN Len(q) ELSE BatchSize)
UpdatesOf(q) == {q[i] : i \in {j \in DOMAIN q : q[j].tag = "update"}}

(* pullNextBatch: "Once we drop the lock we're committed to sending these  *)
(* keys", so live changes here.                                            *)
PullNextBatch ==
  /\ batch = <<>> /\ queue # <<>>
  /\ batch' = Pulled(queue)
  /\ queue' = SubSeq(queue, Len(Pulled(queue)) + 1, Len(queue))
  /\ live' = (live \ {e.key : e \in {f \in UpdatesOf(Pulled(queue)) : f.value = Absent}})
                \cup {e.key : e \in {f \in UpdatesOf(Pulled(queue)) : f.value # Absent}}
  /\ UNCHANGED <<unseen, resyncing, recent, view, sinkStatus>>

(* dropLockAndSendBatch: the sink is told the next entry of the batch.     *)
SendToSink ==
  /\ batch # <<>>
  /\ batch' = Tail(batch)
  /\ LET e == Head(batch)
     IN  \/ e.tag = "status" /\ sinkStatus' = e.status /\ UNCHANGED view
         \/ e.tag = "update" /\ view' = [view EXCEPT ![e.key] = e.value] /\ UNCHANGED sinkStatus
  /\ UNCHANGED buffer

Sender == PullNextBatch \/ SendToSink

DedupeInit ==
  /\ queue = <<>> /\ batch = <<>>
  /\ live = {} /\ unseen = {} /\ resyncing = FALSE
  /\ recent = "WaitForDatastore" /\ sinkStatus = "WaitForDatastore"
  /\ view = [k \in Keys |-> Absent]

(* Any client at all.                                                      *)
DedupeNext ==
  \/ \E k \in Keys, v \in Contents : OnUpdate(k, v)
  \/ \E s \in Statuses : OnStatusUpdated(s)
  \/ OnTyphaConnectionRestarted
  \/ Sender

DedupeSpec == DedupeInit /\ [][DedupeNext]_dedupeVars

----------------------------------------------------------------------------
Entries ==
  [tag : {"status"}, status : Statuses]
    \cup [tag : {"update"}, key : Keys, value : Contents, type : {"new", "updated", "deleted"}]

(* Types of the buffer and of what the sink has been told.                 *)
DedupeTypeOK ==
  /\ queue \in Seq(Entries) /\ batch \in Seq(Entries)
  /\ live \subseteq Keys /\ unseen \subseteq Keys /\ resyncing \in BOOLEAN
  /\ recent \in Statuses /\ sinkStatus \in Statuses
  /\ view \in [Keys -> Contents]

(* An update handed to the sink is "new" only if the sink does not have    *)
(* the key, "updated" only if it does, and "deleted" exactly when it has   *)
(* no value, whatever the client calls and however far the sender is       *)
(* behind (queueUpdate's "correct update type").                           *)
TypesMakeSense ==
  batch # <<>> /\ Head(batch).tag = "update" =>
    LET e == Head(batch)
    IN  /\ e.type = "new" => view[e.key] = Absent
        /\ e.type = "updated" => view[e.key] # Absent
        /\ e.type = "deleted" <=> e.value = Absent

UniqueKeys(q) ==
  \A i, j \in DOMAIN q : q[i].tag = "update" /\ q[j].tag = "update" /\ q[i].key = q[j].key => i = j

(* The invariant behind it: liveResourceKeys is what the sink will have    *)
(* once the batch under way is sent, no key is queued twice, and no key    *)
(* that is waiting to be seen again is queued.                             *)
LiveInv ==
  /\ DedupeTypeOK
  /\ UniqueKeys(queue) /\ UniqueKeys(batch)
  /\ unseen \subseteq live
  /\ \A k \in unseen : ~Pending(queue, k)
  /\ \A k \in Keys : ~Pending(batch, k) => (k \in live <=> view[k] # Absent)
  /\ \A i \in DOMAIN batch : batch[i].tag = "update" =>
       /\ batch[i].key \in live <=> batch[i].value # Absent
       /\ batch[i].type = "new" => view[batch[i].key] = Absent
       /\ batch[i].type = "updated" => view[batch[i].key] # Absent
       /\ batch[i].type = "deleted" <=> batch[i].value = Absent
  /\ \A i \in DOMAIN queue : queue[i].tag = "update" =>
       /\ queue[i].type = "new" => queue[i].key \notin live
       /\ queue[i].type = "updated" => queue[i].key \in live
       /\ queue[i].type = "deleted" <=> queue[i].value = Absent

============================================================================
