--------------------------- MODULE WatcherSyncer ---------------------------
(***************************************************************************)
(* The watcher syncer (libcalico-go/lib/backend/watchersyncer): one        *)
(* watcherCache goroutine per resource type lists its resources, watches   *)
(* for changes from the revision of the list, and sends what it learns to  *)
(* the watcherSyncer goroutine, which merges the updates and the statuses  *)
(* of all caches into the calls a consumer (Felix, Typha, confd) sees.     *)
(*                                                                         *)
(* A revision is the number of changes the datastore has seen.  A value is *)
(* the revision that wrote it, Absent where there is none.                 *)
(***************************************************************************)
EXTENDS Naturals, Sequences, FiniteSets

CONSTANTS Types,                 \* the resource types, one watcherCache each
          Keys,                  \* the keys of a type
          SendDeletesOnConnFail, \* types that forget everything when disconnected
          Unwatchable,           \* types that cannot be watched
          Optional,              \* types whose API may not be installed
          Etcd,                  \* the datastore is etcd, not the Kubernetes API
          MaxErrorsPerRevision,  \* watch errors at one revision before a full resync
          MaxRev,                \* bound: changes of the datastore
          MaxFaults,             \* bound: failures of the datastore
          MaxBacklog             \* bound: results of a cache waiting to be received

ASSUME SyncerAssumption ==
  /\ SendDeletesOnConnFail \subseteq Types
  /\ Unwatchable \subseteq Types
  /\ Optional \subseteq Types
  /\ Etcd \in BOOLEAN
  /\ IsFiniteSet(Keys)
  /\ MaxErrorsPerRevision \in Nat \ {0}
  /\ MaxRev \in Nat \ {0}
  /\ MaxFaults \in Nat
  /\ MaxBacklog \in Nat

VARIABLES log,       \* the changes of the datastore, in order
          faults,    \* how often the datastore has failed
          stopping,  \* Stop() was called: the context is cancelled
          wc,        \* each type's watcherCache
          results,   \* each cache's part of the results channel
          statuses,  \* ws.cacheStatuses
          status,    \* ws.status, the last status the consumer was told
          updates,   \* the updates being consolidated
          view       \* what the consumer has been told of each type

store == <<log, stopping>>
syncer == <<statuses, status, updates, view>>
vars == <<log, faults, stopping, wc, results, statuses, status, updates, view>>

Absent == 0

----------------------------------------------------------------------------
(* The datastore.                                                          *)

(* The greatest element of a set of positions, 0 if it is empty.           *)
Latest(S) == IF S = {} THEN 0 ELSE CHOOSE r \in S : \A s \in S : s <= r

(* The elements of a set in some order: that of a range over a map is not  *)
(* specified, and neither is that of the items of a list.                  *)
MapOrder(S) ==
  CHOOSE f \in [1..Cardinality(S) -> S] : \A i, j \in DOMAIN f : f[i] = f[j] => i = j

(* The last change of a key up to a revision.                              *)
ChangesOf(c, k, r) == {i \in 1..r : log[i].type = c /\ log[i].key = k}
LastChange(c, k, r) == Latest(ChangesOf(c, k, r))

(* The resources of a type at a revision.                                  *)
At(c, r) ==
  [k \in Keys |-> LET i == LastChange(c, k, r)
                  IN  IF i = 0 \/ log[i].del THEN Absent ELSE i]

Empty == [k \in Keys |-> Absent]
Now == Len(log)

(* Something outside the syncer creates, updates or deletes a resource.    *)
Change(c, k, del) ==
  /\ Len(log) < MaxRev
  /\ del => At(c, Now)[k] # Absent
  /\ log' = Append(log, [type |-> c, key |-> k, del |-> del])
  /\ UNCHANGED <<faults, stopping, wc, results, statuses, status, updates, view>>

(* A call fails, or is answered from an old cache.                         *)
Fault == faults < MaxFaults /\ faults' = faults + 1

(* A call may also fail because its context is cancelled.                  *)
Fails == Fault \/ (stopping /\ UNCHANGED faults)

(* A list is served at some revision: the last one, or with Kubernetes an  *)
(* earlier one that is not older than the one asked for, any one if "0" is *)
(* asked for.                                                              *)
ServedAt(asked, r) ==
  \/ r = Now /\ UNCHANGED faults
  \/ ~Etcd /\ r \in (IF asked = 0 THEN 1 ELSE asked)..(Now - 1) /\ Fault

----------------------------------------------------------------------------
(* Sending results.                                                        *)

StatusResult(s) == [tag |-> "status", status |-> s]
UpdatesResult(us) == [tag |-> "updates", updates |-> us]
ErrorResult == [tag |-> "error"]

(* sendResult swallows a status that the cache already has.                *)
Transition(from, to) == IF from = to THEN <<>> ELSE <<StatusResult(to)>>

\* Mutant: the status is left as it is.
LeaveWaitingNot(s) == s

(* "We should never send KV updates when we are in the WaitForDatastore    *)
(* state."                                                                 *)
LeaveWaiting(s) == IF s = "WaitForDatastore" THEN "ResyncInProgress" ELSE s

Present(f) == {k \in Keys : f[k] # Absent}
Deleted(k) == [key |-> k, value |-> Absent, type |-> "deleted"]

(* handleAddedOrModifiedUpdate: a value not seen before, unless the cached *)
(* one has the same revision.                                              *)
Learned(known, k, r) ==
  [key |-> k, value |-> r, type |-> IF known = Absent THEN "new" ELSE "updated"]

Ready(c, label) == wc[c].pc = label /\ Len(results[c]) <= MaxBacklog

Send(c, rs) == results' = [results EXCEPT ![c] = @ \o rs]

----------------------------------------------------------------------------
(* maybeResyncAndCreateWatcher: the resync loop of a cache.                *)

(* Top of the loop when a full resync is due.  A cache that polls, or      *)
(* whose API is missing, stays InSync through it.                          *)
StartResync(c) ==
  LET sticky == ~wc[c].crdInstalled \/ wc[c].polling # "no"
      s == IF sticky THEN wc[c].status
           ELSE IF wc[c].connected THEN "ResyncInProgress" ELSE "WaitForDatastore"
  IN  /\ Ready(c, "resync")
      /\ wc[c].full \/ wc[c].rev = 0
      /\ Send(c, Transition(wc[c].status, s))
      /\ wc' = [wc EXCEPT ![c].pc = "list", ![c].full = TRUE, ![c].polling = "no",
                          ![c].status = s]
      /\ UNCHANGED <<store, faults, syncer>>

(* The API of the type is not installed: in sync, for a long time.         *)
ListNotFound(c) ==
  /\ Ready(c, "list")
  /\ c \in Optional /\ At(c, Now) = Empty /\ Fault
  /\ Send(c, Transition(wc[c].status, LeaveWaiting(wc[c].status))
               \o Transition(LeaveWaiting(wc[c].status), "InSync"))
  /\ wc' = [wc EXCEPT ![c].pc = "resync", ![c].status = "InSync",
                      ![c].crdInstalled = FALSE, ![c].connected = TRUE]
  /\ UNCHANGED <<store, syncer>>

(* The revision asked for is too old, or newer than the server's.          *)
ListExpired(c) ==
  /\ Ready(c, "list") /\ Fault /\ ~Etcd
  /\ wc' = [wc EXCEPT ![c].pc = "resync", ![c].rev = 0, ![c].errors = 0,
                      ![c].crdInstalled = TRUE, ![c].connected = TRUE]
  /\ UNCHANGED <<store, results, syncer>>

(* Any other failure is retried, until the last success is too long ago.   *)
ListFailed(c) ==
  /\ Ready(c, "list") /\ Fails
  /\ wc' = [wc EXCEPT ![c].pc = "resync", ![c].crdInstalled = TRUE]
  /\ UNCHANGED <<store, results, syncer>>

(* sendDeletionsForAllResources, as results and as the cache left behind.  *)
Deletions(w) ==
  LET gone == Present(w.resources)
  IN  IF gone = {} THEN <<>>
      ELSE Transition(w.status, LeaveWaiting(w.status))
             \o [i \in 1..Cardinality(gone) |-> UpdatesResult(<<Deleted(MapOrder(gone)[i])>>)]

\* Mutant: the entries stay in the cache after their deletion was sent.
ForgottenKept(w) ==
  [w EXCEPT !.status = IF Present(w.resources) = {} THEN @ ELSE LeaveWaiting(@),
            !.rev = 0, !.errors = 0]

Forgotten(w) ==
  [w EXCEPT !.status = IF Present(w.resources) = {} THEN @ ELSE LeaveWaiting(@),
            !.resources = Empty, !.rev = 0, !.errors = 0]

(* Then the cache is disconnected, and tells the consumer.                 *)
ListTimedOut(c) ==
  LET w == [wc[c] EXCEPT !.pc = "resync", !.crdInstalled = TRUE, !.connected = FALSE]
  IN  /\ Ready(c, "list") /\ Fails
      /\ \/ /\ c \notin SendDeletesOnConnFail
            /\ Send(c, <<ErrorResult>>)
            /\ wc' = [wc EXCEPT ![c] = w]
         \/ /\ c \in SendDeletesOnConnFail
            /\ Send(c, <<ErrorResult>> \o Deletions(w))
            /\ wc' = [wc EXCEPT ![c] = Forgotten(w)]
      /\ UNCHANGED <<store, syncer>>

\* Mutant: a listed resource that is in the cache already is not sent.
ListResultsNewOnly(c, r) ==
  LET w == wc[c]
      listed == MapOrder({k \in Present(At(c, r)) : w.resources[k] = Absent})
      gone == MapOrder(Present(w.resources) \ Present(At(c, r)))
  IN  Transition(w.status, LeaveWaiting(w.status))
      \o [i \in DOMAIN listed |->
            UpdatesResult(<<Learned(w.resources[listed[i]], listed[i], At(c, r)[listed[i]])>>)]
      \o (IF gone = <<>> THEN <<>>
          ELSE <<UpdatesResult([i \in DOMAIN gone |-> Deleted(gone[i])])>>)
      \o Transition(LeaveWaiting(w.status), "InSync")

(* The results of a list served at revision r: every resource that is new  *)
(* or has a new revision, then the deletions of those not listed, then     *)
(* InSync (finishResync).                                                  *)
ListResults(c, r) ==
  LET w == wc[c]
      listed == MapOrder({k \in Present(At(c, r)) : At(c, r)[k] # w.resources[k]})
      gone == MapOrder(Present(w.resources) \ Present(At(c, r)))
  IN  Transition(w.status, LeaveWaiting(w.status))
      \o [i \in DOMAIN listed |->
            UpdatesResult(<<Learned(w.resources[listed[i]], listed[i], At(c, r)[listed[i]])>>)]
      \o (IF gone = <<>> THEN <<>>
          ELSE <<UpdatesResult([i \in DOMAIN gone |-> Deleted(gone[i])])>>)
      \o Transition(LeaveWaiting(w.status), "InSync")

\* Mutant: oldResources is not emptied: what the list left out is kept.
ListedKeepsOld(c, r) ==
  [wc[c] EXCEPT !.status = "InSync", !.connected = TRUE, !.crdInstalled = TRUE,
                !.resources = [k \in Keys |-> IF At(c, r)[k] # Absent THEN At(c, r)[k] ELSE @[k]]]

Listed(c, r) ==
  [wc[c] EXCEPT !.status = "InSync", !.resources = At(c, r), !.connected = TRUE,
                !.crdInstalled = TRUE]

\* Mutant: the list is asked for at revision 0, whatever is known.
ListFromZero(c) ==
  /\ Ready(c, "list")
  /\ \E r \in 1..Now :
       /\ ServedAt(0, r)
       /\ Send(c, ListResults(c, r))
       /\ wc' = [wc EXCEPT ![c] = [Listed(c, r) EXCEPT !.pc = "watch", !.rev = r,
                                                       !.errors = 0, !.full = FALSE]]
  /\ UNCHANGED <<store, syncer>>

ListSucceeds(c) ==
  /\ Ready(c, "list")
  /\ \E r \in 1..Now :
       /\ ServedAt(wc[c].rev, r)
       /\ Send(c, ListResults(c, r))
       /\ wc' = [wc EXCEPT ![c] = [Listed(c, r) EXCEPT !.pc = "watch", !.rev = r,
                                                       !.errors = 0, !.full = FALSE]]
  /\ UNCHANGED <<store, syncer>>

(* An empty list without a revision: nothing to watch from, so poll.       *)
ListWithoutRevision(c) ==
  /\ Ready(c, "list")
  /\ c \in Unwatchable
  /\ \E r \in 1..Now :
       /\ ServedAt(wc[c].rev, r)
       /\ At(c, r) = Empty
       /\ Send(c, ListResults(c, r))
       /\ wc' = [wc EXCEPT ![c] = [Listed(c, r) EXCEPT !.pc = "resync", !.rev = 0,
                                                       !.polling = "list"]]
  /\ UNCHANGED <<store, syncer>>

(* The watch is created after a list, or again from the revision reached.  *)
CanWatch(c) ==
  \/ Ready(c, "watch")
  \/ Ready(c, "resync") /\ ~wc[c].full /\ wc[c].rev # 0

WatchCreated(c) ==
  /\ CanWatch(c)
  /\ c \notin Unwatchable
  /\ wc' = [wc EXCEPT ![c].pc = "watching", ![c].pos = wc[c].rev]
  /\ UNCHANGED <<store, faults, results, syncer>>

WatchExpired(c) ==
  /\ CanWatch(c) /\ Fault /\ ~Etcd
  /\ wc' = [wc EXCEPT ![c].pc = "resync", ![c].rev = 0, ![c].errors = 0,
                      ![c].connected = TRUE, ![c].polling = "no"]
  /\ UNCHANGED <<store, results, syncer>>

WatchRefused(c) ==
  /\ CanWatch(c) /\ Fault /\ ~Etcd
  /\ \/ wc' = [wc EXCEPT ![c].pc = "resync"]
     \/ wc' = [wc EXCEPT ![c].pc = "resync", ![c].rev = 0, ![c].errors = 0,
                         ![c].connected = FALSE, ![c].polling = "no"]
  /\ UNCHANGED <<store, results, syncer>>

WatchUnsupported(c) ==
  /\ CanWatch(c)
  /\ \/ c \in Unwatchable /\ UNCHANGED faults
     \/ c \in Optional /\ Fault
  /\ wc' = [wc EXCEPT ![c].pc = "resync", ![c].polling = "watch", ![c].full = TRUE]
  /\ UNCHANGED <<store, results, syncer>>

\* Mutant: however many errors there were, a full resync is never forced.
WatchFailedForEver(c) ==
  /\ CanWatch(c) /\ Fails /\ ~Etcd
  /\ wc' = [wc EXCEPT ![c].pc = "resync", ![c].errors = @ + 1]
  /\ UNCHANGED <<store, results, syncer>>

(* Any other error counts, and enough of them at one revision force a full *)
(* resync.                                                                 *)
WatchFailed(c) ==
  /\ CanWatch(c) /\ Fails /\ ~Etcd
  /\ wc' = [wc EXCEPT ![c].pc = "resync", ![c].errors = @ + 1,
                      ![c].full = wc[c].errors + 1 >= MaxErrorsPerRevision]
  /\ UNCHANGED <<store, results, syncer>>

----------------------------------------------------------------------------
(* loopReadingFromWatcher.                                                 *)

Pending(c) == {i \in (wc[c].pos + 1)..Now : log[i].type = c}

(* The revision of an event: Kubernetes gives a deletion its own, etcd     *)
(* the revision of the value that it deletes.                              *)
EventRevision(i) ==
  IF log[i].del /\ Etcd THEN LastChange(log[i].type, log[i].key, i - 1) ELSE i

WatchEvent(c) ==
  /\ Ready(c, "watching")
  /\ \E i \in Pending(c) :
       LET k == log[i].key
           known == wc[c].resources[k]
           value == IF log[i].del THEN Absent ELSE i
       IN  /\ \A j \in Pending(c) : i <= j
           /\ Send(c, IF known = value THEN <<>>
                      ELSE IF log[i].del THEN <<UpdatesResult(<<Deleted(k)>>)>>
                      ELSE <<UpdatesResult(<<Learned(known, k, i)>>)>>)
           /\ wc' = [wc EXCEPT ![c].resources[k] = value, ![c].rev = EventRevision(i),
                               ![c].pos = i, ![c].errors = 0]
  /\ UNCHANGED <<store, faults, syncer>>

(* handleWatchBookmark: the watch has nothing older than this revision.    *)
WatchBookmark(c) ==
  /\ Ready(c, "watching") /\ ~Etcd
  /\ \E r \in (wc[c].pos + 1)..Now :
       /\ \A i \in Pending(c) : r < i
       /\ wc' = [wc EXCEPT ![c].rev = r, ![c].pos = r, ![c].errors = 0]
  /\ UNCHANGED <<store, faults, results, syncer>>

WatchClosed(c) ==
  /\ Ready(c, "watching") /\ Fault
  /\ wc' = [wc EXCEPT ![c].pc = "resync", ![c].pos = 0]
  /\ UNCHANGED <<store, results, syncer>>

WatchErrorExpired(c) ==
  /\ Ready(c, "watching") /\ Fault /\ ~Etcd
  /\ wc' = [wc EXCEPT ![c].pc = "resync", ![c].pos = 0, ![c].rev = 0, ![c].errors = 0]
  /\ UNCHANGED <<store, results, syncer>>

WatchError(c) ==
  LET tooMany == wc[c].errors + 1 >= MaxErrorsPerRevision
  IN  /\ Ready(c, "watching") /\ Fault
      /\ wc' = [wc EXCEPT ![c].pc = "resync", ![c].pos = 0,
                          ![c].rev = IF tooMany THEN 0 ELSE @,
                          ![c].errors = IF tooMany THEN 0 ELSE @ + 1]
      /\ UNCHANGED <<store, results, syncer>>

\* Mutant: the deletions are not sent on the way out.
CacheStopsQuietly(c) ==
  /\ stopping
  /\ Ready(c, "resync") \/ Ready(c, "watching")
  /\ wc' = [wc EXCEPT ![c] = [Forgotten(@) EXCEPT !.pc = "stopped", !.pos = 0]]
  /\ UNCHANGED <<store, faults, results, syncer>>

\* Mutant: the resync loop does not look at its context.
CacheStopsWatching(c) ==
  /\ stopping
  /\ Ready(c, "watching")
  /\ Send(c, Deletions(wc[c]))
  /\ wc' = [wc EXCEPT ![c] = [Forgotten(@) EXCEPT !.pc = "stopped", !.pos = 0]]
  /\ UNCHANGED <<store, faults, syncer>>

(* The context is done: run() deletes everything on its way out.           *)
CacheStops(c) ==
  /\ stopping
  /\ Ready(c, "resync") \/ Ready(c, "watching")
  /\ Send(c, Deletions(wc[c]))
  /\ wc' = [wc EXCEPT ![c] = [Forgotten(@) EXCEPT !.pc = "stopped", !.pos = 0]]
  /\ UNCHANGED <<store, faults, syncer>>

----------------------------------------------------------------------------
(* The watcherSyncer goroutine.                                            *)

(* Where a key's last update is in a sequence of updates, 0 if it has none.*)
LastUpdate(us, c, k) == Latest({i \in DOMAIN us : us[i].type = c /\ us[i].update.key = k})

(* What a consumer knows after OnUpdates.                                  *)
OnUpdates(v, us) ==
  [c \in Types |-> [k \in Keys |-> LET i == LastUpdate(us, c, k)
                                   IN  IF i = 0 THEN v[c][k] ELSE us[i].update.value]]

(* The status of the syncer, from those of its caches.                     *)
Combined(ss) ==
  IF \A c \in Types : ss[c] = "InSync" THEN "InSync"
  ELSE IF \A c \in Types : ss[c] = "WaitForDatastore" THEN "WaitForDatastore"
  ELSE "ResyncInProgress"

sendUpdates == view' = OnUpdates(view, updates) /\ updates' = <<>>

processUpdates(c, us) ==
  /\ updates' = updates \o [i \in DOMAIN us |-> [type |-> c, update |-> us[i]]]
  /\ UNCHANGED <<statuses, status, view>>

processError ==
  /\ sendUpdates
  /\ UNCHANGED <<statuses, status>>

\* Mutant: the transition is announced ahead of the updates.
processStatusFirst(c, s) ==
  /\ statuses' = [statuses EXCEPT ![c] = s]
  /\ status' = Combined(statuses')
  /\ UNCHANGED <<updates, view>>

(* A transition of the whole syncer is announced after what came before.   *)
processStatus(c, s) ==
  LET ss == [statuses EXCEPT ![c] = s]
  IN  /\ statuses' = ss
      /\ status' = Combined(ss)
      /\ IF Combined(ss) # status THEN sendUpdates ELSE UNCHANGED <<updates, view>>

(* processResult: the next result of some cache.  The channel keeps the    *)
(* order of one cache's results; those of different caches interleave.     *)
ProcessResult(c) ==
  /\ results[c] # <<>>
  /\ results' = [results EXCEPT ![c] = Tail(@)]
  /\ LET r == Head(results[c])
     IN  \/ r.tag = "updates" /\ processUpdates(c, r.updates)
         \/ r.tag = "error" /\ processError
         \/ r.tag = "status" /\ processStatus(c, r.status)
  /\ UNCHANGED <<store, faults, wc>>

(* The channel is empty for a moment, or enough updates are consolidated.  *)
Flush ==
  /\ updates # <<>>
  /\ sendUpdates
  /\ UNCHANGED <<store, faults, wc, results, statuses, status>>

Stop ==
  /\ ~stopping /\ stopping' = TRUE
  /\ UNCHANGED <<log, faults, wc, results, syncer>>

----------------------------------------------------------------------------
NewCache ==
  [pc |-> "resync", full |-> FALSE, rev |-> 0, pos |-> 0, errors |-> 0,
   status |-> "WaitForDatastore", crdInstalled |-> TRUE, polling |-> "no",
   connected |-> FALSE, resources |-> Empty]

Init ==
  /\ \E c \in Types, k \in Keys : log = <<[type |-> c, key |-> k, del |-> FALSE]>>
  /\ faults = 0
  /\ stopping = FALSE
  /\ wc = [c \in Types |-> NewCache]
  /\ results = [c \in Types |-> <<>>]
  /\ statuses = [c \in Types |-> "WaitForDatastore"]
  /\ status = "WaitForDatastore"
  /\ updates = <<>>
  /\ view = [c \in Types |-> Empty]

Resync(c) ==
  \/ StartResync(c)
  \/ ListNotFound(c) \/ ListExpired(c) \/ ListFailed(c) \/ ListTimedOut(c)
  \/ ListSucceeds(c) \/ ListWithoutRevision(c)
  \/ WatchCreated(c) \/ WatchExpired(c) \/ WatchRefused(c) \/ WatchUnsupported(c)
  \/ WatchFailed(c)

Watching(c) ==
  \/ WatchEvent(c) \/ WatchBookmark(c)
  \/ WatchClosed(c) \/ WatchErrorExpired(c) \/ WatchError(c)

Datastore ==
  \E c \in Types, k \in Keys, del \in BOOLEAN : Change(c, k, del)

Next ==
  \/ Datastore
  \/ Stop
  \/ \E c \in Types : Resync(c) \/ Watching(c) \/ CacheStops(c) \/ ProcessResult(c)
  \/ Flush

Spec == Init /\ [][Next]_vars

(* Every goroutine runs.  A select that is ready for a cancelled context   *)
(* again and again takes it some day.                                      *)
Fairness ==
  /\ \A c \in Types : WF_vars(Resync(c) \/ Watching(c)) /\ SF_vars(CacheStops(c))
  /\ \A c \in Types : WF_vars(ProcessResult(c))
  /\ WF_vars(Flush)

FairSpec == Spec /\ Fairness

----------------------------------------------------------------------------
Statuses == {"WaitForDatastore", "ResyncInProgress", "InSync"}
Revisions == 0..MaxRev
Resources == [Keys -> Revisions]
Updates == [key : Keys, value : Revisions, type : {"new", "updated", "deleted"}]

Caches ==
  [pc : {"resync", "list", "watch", "watching", "stopped"}, full : BOOLEAN,
   rev : Revisions, pos : Revisions, errors : 0..MaxErrorsPerRevision,
   status : Statuses, crdInstalled : BOOLEAN, polling : {"no", "list", "watch"},
   connected : BOOLEAN, resources : Resources]

(* Types; a cache never counts more errors at one revision than the number *)
(* that makes it resync.                                                   *)
TypeOK ==
  /\ \A i \in DOMAIN log : log[i] \in [type : Types, key : Keys, del : BOOLEAN]
  /\ Len(log) \in 1..MaxRev
  /\ faults \in 0..MaxFaults /\ stopping \in BOOLEAN
  /\ wc \in [Types -> Caches]
  /\ statuses \in [Types -> Statuses] /\ status \in Statuses
  /\ view \in [Types -> Resources]
  /\ \A i \in DOMAIN updates : updates[i] \in [type : Types, update : Updates]

(* The entries of a cache are those of the datastore at the revision from  *)
(* which it would watch again (currentWatchRevision), through every        *)
(* failure, stale list and re-created watch: no event falls between a list *)
(* and its watch.                                                          *)
CacheAtRevision ==
  \A c \in Types : wc[c].rev # 0 => wc[c].resources = At(c, wc[c].rev)

(* While the consumer has been told InSync, what it has of every type that *)
(* can be watched and is installed is what the datastore held at one       *)
(* revision: "the user of the API has the full picture"                    *)
(* (backend/api/api.go).                                                   *)
InSyncIsSnapshot ==
  status = "InSync" /\ ~stopping =>
    \A c \in Types \ (Unwatchable \cup Optional) : \E r \in 1..Now : view[c] = At(c, r)

(* An update is a "new" one exactly when the consumer does not have the    *)
(* key, and never repeats or deletes what the consumer has or lacks        *)
(* already (handleAddedOrModifiedUpdate, handleDeletedUpdate).             *)
UpdateTypesRight ==
  \A i \in DOMAIN updates :
    LET u == updates[i].update
        known == OnUpdates(view, SubSeq(updates, 1, i - 1))[updates[i].type][u.key]
    IN  /\ u.type = "new" <=> known = Absent
        /\ u.value # known

(* "We should never send KV updates when we are in the WaitForDatastore    *)
(* state": not to the consumer, nor for a type whose cache is waiting.     *)
NoUpdatesWhileWaiting ==
  [][/\ view' # view => status # "WaitForDatastore"
     /\ \A c \in Types :
          statuses[c] = "WaitForDatastore" =>
            \A i \in DOMAIN updates' : updates'[i].type = c => i \in DOMAIN updates]_vars

(* currentWatchRevision is "0 at start of day or the latest received       *)
(* revision": it is given up for a full resync, and never goes back.       *)
RevisionNotBackwards ==
  [][\A c \in Types : wc'[c].rev # 0 => wc'[c].rev >= wc[c].rev]_vars

(* "Delete events are created for all items in the watcher caches": when   *)
(* the caches have stopped and their results are sent, the consumer has    *)
(* nothing left.                                                           *)
StopDeletesAll ==
  (\A c \in Types : wc[c].pc = "stopped" /\ results[c] = <<>>) /\ updates = <<>>
    => \A c \in Types : view[c] = Empty

Converged == status = "InSync" /\ \A c \in Types : view[c] = At(c, Now)

(* Once the datastore stops failing and changing, the consumer is told of  *)
(* all that is there and of InSync, for good.                              *)
Converges == <>[](Converged \/ stopping)

(* Stop() returns: every cache leaves its loop and its results are taken.  *)
StopFinishes == stopping ~> \A c \in Types : wc[c].pc = "stopped" /\ results[c] = <<>>
============================================================================
