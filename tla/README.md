# Calico: a verified model of its address management and its datastore syncers

Calico connects and polices workloads. This directory specifies, model-checks and proves
properties of the two parts of it in which concurrency is hardest:

* IP address management (IPAM, `libcalico-go/lib/ipam`) on top of the datastore client, where
  many processes on many machines change shared rows without a lock;
* the way of the datastore's contents to Felix and the other consumers: the watcher syncer
  (`libcalico-go/lib/backend/watchersyncer`), Typha (`typha/pkg`), and the deduplicating buffer
  (`libcalico-go/lib/backend/syncersv1/dedupebuffer`), where a copy is kept up to date through
  failures, restarts and reconnections.

Paths below are relative to `src/`.

* [The system](#the-system): parts, interactions, what is hard
* [Modules](#modules): which module models which code, and how
* [Runs](#runs): what TLC checks, on which instances
* [Proofs](#proofs): what TLAPS proves, from what, and why it is true
* [Disagreements](#where-code-and-text-disagree) between code and text
* [What is not modelled](#what-is-not-modelled)

## The system

| Part | State | Operations that change it | Talks to |
|---|---|---|---|
| etcd datastore client (`backend/etcdv3`) | rows with a revision | Create, Update, Apply, Delete | etcd |
| Kubernetes datastore client (`backend/k8s`) | custom resources with a resourceVersion and a UID | Create, Update, DeleteKVP (mark, then delete) | Kubernetes API |
| IPAM blocks and affinities (`ipam.go`, `ipam_block_reader_writer.go`) | one row per block, one per (host, block) | AutoAssign, AssignIP, ClaimAffinity, ReleaseAffinity, ReleaseHostAffinities, ReleasePoolAffinities, RemoveIPAMHost, EnsureBlock, ReleaseIPs | datastore client |
| IPAM handles (`ipam_handle.go`) | one row per handle: block -> count | the assigning and releasing operations above, ReleaseByHandle, MoveIPToHandle | datastore client |
| IPAM block layout (`ipam_block.go`) | allocation array, unallocated list, attribute table, sequence numbers | autoAssign, assign, release, garbage collection | in memory |
| watcher syncer (`backend/watchersyncer`) | a cache of rows per resource type, sync status | list, watch, resync, stop | datastore client, Typha, Felix |
| Typha (`typha/pkg`) | snapshot cache and breadcrumbs, connections | publish, send snapshot and deltas, reconnect | syncer, client |
| deduplicating buffer (`backend/syncersv1/dedupebuffer`) | queue, keys the consumer has | queue, send, resync | Typha's client, Felix |
| Felix (`felix`) | calculation graph, desired and actual dataplane | update, flush, resync | Typha, kernel |
| kube-controllers | caches of nodes, pods and blocks | address garbage collection, load balancer addresses | IPAM library |
| CNI plugin, calicoctl, node start-up | none of their own in IPAM | call the library | IPAM library |
| confd | rendered BGP configuration | renders confirmed affinities as routes | watches |
| Goldmane | ring of flow buckets | add, roll over, stream | flow sources |

`PROJECT.json` lists every part of the repository, with the reason where it is not modelled.

What makes IPAM hard: no operation holds a lock; a block, its affinity and the handles of its
addresses are different rows, written one after the other; each write is a compare-and-swap
that may fail, and what failed may be retried from a different point; each process may die
between two writes; a released block may be claimed by somebody else at once; a delete in the
Kubernetes API cannot compare a revision. The properties that matter:

1. a confirmed affinity is backed by a block of that host (routes are advertised on the
   strength of it);
2. no address is given to two users, and no allocation disappears but by its release;
3. an assigned address is counted by its handle (it is found, and freed, through the handle),
   and a handle's cap holds;
4. a deletion in the Kubernetes datastore never removes a row that came back to life;
5. hosts that compete for the last block do not do so for ever.

What makes the syncers hard: a list and the watch that continues it are two calls; lists may be
served from an old cache; any call may fail, and each kind of failure is handled differently;
statuses and updates of several goroutines are merged; a snapshot is cached and sent while the
data move on; connections break anywhere and the deletions of the meantime are never sent; the
consumer may be slow while updates replace each other in a queue. The properties that matter:

6. a cache holds what the datastore held at the revision from which it will watch, so no event
   is lost or applied twice;
7. a consumer that is told InSync has the full picture, and nothing left over from before a
   reconnection;
8. every update fits what the consumer has (new, updated or deleted), and none comes while it
   is told to wait for the datastore;
9. once failures stop, the consumer gets to the datastore's contents and to InSync; Stop ends.

The hazards are listed in `PROJECT.json`, each at the line where it bites, with the
properties that would catch it.

## Modules

| Module | Role | Source |
|---|---|---|
| `CASStore` | the datastore as its clients see it; the abstract specification of `KDDBlockStore` | `backend/etcdv3/etcdv3.go` |
| `KDDBlockStore` | the two-step deletion over the Kubernetes API | `backend/k8s/resources/ipam_block.go`, `customresource.go` |
| `AffinityProtocol` | claim, use, release and reclaim of blocks | `ipam_block_reader_writer.go`, `ipam.go` |
| `HandleAccounting` | handle counts against the addresses in blocks | `ipam.go`, `ipam_handle.go` |
| `ReleaseBatch` | ReleaseIPs of many addresses: goroutines that share listed handles (extends `HandleAccounting`) | `ipam.go` |
| `WatcherSyncer` | the caches of a syncer, and the goroutine that merges their results | `backend/watchersyncer/watchercache.go`, `watchersyncer.go` |
| `SnapCache` | Typha's snapshot cache and its trail of breadcrumbs | `typha/pkg/snapcache/cache.go` |
| `DedupeBuffer` | the deduplicating buffer, with any client (`DedupeSpec`) | `backend/syncersv1/dedupebuffer/dedupe_buffer.go` |
| `TyphaSync` | composition: syncer, `SnapCache`, a connection of the server, the client, `DedupeBuffer` | `typha/pkg/syncserver`, `typha/pkg/syncclient` |
| `MCAffinity`, `MCHandles`, `MCBatch`, `MCKDD`, `MCSyncer`, `MCTypha` | instances for TLC: symmetry where it is used and, for `affinity_progress`, the scheduling assumptions | |
| `AffinityProofs` | theorems about `AffinityProtocol` | |
| `KDDProofs` | theorems about `KDDBlockStore` | |
| `HandleProofs` | theorems about `HandleAccounting` | |
| `SyncerProofs` | theorems about `WatcherSyncer`: the caches, and what the consumer is told | |
| `TyphaProofs`, `TyphaStages`, `TyphaLink`, `TyphaDelivery` | theorems about `DedupeBuffer` and `TyphaSync`: the buffer and the wake-ups, the stages between datastore and sink, and what the sink ends up with | |

The composition is by instance: `AffinityProtocol` and `HandleAccounting` each use two
instances of `CASStore` (for blocks and affinities, for blocks and handles), and
`KDDBlockStore` is shown to implement `CASStore`, so the store that the IPAM modules assume is
the store the Kubernetes client provides. `TyphaSync` instantiates `SnapCache`, extends
`DedupeBuffer`, and has for the syncer three actions of its own (`SayResync`, `SendListed`,
`SaySynced`) with the calls that `WatcherSyncer` makes on its consumer when nothing fails.

**Grain.** Every action of the IPAM modules is one datastore call together with the code
between it and the next call. `pc[p]` names the next call of process `p`. All the memory of a
process dies with it (`Crash`), and when it returns.

### CASStore

A revision is only ever compared for equality with the revision the row has now. Instead of
numbers the module keeps, for each row, the set of clients whose copy is at the current
revision (`current`): a read or a successful write puts the client in, a write throws all
others out. This keeps the state space finite with no bound on revisions.

### KDDBlockStore

`api` is the object in the Kubernetes API, `sameRev` and `sameUID` are the clients whose copy
has its resourceVersion or its UID. `Mark`, `GetBeforeDelete` and `Delete` are the three API
calls of `DeleteKVP`. A `Get` that finds a marked row goes through the same three.
`List` returns marked rows, and an `Update` with such a copy writes the mark back.

### AffinityProtocol

`block` and `affinity` are the rows; `aged` stands for the comparison of AffinityClaimTime
with EmptyBlockMinReclaimAge; `listed` is the set of processes that listed the block at its
present sequence number. The label prefixes follow the functions: `gb...` is
getBlockFromAffinity, `createAffinity` to `pendAffinity` is getPendingAffinity, `createBlock`
to `recheckGone` is claimAffineBlock, `rel...` is releaseBlockAffinity, `releaseQuery` and
`releaseUpdate` are ReleaseIPs followed by ensureConsistentAffinity.

Abstractions: a block is the host it is affine to and the set of addresses in use; one address
is assigned at a time; any block may be a candidate (pool selection is left out, and a pool may
stop selecting a node at any time); retry loops have no limit (an operation that gives up after
`datastoreRetries` leaves the rows as one that dies there).

### HandleAccounting and ReleaseBatch

A block maps ordinals to handles; a handle maps blocks to counts. `incQuery`/`incWrite` are
incrementHandle, `decQuery`/`decWrite` decrementHandle, `due` the decrements an operation has
still to make. Claims and releases of affinities are single steps here, since
`AffinityProtocol` has their detail. `CountBound` bounds the counts: an increment beyond it is
not taken. IP versions, attributes and the cooldown are left out (IPCooldownSeconds is 0, the
default).

`ReleaseBatch` adds the listed handle copies (`cache`), which the goroutines of one call change
in place.

### WatcherSyncer

`log` is the datastore: the sequence of its changes, so that a revision is a position in it and
`At(c, r)` is what a list of type `c` at revision `r` returns. `wc[c]` is the watcherCache of a
type, field by field; its `pc` is `resync` (top of the loop in maybeResyncAndCreateWatcher),
`list`, `watch`, `watching` (loopReadingFromWatcher) or `stopped`. Each outcome of the List and
Watch calls that the code tells apart is an action: NotFound, Expired, a failure, a failure
after the connection timeout, success, success without a revision; created, expired, refused,
not supported, failed. All that the code does after the call up to the next call or channel
read is part of the action. `results[c]` is that cache's part of the results channel:
the channel keeps the order of each sender, and the receiver may get the senders' results in
any interleaving. Timers are abstracted: any failure may or may not be past the timeout.
Conversions by update processors are left out: a resource is one key and one value.

### SnapCache, DedupeBuffer and TyphaSync

`crumbs` is the chain of breadcrumbs, `current` the one that currentBreadcrumb points to;
between the two stores of publishBreadcrumb a reader can see the link and not yet the new
current crumb. A connection sleeps on the condition variable only if it has found no next crumb
with the lock held (`CanSleep`). A connection's `from` and `at` are the crumb of its snapshot
and the one it has followed to; `wire` holds the messages under way, and is lost with the
connection. `active` is the crumb of the cached binary snapshot, which may be older than the
current one. In the buffer `queue` is pendingUpdates, `batch` what the sender has taken off and
not yet told the sink: the lock is not held then, so all the client's calls interleave with it.
Values are compared, not serialised; the handshake is one step.

## Runs

Passing runs; the sizes are distinct states after symmetry.

| Run | Instance | Shows |
|---|---|---|
| `affinity_auto` | 2 hosts, 2 processes, 1 block, 1 address, StrictAffinity; AutoAssign, ReleaseAffinity, crashes (about 690,000) | `ConfirmedOwned`: a confirmed affinity has its block. `AllocationsKept`, `AddressesGrantedOnce`, `ReclaimsWhatItListed`. `ProtocolInv`, the inductive invariant of the proofs |
| `affinity_assign` | the same without StrictAffinity; AutoAssign with borrowing, AssignIP, ClaimAffinity, ReleaseIPs (about 640,000) | addresses are granted once and kept also where the affinity rows may be wrong |
| `affinity_progress` | 2 hosts, one process each at a time; AutoAssign, ReleaseIPs | `SomeOperationEnds` |
| `handles_cover` | 1 handle, 1 block of 2 addresses, requests for 1 or 2; AutoAssign, AssignIP, ReleaseIPs, ReleaseAffinity, crashes (about 240,000) | `AllocationsCovered`: no address without its count; `DecrementsFit` |
| `handles_exact` | 2 handles; AutoAssign, MoveIPToHandle, ReleaseIPs, ReleaseByHandle; nobody dies (about 68,000) | `CountsExact` at rest, `ClaimsCovered` in between |
| `handles_cap` | cap 1, 2 blocks; AutoAssign, AssignIP, ReleaseByHandle, crashes (about 27,000) | `HandleCapped` |
| `kdd_store` | 1 key, 2 values, 3 clients that may die (about 100,000) | `ImplementsCASStore`, `MarkedForGood`, `DeletionInv` |
| `watcher_sync` | 2 types of 1 key, one of them unwatchable, optional and deleted on a disconnection; 2 revisions, 2 failures, Stop (about 540,000) | `CacheAtRevision`, `RevisionNotBackwards`: caches follow the datastore. `InSyncIsSnapshot` (of the types that can be watched and are installed), `UpdateTypesRight`, `NoUpdatesWhileWaiting`, `StopDeletesAll`: what the consumer is told |
| `watcher_converges` | 1 type of 2 keys, 3 revisions, 4 failures, Stop (about 130,000) | `Converges`, `StopFinishes`; also `TypeOK`, `CacheAtRevision` and `UpdateTypesRight` with two keys of a type |
| `typha_sync` | 2 keys, 1 change or resync, 1 broken connection or restart, binary snapshots, crumbs of up to 2 updates, messages of 1 (about 1,700,000) | `NothingLost`, `InSyncIsThisTrail`, `FullPicture`, `NoSleeperLeft`; `TypesMakeSense` and its invariant `LiveInv` |
| `typha_converges` | 1 key with 2 values, streamed snapshots, crumbs of 1 update, 1 change or resync, 1 fault (about 430,000) | `Converges`; also `NothingLost` with streamed snapshots |

**Why the bounds are enough to be interesting.** One block is the contended case: everybody
who needs a block needs this one, so claims, releases and reclaims always meet. With one
address a block is either empty (it may be reclaimed and deleted) or full (borrowing and the
hunt for another block set in). Two processes, on the same host or on two, are what a race of
a claim with a release takes; `kdd_store` has three clients because one deletes, one helps and
one creates the row anew. Two blocks in `handles_cap` make two assignments race on the handle
alone. In the syncer runs two types are what merging takes, and the second type has every
peculiarity at once; two keys are what a list that returns one and deletes the other takes; four
failures are two more than MaxErrorsPerRevision (which the instances set to 2). In the Typha
runs two keys make a snapshot of two messages, between which the connection can break, and the
buffer's sender takes two entries at a time, so that there is a batch under way and a queue
behind it. The datastore starts with every key present, so the one change deletes a key or
writes it again. One fault is one reconnection or one restart; two in a row, and a consumer that
is reconnected while it still works off the reconnection before, are covered by the proofs, as
are crumbs and messages of any size.
What these instances do not reach is covered by the proofs for the properties proved below.

**Symmetry** permutes processes, hosts, and in `MCHandles` handles, blocks and addresses. It
is used only where all properties are invariants or action properties, not in
`affinity_progress` and the runs of the syncers.

**Deadlock** is checked in all runs but `watcher_sync` and `watcher_converges`, where the syncer
may be stopped and then does nothing more.

**Fairness.** In `watcher_converges` and `typha_converges` each goroutine that can run eventually
does. `WatcherSyncer` has strong fairness of `CacheStops` besides: a Go select that finds its
cancelled context ready again and again takes it some day, even if it also finds events. Faults
are bounded (`MaxFaults`), so the properties are about what happens once failures stop; the
ticker of Typha's cache, which wakes all connections, is given no fairness, so nothing relies on
it. In `affinity_progress` each process that can make its next call
eventually does (weak fairness of `Step(p)`), which is what the Go scheduler and an answering
datastore give. Two further assumptions are stated in `MCAffinity`:

* `HostLocked`: one AutoAssign per host at a time. The CNI plugin takes the host's IPAM lock
  file (`cni-plugin/pkg/ipamplugin/ipam_plugin.go:593`). Without the lock two processes of one
  host can make each other retry; the code then stops after `datastoreRetries` (100).
* `Prompt`: a host that is working on its claim takes its address within
  EmptyBlockMinReclaimAge (a minute). Without it the block goes to and fro, which is what
  this constant is for.

Both constrain steps of the model, so they are assumptions about the environment and not
consequences of fairness. The property does not say that every operation ends.

### Where code and text disagree

`batch_shared_handles` is a run in which TLC finds `AllocationsCovered` violated, and a finding
in `PROJECT.json`: the goroutines of one ReleaseIPs change the same listed handle objects in
place, where `libcalico-go/lib/ipam/ipam.go:1382` says that they "don't typically compete for
resources". It is about the Kubernetes datastore; with etcd the two writes would have to be in
flight together (see the module's header).

Four more disagreements are found in the same way. The configurations are kept beside the
others; `tlc -config <cfg> <module>` prints the counterexample.

| Configuration | The code | The text |
|---|---|---|
| `MCAffinityDirect.cfg` (`MCAffinity`) | claimAffineBlock, which AssignIP calls straight after getPendingAffinity, confirms the affinity of an existing block without writing the block; a releaser that read the block before can still delete it. `ConfirmedOwned` fails | `design/ipam/ipam-datastore.md:47` |
| `MCAffinityGivenUp.cfg` (`MCAffinity`) | the block is deleted before the affinity row, and other hosts look only at the block. `NotReclaimedWhileGivenUp` fails | `design/ipam/ipam-datastore.md:48` |
| `MCHandlesAssignIP.cfg` (`MCHandles`) | AssignIP retries after an update conflict without giving its count back. `CountsExact` fails | `libcalico-go/lib/ipam/ipam.go:1197` |
| `MCHandlesGone.cfg` (`MCHandles`) | releaseByHandle takes a block that is gone for one it deleted and decrements the handle again. `AllocationsCovered` fails | `libcalico-go/lib/ipam/ipam.go:1189` |

This is why the passing runs choose their operations: `affinity_auto` leaves out AssignIP and
ClaimAffinity, `handles_cover` leaves out ReleaseByHandle, `handles_exact` leaves out AssignIP,
releases of affinities and crashes.

With etcd a deletion event carries the revision of the value that it deletes
(`backend/etcdv3/conversion.go:73` and `:117`), and handleWatchListEvent takes it for
currentWatchRevision (`watchercache.go:602`), which thereby goes back, while
`watchercache.go:353` calls it "the latest received revision". A watch that is created again
before the next event then starts from the older revision and repeats events that the consumer
has had. TLC shows it with `Etcd = TRUE`: `CacheAtRevision` fails with the other constants as in
`MCSyncerTypes.cfg`, `RevisionNotBackwards` with those of `MCSyncerConverges.cfg` (it takes two
keys and three revisions: a key that was not the last to be written is deleted). With the
Kubernetes API, where a deletion has a revision of its own, both hold.

Observed while modelling, with no run of their own: AssignIP tests for a pointer to
errBlockClaimConflict where the value is returned, so that a claim conflict reaches its caller
(`ipam.go:1030`); AutoAssign counts the addresses it still wants and not those the block
supplied, so that a handle may count too many (`ipam.go:1549`); DeleteKVP may answer with an error
although its mark took effect (`ipam_block.go:112`, in `backend/k8s/resources`); a block may
carry a host that has no affinity row for it, which that host's next AutoAssign repairs; a list
that answers NotFound keeps the entries of a type whose API was removed (`watchercache.go:366`);
the deduplicating buffer says that it adds at most one status for each update
(`dedupe_buffer.go:118`), but a key that is deleted before it was sent leaves two statuses next
to each other.

## Proofs

All are checked by TLAPS for every number of hosts, blocks, addresses, processes, handles, keys,
values, types and clients, and every value of the bounds. The assumptions on constants are the
named ones in the modules that declare them: the marks for absent rows are not rows, there is at
least one block and one address (`AffinityProtocol`, `KDDBlockStore`); processes, blocks and the
addresses of a block are finite, since they are counted (`HandleAccounting`); keys are finite and
batches not empty (`DedupeBuffer`, `TyphaSync`); keys are finite and a cache tolerates at least one error
(`WatcherSyncer`).

| Theorem | Statement | Extra assumption |
|---|---|---|
| `AffinityProofs!TypeCorrect` | `Spec => []TypeOK` | none |
| `AffinityProofs!ProtocolCorrect` | `Spec => []ProtocolInv` | `NoDirectClaims` |
| `AffinityProofs!ConfirmedAffinityIsTrue` | `Spec => []ConfirmedOwned` | `NoDirectClaims` |
| `AffinityProofs!NothingElseReclaimed` | `Spec => ReclaimsWhatItListed` | `NoDirectClaims` |
| `AffinityProofs!NoAllocationLost` | `Spec => AllocationsKept` | none |
| `AffinityProofs!NoAddressGrantedTwice` | `Spec => AddressesGrantedOnce` | none |
| `KDDProofs!DeletionSafe` | `Spec => []DeletionInv` | none |
| `KDDProofs!KubernetesImplementsCASStore` | `Spec => ImplementsCASStore` | none |
| `KDDProofs!MarkIsFinal` | `Spec => MarkedForGood` | none |
| `HandleProofs!CountsCover` | `Spec => []ClaimsCovered` | `Separate` |
| `HandleProofs!HandlesCover` | `Spec => []AllocationsCovered` | `Separate` |
| `HandleProofs!DecrementsAlwaysFit` | `Spec => []DecrementsFit` | `Separate` |
| `HandleProofs!HandleTypes` | `Spec => []TypeOK` | `Separate` |
| `HandleProofs!HandleCountsExact` | `Spec => []CountsExact` | `OneByOne` |
| `HandleProofs!CapNeverExceeded` | `Spec => []HandleCapped` | `Separate`, `MaxAlloc > 0`, no MoveIPToHandle |
| `SyncerProofs!CachesFollow` | `Spec => []CacheAtRevision` | `~Etcd` |
| `SyncerProofs!RevisionsForward` | `Spec => RevisionNotBackwards` | `~Etcd` |
| `SyncerProofs!UpdateTypesAreRight` | `Spec => []UpdateTypesRight` | none |
| `SyncerProofs!StopLeavesNothing` | `Spec => []StopDeletesAll` | none |
| `SyncerProofs!InSyncIsFull` | `Spec => []InSyncIsSnapshot` | `~Etcd` |
| `SyncerProofs!NoneWhileWaiting` | `Spec => NoUpdatesWhileWaiting` | none |
| `SyncerProofs!SyncerTypes` | `Spec => []TypeOK` | none |
| `TyphaProofs!LiveKeysExact` | `DedupeSpec => []LiveInv` | none |
| `TyphaProofs!SinkTypesMakeSense` | `DedupeSpec => []TypesMakeSense` | none |
| `TyphaProofs!SleepersAreWoken` | `Spec => []NoSleeperLeft` | none |
| `TyphaDelivery!DeliveryLosesNothing` | `Spec => []NothingLost` | none |
| `TyphaDelivery!NothingFromBefore` | `Spec => []InSyncIsThisTrail` | none |
| `TyphaDelivery!InSyncIsFullPicture` | `Spec => []FullPicture` | none |
| `TyphaDelivery!TyphaTypesMakeSense` | `Spec => []TypesMakeSense` | none |

`NoDirectClaims` says that AssignIP and ClaimAffinity are not among the operations. For
`ConfirmedOwned` it cannot be dropped: `MCAffinityDirect.cfg` has the counterexample. For
`ReclaimsWhatItListed` it comes with the invariant it is proved from.

**The affinity argument.** `ConfirmedOwned` is not inductive: whether confirming is safe
depends on who could still take the block away. `ProtocolInv` adds

* `CopyIsRow`: a copy that would pass the compare-and-swap equals the row; with `CopyChecked`,
  what was tested on the copy therefore holds of the row when the write goes through;
* `ReleasesMarked`: a releaser marks the affinity before it touches the block, so whoever can
  still disown a block (`CanDisown`) has an affinity that is not confirmed;
* `ClaimsUndisturbed`: a claimer whose copy of the affinity is current excludes such a
  releaser. Marking makes the claimer's copy stale, and a claimer that marks `pending` after
  the releaser writes the block before it confirms, which makes the releaser's copy stale;
* `ReclaimsFresh`: a reclaim that can still delete has the version it listed.

`AffinityProofs` first says what the datastore calls do to the rows and to the copies of others
(`Moves`), proves that every step is such a move, and assembles the theorems from the moves.

That no allocation is lost and no address granted twice needs much less, and holds with AssignIP
and ClaimAffinity too: `CopiesCurrent`, which is `TypeOK` and `CopyIsRow` alone. Whatever the
operation, a step keeps its copy of a block, reads it afresh, writes or deletes the row through
it, or forgets it (`CopySteps`). A write that goes through was therefore made from the row as it
was: the address it adds was free there, the addresses it keeps are all there were, but for the
one that ReleaseIPs names, and the host that StrictAffinity was checked against is the row's.

**The deletion argument.** The second half of a deletion compares only the UID. `DeletersMarked`
says the object with that UID is still marked then. It is inductive together with `CopiesTrue`:
any copy that could overwrite the object carries the mark, so nobody can clear it. The refinement
maps a marked row to an absent one; the deletion happens at the mark, and the second half is a
stutter.

**The handle argument.** `Separate` says that ReleaseByHandle and ReleaseAffinity are not both
among the operations. It cannot be dropped: a block deleted under ReleaseByHandle makes it
decrement twice (`ipam.go:2060`; `MCHandlesGone.cfg`). `AllocationsCovered` is not inductive,
since a count rises before the block is written and falls after. `ClaimsCovered` says that a
count covers the addresses of the handle in the block together with what processes have counted
and not yet written, and with the decrements still due. `AccountsOK` adds that a copy which would
pass the compare-and-swap equals its row (`CopiesOK`), that what a process is about to take is
free in its copy and no more than it counted (`TakingOK`), and which operation is at which point
(`FlowOK`, `RowsOK`). The sum over processes is the cardinality of a set of tokens, pairs of a
process and a number: a step changes the tokens of one process only, so `TokensMove` reduces the
sum to that process.

**The exact counts.** `OneByOne` says that requests are of one address each and that AssignIP,
ReleaseAffinity and Crash are not among the operations; each of them can leave a count behind
(`MCHandlesAssignIP.cfg` has one), and so does an assignment of several addresses that finds fewer
in the block. Where `Balanced` says that a step adds no more to the addresses and to what is in
flight than to the counts, `Kept` says the converse, and `ExactOK` adds what it needs: an
assignment that has counted has one address to write, and a count about to be taken off is in the
copy, so that neither decrementBlock fails nor the row is missing. At rest nothing is in flight and
the two inequalities meet.

**The cap argument.** `HandleCapped` is about addresses in blocks, the code compares the sum of a
handle's counts. Since the counts cover the addresses (`AccountsOK`), it is enough that no row
counts more than the cap. `CapOK` adds that a process about to write a handle row has compared
what it is going to write: its copy and its increment are within the cap, and if the copy is
not the row any more the write fails. `totalCount`, a sum over blocks, is the cardinality of a set
of tokens as above. MoveIPToHandle is left out because it increments without comparing
(`ipam.go:1191` passes no cap).

**The syncer argument.** `CachesOK` adds to `CacheAtRevision` that no cache is ahead of the
datastore, that a watch is only created from a revision, and that a watch that is open has
delivered everything up to the cache's revision. An event is the next change of the type after
that revision, so nothing the cache holds has changed in between (`LastChange` of the other keys
is the same). `~Etcd` is needed where a deletion event sets the revision.

**The consumer's argument.** What a consumer of a watcher syncer knows lags behind what the caches
hold, by the results in the channel and the updates being put together. `Leads(G, rs, x, y)` says
that the results `rs` of one cache lead from what the consumer knows of the type (`x`: its
entries and the status) to what the cache holds (`y`) along points that all belong to `G`, each
update of the right type for the point before it. `StreamOK` says that the results under way
lead from `Told(c)` to `Held(c)` for every type, where `Full(c)` is the set `G`: a point that is
InSync is a snapshot of the datastore at one revision. Results of other caches do not
change the point of this one, so interleavings need no case of their own; several updates
handed over at once are one step along the path (`OnMore`). Everything the consumer is told
follows: types are right since every step of the path is; a stopped cache is empty and has no
results left, so the consumer is at its end point; the merged status is InSync only if each
status is (`Combined`), and then each type's point is in `Full`. `~Etcd` is needed for `Full` only,
through `CachesFollow`.

`TypeOK` of the syncer says more than types: a cache counts at most maxErrorsPerRevision errors at
a revision. That is not inductive by itself, since an error on a watch adds one. `BoundsOK` adds
that a cache whose count has reached the number is about to resync and has no watch (`Bounded`).

**The buffer argument.** `LiveInv` relates what the buffer believes to what the sink has:
liveResourceKeys is updated when a batch is taken off, so it is what the sink will have once
the batch under way is told. `DedupeSpec` lets the client make any call at any time, one
update in each. Typha's client passes on lists of updates; a list is as many calls in a row
(`OnUpdatesTold`), so the invariant holds of `TyphaSync` too.

**The wake-up argument.** Breadcrumb.Next looks for a successor with the lock held before it
sleeps, and publishBreadcrumb links, makes current and broadcasts in this order. So a connection
that sleeps at a crumb with a successor went to sleep before the link, and the publisher is
between the link and the broadcast (`SleeperInv`). The ticker is not used.

**The delivery argument.** What Typha knows and what the sink knows are far apart, and every
place in between holds a list of updates. `After(us, k, x, y)` says that a list takes key `k`
from `x` to `y`, `Within(us, k, T)` that it gives `k` no value outside `T`; both are shown for
the loops of the code by induction along the list (`FoldExists`, from the least element of
`WellFoundedInduction`). The invariant `TyphaInv` has four parts:

* `LiveInv`, of the buffer;
* `CacheInv`: the deltas of a breadcrumb lead from the contents of the one before it to its own,
  so those of several crumbs in one message lead from the first to the last (`DeltasAfter`);
* `FullInv`, of a key that has not changed since Typha started: no other value than the
  datastore's is under way anywhere in the cache, and wherever an InSync is (among the calls, as
  the pending status, on a crumb) the key's value is ahead of it or in place;
* `LinkInv`: the messages on the wire lead from what the client has of a key (`Held`) to the
  crumb the server has followed to, with values that fit (`Fit`: of this trail and, for a key
  that has not changed, the datastore's), and an InSync on the wire comes where the key fits.
  Once InSync was received, what the buffer will have told fits, and the sink's value fits
  whenever no status is under way (`InTime`): an update of the key that the sink has yet to be
  told stands before the status.

A key not seen since a reconnection counts as gone in `Held`; that the buffer then deletes it is
the one step in which what it holds and what it will tell come together (`StatusHeld`).
`NothingLost` is `LinkInv` read off the sequences, and the other two follow from `InTime`.
`TyphaStages` has what the first two parts need, `TyphaLink` the third and the client's half of the
fourth, `TyphaDelivery` the server's half and the theorems.

**Only model-checked**, on the instances above: liveness (`SomeOperationEnds`, `Converges` of
both modules, `StopFinishes`), which is out of the prover's reach.

## What is not modelled

The models cover about one percent of the repository's lines: most of it is conversion,
rendering, configuration and dataplane code. `PROJECT.json` has all parts with their reasons. Of
the modelled parts, the following is left out.

* IPAM: pool selection, reservations and configuration (they decide which blocks are candidates;
  the models let any block be one), utilization (only reads), UpgradeHost, the retry limit, IP
  versions, Windows reserved addresses, load balancer blocks. ReleaseHostAffinities,
  ReleasePoolAffinities, RemoveIPAMHost and EnsureBlock, which repeat the modelled operations on
  several blocks.
* The layout of a block (allocation array, unallocated list, attribute table, sequence numbers,
  cooldown): sequential code in one process, which the models see as the set or the owners of its
  addresses.
* Datastore calls of IPAM whose answer is lost. A process that dies after its write covers the
  rows such a call leaves, but not what the library does when it is told of an error although the
  write was made.
* Watcher syncer: update processors, which turn one event into several; parse errors; the
  lengths of time-outs and back-offs.
* Typha: negotiation, encodings, pings, the balancing of connections, several connections at once
  (they share only the cache, which they do not change, and the cached binary snapshot). A Typha
  whose own syncer loses its datastore is covered as far as a resync goes.
* Deduplicating buffer: Stop.

Felix's calculation graph and dataplane drivers, kube-controllers, the CNI plugin, confd,
Goldmane and the rest are not modelled except as callers of IPAM or as consumers of what the
syncers deliver: each is sequential code around one cache, a resync loop against a kernel, or a
translation of requests.
