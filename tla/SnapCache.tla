----------------------------- MODULE SnapCache -----------------------------
(***************************************************************************)
(* Typha's snapshot cache (typha/pkg/snapcache).  The syncer's calls are   *)
(* queued on inputC; the cache's goroutine takes them off in batches and   *)
(* publishes a trail of breadcrumbs, each with the whole datastore as of   *)
(* then and the updates since the crumb before it.  Connections follow the *)
(* trail without a lock, and sleep on a condition variable at its end.     *)
(***************************************************************************)
EXTENDS Naturals, Sequences, FiniteSets

CONSTANTS Keys,
          Values,        \* what a key may hold; Absent where it does not exist
          Absent,
          MaxBatchSize   \* how many updates go into a crumb

VARIABLES inputC,         \* the syncer's calls not yet read
          pendingStatus,
          pendingUpdates,
          kvs,            \* the datastore, as far as it has been published
          crumbs,         \* the breadcrumbs, each linked to the next
          current,        \* currentBreadcrumb
          publishing,     \* where the cache's goroutine is
          asleep          \* a connection waits on breadcrumbCond

cacheVars == <<inputC, pendingStatus, pendingUpdates, kvs, crumbs, current, publishing>>

StatusCall(s) == [tag |-> "status", status |-> s]
UpdatesCall(us) == [tag |-> "updates", updates |-> us]
Update(k, v, t) == [key |-> k, value |-> v, type |-> t]

Nothing == [k \in Keys |-> Absent]
Crumb(f, ds, s) == [kvs |-> f, deltas |-> ds, status |-> s]

CacheInit ==
  /\ inputC = <<>>
  /\ pendingStatus = "WaitForDatastore" /\ pendingUpdates = <<>>
  /\ kvs = Nothing
  /\ crumbs = <<Crumb(Nothing, <<>>, "WaitForDatastore")>> /\ current = 1
  /\ publishing = "fill"

----------------------------------------------------------------------------
(* What a loop over s makes of start.                                      *)
Loop(op(_, _), start, s) ==
  LET after[i \in 0..Len(s)] == IF i = 0 THEN start ELSE op(after[i - 1], s[i])
  IN  after[Len(s)]

CallSize(call) == IF call.tag = "status" THEN 1 ELSE Len(call.updates)
SizeOf(calls) == Loop(LAMBDA n, call : n + CallSize(call), 0, calls)
UpdatesIn(calls) ==
  Loop(LAMBDA us, call : IF call.tag = "status" THEN us ELSE us \o call.updates, <<>>, calls)
StatusIn(calls) ==
  Loop(LAMBDA s, call : IF call.tag = "status" THEN call.status ELSE s, pendingStatus, calls)

(* fillBatchFromInputQueue: the calls that are there, until they hold      *)
(* MaxBatchSize updates; later ones may come too late for this batch.      *)
FillBatch ==
  /\ publishing = "fill"
  /\ \E n \in 1..Len(inputC) :
       LET calls == SubSeq(inputC, 1, n)
       IN  /\ SizeOf(SubSeq(inputC, 1, n - 1)) < MaxBatchSize
           /\ pendingStatus' = StatusIn(calls)
           /\ pendingUpdates' = UpdatesIn(calls)
           /\ inputC' = SubSeq(inputC, n + 1, Len(inputC))
  /\ publishing' = "publish"
  /\ UNCHANGED <<kvs, crumbs, current, asleep>>

(* WouldBeNoOp: only an update of a known key can be left out.             *)
NoOp(f, u) == f[u.key] = u.value /\ u.type = "updated"

(* One update applied to the master copy, and recorded as a delta.         *)
Apply(s, u) ==
  IF u.value # Absent /\ NoOp(s.kvs, u) THEN s
  ELSE [kvs |-> [s.kvs EXCEPT ![u.key] = u.value], deltas |-> Append(s.deltas, u)]

AfterCrumb(rest) == IF rest = <<>> THEN "fill" ELSE "publish"

(* publishBreadcrumb, up to the store that links the new crumb to the old  *)
(* one, made with the lock of the condition variable held.                 *)
PublishBreadcrumb ==
  LET last == Len(pendingUpdates) <= MaxBatchSize
      updates == IF last THEN pendingUpdates ELSE SubSeq(pendingUpdates, 1, MaxBatchSize)
      rest == IF last THEN <<>> ELSE SubSeq(pendingUpdates, MaxBatchSize + 1, Len(pendingUpdates))
      old == crumbs[current].status
      status == IF last THEN pendingStatus ELSE old
      new == Loop(Apply, [kvs |-> kvs, deltas |-> <<>>], updates)
  IN  /\ publishing = "publish"
      /\ pendingUpdates' = rest
      /\ kvs' = new.kvs
      /\ \/ /\ status # old \/ new.deltas # <<>>
            /\ crumbs' = Append(crumbs, Crumb(new.kvs, new.deltas, status))
            /\ publishing' = "linked"
         \/ /\ status = old /\ new.deltas = <<>>
            /\ publishing' = AfterCrumb(rest)
            /\ UNCHANGED crumbs
      /\ UNCHANGED <<inputC, pendingStatus, current, asleep>>

(* Then the new crumb becomes the current one and the lock is released,    *)
MakeCurrent ==
  /\ publishing = "linked"
  /\ current' = Len(crumbs)
  /\ publishing' = "broadcast"
  /\ UNCHANGED <<inputC, pendingStatus, pendingUpdates, kvs, crumbs, asleep>>

\* Mutant: nobody is woken.
BroadcastForgotten ==
  /\ publishing = "broadcast"
  /\ publishing' = AfterCrumb(pendingUpdates)
  /\ UNCHANGED <<inputC, pendingStatus, pendingUpdates, kvs, crumbs, current, asleep>>

(* and those who wait for it are woken.                                    *)
Broadcast ==
  /\ publishing = "broadcast"
  /\ asleep' = FALSE
  /\ publishing' = AfterCrumb(pendingUpdates)
  /\ UNCHANGED <<inputC, pendingStatus, pendingUpdates, kvs, crumbs, current>>

(* The ticker wakes everybody while there is no input.                     *)
WakeUpTick ==
  /\ publishing = "fill" /\ inputC = <<>> /\ asleep
  /\ asleep' = FALSE
  /\ UNCHANGED cacheVars

Cache == FillBatch \/ PublishBreadcrumb \/ MakeCurrent \/ Broadcast

(* Breadcrumb.Next: a crumb with a successor returns it at once; otherwise *)
(* the connection takes the lock, looks again, and goes to sleep.          *)
HasNext(i) == i < Len(crumbs)

\* Mutant: the crumb is not looked at again once the lock is held.
CanSleepUnchecked(i) == i <= Len(crumbs) /\ publishing # "linked" /\ ~asleep

CanSleep(i) == ~HasNext(i) /\ publishing # "linked" /\ ~asleep
============================================================================
