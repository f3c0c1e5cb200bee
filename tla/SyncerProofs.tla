---------------------------- MODULE SyncerProofs ----------------------------
(***************************************************************************)
(* With the Kubernetes API as the datastore, the entries of a watcherCache *)
(* are always those of the datastore at its currentWatchRevision, which    *)
(* only goes forward, for any number of types, keys, changes and failures. *)
(* Whatever the datastore, the results of a cache lead, one after the      *)
(* other, from what the consumer knows of a type to what the cache holds,  *)
(* whichever results of other caches come between; so what the consumer is *)
(* told is right.                                                          *)
(***************************************************************************)
EXTENDS WatcherSyncer, FiniteSetTheorems, TLAPS

Changes == [type : Types, key : Keys, del : BOOLEAN]

CacheShape ==
  [pc : {"resync", "list", "watch", "watching", "stopped"}, full : BOOLEAN,
   rev : Nat, pos : Nat, errors : Nat, status : Statuses, crdInstalled : BOOLEAN,
   polling : {"no", "list", "watch"}, connected : BOOLEAN, resources : [Keys -> Nat]]

(* What holds of a cache w of type c.  With Kubernetes, a watch goes on    *)
(* from the revision of the cache, and is only created when there is one.  *)
CacheOK(c, w) ==
  /\ w.rev <= Len(log)
  /\ ~Etcd => /\ w.rev # 0 => w.resources = At(c, w.rev)
              /\ w.pc = "watch" => w.rev # 0
              /\ w.pc = "watching" => w.rev # 0 /\ w.pos = w.rev

(* The inductive invariant.                                                *)
CachesOK ==
  /\ log \in Seq(Changes)
  /\ wc \in [Types -> CacheShape]
  /\ \A c \in Types : CacheOK(c, wc[c])

(* Every nonempty set of revisions up to r has a greatest element.         *)
LEMMA GreatestExists ==
  ASSUME NEW r \in Nat, NEW S \in SUBSET (1..r), S # {}
  PROVE  \E m \in S : \A j \in S : j <= m
<1> DEFINE T == {r - j : j \in S}
<1> DEFINE R == OpToRel(<, Nat)
<1>1. T \subseteq Nat /\ T # {}
  <2>1. \A j \in S : r - j \in Nat
    OBVIOUS
  <2>2. PICK j \in S : TRUE
    BY Zenon
  <2>3. r - j \in T
    BY Zenon
  <2> QED BY <2>1, <2>3, Zenon
<1>2. IsWellFoundedOn(R, Nat)
  BY NatLessThanWellFounded, Zenon
<1>3. \A x, y \in Nat : x < y => <<x, y>> \in R
  BY Zenon DEF OpToRel
<1> HIDE DEF T, R
<1>4. PICK x \in T : \A y \in T : ~(<<y, x>> \in R)
  BY <1>1, <1>2, WFMin, Zenon
<1>5. \A y \in T : x <= y
  <2> SUFFICES ASSUME NEW y \in T PROVE x <= y
    BY Zenon
  <2>1. x \in Nat /\ y \in Nat
    BY <1>1, Zenon
  <2>2. ~(y < x)
    BY <2>1, <1>3, <1>4, Zenon
  <2> QED BY ONLY <2>1, <2>2
<1>6. PICK m \in S : x = r - m
  BY Zenon DEF T
<1>7. \A j \in S : r - m <= r - j
  BY <1>5, <1>6, Zenon DEF T
<1> QED BY ONLY <1>7

(* Latest is that element.                                                 *)
LEMMA LatestIs ==
  ASSUME NEW r \in Nat, NEW S \in SUBSET (1..r), NEW i \in S, \A j \in S : j <= i
  PROVE  Latest(S) = i
<1>1. \A m \in S : (\A j \in S : m >= j) => m = i
  OBVIOUS
<1>2. \A j \in S : i >= j
  BY Zenon
<1> QED BY <1>1, <1>2, Zenon DEF Latest

(* It is a revision or 0.                                                  *)
LEMMA LatestType ==
  ASSUME NEW r \in Nat, NEW S \in SUBSET (1..r)
  PROVE  Latest(S) \in 0..r
<1>1. CASE S = {}
  BY ONLY <1>1 DEF Latest
<1>2. CASE S # {}
  <2>1. PICK m \in S : \A j \in S : j <= m
    BY <1>2, GreatestExists, Zenon
  <2>2. Latest(S) = m
    BY <2>1, LatestIs, Zenon
  <2> QED BY ONLY <2>2
<1> QED BY <1>1, <1>2, Zenon

(* The last change of a key is a change of that key, and there is none     *)
(* after it.                                                               *)
LEMMA LastChangeIs ==
  ASSUME log \in Seq(Changes), NEW c \in Types, NEW k \in Keys, NEW r \in Nat, r <= Len(log),
         NEW i \in 1..r, log[i].type = c, log[i].key = k,
         \A j \in (i + 1)..r : ~(log[j].type = c /\ log[j].key = k)
  PROVE  LastChange(c, k, r) = i
<1>1. ChangesOf(c, k, r) \in SUBSET (1..r) /\ i \in ChangesOf(c, k, r)
  BY Zenon DEF ChangesOf
<1>2. \A j \in ChangesOf(c, k, r) : j <= i
  BY DEF ChangesOf
<1> QED BY <1>1, <1>2, LatestIs, Zenon DEF LastChange

(* Changes of other keys do not matter.                                    *)
LEMMA LastChangeSame ==
  ASSUME NEW c \in Types, NEW k \in Keys, NEW r \in Nat, NEW s \in Nat, r <= s,
         \A j \in (r + 1)..s : ~(log[j].type = c /\ log[j].key = k)
  PROVE  LastChange(c, k, s) = LastChange(c, k, r)
<1>1. ChangesOf(c, k, s) = ChangesOf(c, k, r)
  BY DEF ChangesOf
<1> QED BY <1>1, Zenon DEF LastChange

(* A revision without a change of a type leaves the type as it is.         *)
LEMMA AtSame ==
  ASSUME NEW c \in Types, NEW r \in Nat, NEW s \in Nat, r <= s,
         \A j \in (r + 1)..s : log[j].type # c
  PROVE  At(c, s) = At(c, r)
<1>1. \A k \in Keys : LastChange(c, k, s) = LastChange(c, k, r)
  BY LastChangeSame, Zenon
<1> QED BY <1>1, Zenon DEF At

(* A change of a type changes the one key.                                 *)
LEMMA AtChange ==
  ASSUME log \in Seq(Changes), NEW c \in Types, NEW r \in Nat, NEW i \in 1..Len(log), r < i,
         log[i].type = c, \A j \in (r + 1)..(i - 1) : log[j].type # c
  PROVE  At(c, i) = [At(c, r) EXCEPT ![log[i].key] = IF log[i].del THEN Absent ELSE i]
<1>1. log[i].key \in Keys /\ i \in Nat /\ i <= Len(log) /\ i \in 1..i
  <2>1. log[i] \in Changes
    OBVIOUS
  <2> QED BY ONLY <2>1 DEF Changes
<1>2. LastChange(c, log[i].key, i) = i
  BY <1>1, LastChangeIs
<1>3. ASSUME NEW k \in Keys, k # log[i].key
      PROVE  LastChange(c, k, i) = LastChange(c, k, r)
  <2>1. \A j \in (r + 1)..i : ~(log[j].type = c /\ log[j].key = k)
    <3> SUFFICES ASSUME NEW j \in (r + 1)..i
                 PROVE  ~(log[j].type = c /\ log[j].key = k)
      BY Zenon
    <3>1. CASE j = i
      BY <3>1, <1>3, Zenon
    <3>2. CASE j # i
      BY <3>2, <1>1
    <3> QED BY <3>1, <3>2, Zenon
  <2> QED BY <2>1, <1>1, LastChangeSame
<1>4. \A k \in Keys : At(c, i)[k] = IF k = log[i].key THEN (IF log[i].del THEN Absent ELSE i) ELSE At(c, r)[k]
  BY ONLY <1>1, <1>2, <1>3 DEF At
<1> QED BY <1>1, <1>4, Zenon DEF At

(* What a type holds is known by revisions.                                *)
LEMMA AtType ==
  ASSUME log \in Seq(Changes), NEW c \in Types, NEW r \in Nat
  PROVE  At(c, r) \in [Keys -> Nat]
<1>1. ASSUME NEW k \in Keys
      PROVE  LastChange(c, k, r) \in Nat
  BY ONLY LatestType DEF LastChange, ChangesOf
<1> QED BY <1>1, Zenon DEF At, Absent

----------------------------------------------------------------------------
(* A step that leaves the datastore alone changes one cache.               *)
LEMMA OneCache ==
  ASSUME CachesOK, log' = log, NEW c \in Types, NEW w \in CacheShape, CacheOK(c, w),
         wc' = [wc EXCEPT ![c] = w]
  PROVE  CachesOK'
<1>1. wc' \in [Types -> CacheShape]
  BY Zenon DEF CachesOK
<1>2. \A d \in Types : CacheOK(d, wc'[d])
  BY Zenon DEF CachesOK
<1>3. \A d \in Types : At(d, wc[d].rev)' = At(d, wc'[d].rev)
  BY DEF At, LastChange, ChangesOf
<1> QED BY <1>1, <1>2, <1>3, ZenonT(30) DEF CachesOK, CacheOK


(* A cache that gives up its revision, or keeps it with its entries, is as *)
(* good as before while it has no watch.                                   *)
LEMMA QuietStep ==
  ASSUME CachesOK, log' = log, NEW c \in Types, wc' = [wc EXCEPT ![c] = wc'[c]],
         wc'[c] \in CacheShape, wc'[c].pc \in {"resync", "list", "stopped"},
         wc'[c].rev = 0 \/ (wc'[c].rev = wc[c].rev /\ wc'[c].resources = wc[c].resources)
  PROVE  CachesOK'
<1>1. CacheOK(c, wc'[c])
  BY DEF CachesOK, CacheOK
<1> QED BY <1>1, OneCache, Zenon

(* All failures, and the start and the end of a resync, are of that kind.  *)
LEMMA FailureOK ==
  ASSUME CachesOK, NEW c \in Types,
         \/ StartResync(c) \/ ListNotFound(c) \/ ListExpired(c) \/ ListFailed(c)
         \/ ListTimedOut(c) \/ WatchExpired(c) \/ WatchRefused(c) \/ WatchUnsupported(c)
         \/ WatchFailed(c) \/ WatchClosed(c) \/ WatchErrorExpired(c) \/ WatchError(c)
         \/ CacheStops(c)
  PROVE  CachesOK'
<1>0. wc \in [Types -> CacheShape] /\ wc[c] \in CacheShape
  BY Zenon DEF CachesOK
<1>1. CASE StartResync(c)
  <2>1. /\ wc' = [wc EXCEPT ![c] = wc'[c]] /\ log' = log
        /\ wc'[c].pc \in {"resync", "list", "stopped"}
        /\ wc'[c].rev = 0 \/ (wc'[c].rev = wc[c].rev /\ wc'[c].resources = wc[c].resources)
    BY <1>1, <1>0, Zenon DEF StartResync, store, CacheShape
  <2>2. wc'[c] \in CacheShape
    BY <1>1, <1>0, Zenon DEF StartResync, CacheShape, Statuses
  <2> QED BY <2>1, <2>2, QuietStep, Zenon
<1>2. CASE ListNotFound(c)
  <2>1. /\ wc' = [wc EXCEPT ![c] = wc'[c]] /\ log' = log
        /\ wc'[c].pc \in {"resync", "list", "stopped"}
        /\ wc'[c].rev = 0 \/ (wc'[c].rev = wc[c].rev /\ wc'[c].resources = wc[c].resources)
    BY <1>2, <1>0, Zenon DEF ListNotFound, store, CacheShape
  <2>2. wc'[c] \in CacheShape
    BY <1>2, <1>0, Zenon DEF ListNotFound, CacheShape, Statuses
  <2> QED BY <2>1, <2>2, QuietStep, Zenon
<1>3. CASE ListExpired(c)
  <2>1. /\ wc' = [wc EXCEPT ![c] = wc'[c]] /\ log' = log
        /\ wc'[c].pc \in {"resync", "list", "stopped"}
        /\ wc'[c].rev = 0 \/ (wc'[c].rev = wc[c].rev /\ wc'[c].resources = wc[c].resources)
    BY <1>3, <1>0, Zenon DEF ListExpired, store, CacheShape
  <2>2. wc'[c] \in CacheShape
    BY <1>3, <1>0, Zenon DEF ListExpired, CacheShape
  <2> QED BY <2>1, <2>2, QuietStep, Zenon
<1>4. CASE ListFailed(c)
  <2>1. /\ wc' = [wc EXCEPT ![c] = wc'[c]] /\ log' = log
        /\ wc'[c].pc \in {"resync", "list", "stopped"}
        /\ wc'[c].rev = 0 \/ (wc'[c].rev = wc[c].rev /\ wc'[c].resources = wc[c].resources)
    BY <1>4, <1>0, Zenon DEF ListFailed, store, CacheShape
  <2>2. wc'[c] \in CacheShape
    BY <1>4, <1>0, Zenon DEF ListFailed, CacheShape
  <2> QED BY <2>1, <2>2, QuietStep, Zenon
<1>5. CASE ListTimedOut(c)
  <2> DEFINE w == [wc[c] EXCEPT !.pc = "resync", !.crdInstalled = TRUE, !.connected = FALSE]
  <2>1. w \in CacheShape /\ w.pc = "resync" /\ w.rev = wc[c].rev /\ w.resources = wc[c].resources
    BY <1>0, Zenon DEF CacheShape
  <2>2. log' = log /\ (wc' = [wc EXCEPT ![c] = w] \/ wc' = [wc EXCEPT ![c] = Forgotten(w)])
    BY <1>5, Zenon DEF ListTimedOut, store
  <2> HIDE DEF w
  <2>3. Forgotten(w) \in CacheShape /\ Forgotten(w).pc = "resync" /\ Forgotten(w).rev = 0
    BY <2>1, Zenon DEF Forgotten, CacheShape, LeaveWaiting, Empty, Absent, Statuses
  <2>4. wc'[c] = w \/ wc'[c] = Forgotten(w)
    BY <1>0, <2>2, ZenonT(30)
  <2>5. wc' = [wc EXCEPT ![c] = wc'[c]]
    BY <1>0, <2>2, Zenon
  <2> QED BY <2>1, <2>2, <2>3, <2>4, <2>5, QuietStep, Zenon
<1>6. CASE WatchExpired(c)
  <2>1. /\ wc' = [wc EXCEPT ![c] = wc'[c]] /\ log' = log
        /\ wc'[c].pc \in {"resync", "list", "stopped"}
        /\ wc'[c].rev = 0 \/ (wc'[c].rev = wc[c].rev /\ wc'[c].resources = wc[c].resources)
    BY <1>6, <1>0, Zenon DEF WatchExpired, store, CacheShape
  <2>2. wc'[c] \in CacheShape
    BY <1>6, <1>0, Zenon DEF WatchExpired, CacheShape
  <2> QED BY <2>1, <2>2, QuietStep, Zenon
<1>7. CASE WatchRefused(c)
  <2>1. /\ wc' = [wc EXCEPT ![c] = wc'[c]] /\ log' = log
        /\ wc'[c].pc \in {"resync", "list", "stopped"}
        /\ wc'[c].rev = 0 \/ (wc'[c].rev = wc[c].rev /\ wc'[c].resources = wc[c].resources)
    BY ONLY <1>7, <1>0 DEF WatchRefused, store, CacheShape
  <2>2. wc'[c] \in CacheShape
    BY ONLY <1>7, <1>0 DEF WatchRefused, CacheShape
  <2> QED BY <2>1, <2>2, QuietStep, Zenon
<1>8. CASE WatchUnsupported(c)
  <2>1. /\ wc' = [wc EXCEPT ![c] = wc'[c]] /\ log' = log
        /\ wc'[c].pc \in {"resync", "list", "stopped"}
        /\ wc'[c].rev = 0 \/ (wc'[c].rev = wc[c].rev /\ wc'[c].resources = wc[c].resources)
    BY <1>8, <1>0, Zenon DEF WatchUnsupported, store, CacheShape
  <2>2. wc'[c] \in CacheShape
    BY <1>8, <1>0, Zenon DEF WatchUnsupported, CacheShape
  <2> QED BY <2>1, <2>2, QuietStep, Zenon
<1>9. CASE WatchFailed(c)
  <2>1. /\ wc' = [wc EXCEPT ![c] = wc'[c]] /\ log' = log
        /\ wc'[c].pc \in {"resync", "list", "stopped"}
        /\ wc'[c].rev = 0 \/ (wc'[c].rev = wc[c].rev /\ wc'[c].resources = wc[c].resources)
    BY <1>9, <1>0, Zenon DEF WatchFailed, store, CacheShape
  <2>2. wc'[c] \in CacheShape
    BY ONLY <1>9, <1>0 DEF WatchFailed, CacheShape
  <2> QED BY <2>1, <2>2, QuietStep, Zenon
<1>10. CASE WatchClosed(c)
  <2>1. /\ wc' = [wc EXCEPT ![c] = wc'[c]] /\ log' = log
        /\ wc'[c].pc \in {"resync", "list", "stopped"}
        /\ wc'[c].rev = 0 \/ (wc'[c].rev = wc[c].rev /\ wc'[c].resources = wc[c].resources)
    BY <1>10, <1>0, Zenon DEF WatchClosed, store, CacheShape
  <2>2. wc'[c] \in CacheShape
    BY <1>10, <1>0, Zenon DEF WatchClosed, CacheShape
  <2> QED BY <2>1, <2>2, QuietStep, Zenon
<1>11. CASE WatchErrorExpired(c)
  <2>1. /\ wc' = [wc EXCEPT ![c] = wc'[c]] /\ log' = log
        /\ wc'[c].pc \in {"resync", "list", "stopped"}
        /\ wc'[c].rev = 0 \/ (wc'[c].rev = wc[c].rev /\ wc'[c].resources = wc[c].resources)
    BY <1>11, <1>0, Zenon DEF WatchErrorExpired, store, CacheShape
  <2>2. wc'[c] \in CacheShape
    BY <1>11, <1>0, Zenon DEF WatchErrorExpired, CacheShape
  <2> QED BY <2>1, <2>2, QuietStep, Zenon
<1>12. CASE WatchError(c)
  <2>1. /\ wc' = [wc EXCEPT ![c] = wc'[c]] /\ log' = log
        /\ wc'[c].pc \in {"resync", "list", "stopped"}
        /\ wc'[c].rev = 0 \/ (wc'[c].rev = wc[c].rev /\ wc'[c].resources = wc[c].resources)
    BY <1>12, <1>0, Zenon DEF WatchError, store, CacheShape
  <2>2. wc'[c] \in CacheShape
    <3>1. wc[c].rev \in Nat /\ wc[c].errors \in Nat
      BY <1>0, ZenonT(30) DEF CacheShape
    <3> DEFINE tooMany == wc[c].errors + 1 >= MaxErrorsPerRevision
    <3>2. wc'[c] = [wc[c] EXCEPT !.pc = "resync", !.pos = 0,
                                 !.rev = IF tooMany THEN 0 ELSE wc[c].rev,
                                 !.errors = IF tooMany THEN 0 ELSE wc[c].errors + 1]
      BY <1>12, <1>0, Zenon DEF WatchError, CacheShape
    <3> HIDE DEF tooMany
    <3>3. /\ (IF tooMany THEN 0 ELSE wc[c].rev) \in Nat
          /\ (IF tooMany THEN 0 ELSE wc[c].errors + 1) \in Nat
      BY ONLY <3>1
    <3> DEFINE rev == IF tooMany THEN 0 ELSE wc[c].rev
               errors == IF tooMany THEN 0 ELSE wc[c].errors + 1
    <3>4. rev \in Nat /\ errors \in Nat
      BY <3>3, ZenonT(30)
    <3> HIDE DEF rev, errors
    <3>5. [wc[c] EXCEPT !.pc = "resync", !.pos = 0, !.rev = rev, !.errors = errors] \in CacheShape
      BY <1>0, <3>4, Zenon DEF CacheShape
    <3> QED BY <3>2, <3>5, Zenon DEF rev, errors
  <2> QED BY <2>1, <2>2, QuietStep, Zenon
<1>13. CASE CacheStops(c)
  <2>1. /\ wc' = [wc EXCEPT ![c] = wc'[c]] /\ log' = log
        /\ wc'[c].pc \in {"resync", "list", "stopped"}
        /\ wc'[c].rev = 0 \/ (wc'[c].rev = wc[c].rev /\ wc'[c].resources = wc[c].resources)
    BY <1>13, <1>0, ZenonT(30) DEF CacheStops, store, CacheShape, Forgotten
  <2>2. wc'[c] \in CacheShape
    BY <1>13, <1>0, Zenon DEF CacheStops, CacheShape, Forgotten, LeaveWaiting, Empty, Absent, Statuses
  <2> QED BY <2>1, <2>2, QuietStep, Zenon
<1> QED BY <1>1, <1>2, <1>3, <1>4, <1>5, <1>6, <1>7, <1>8, <1>9, <1>10, <1>11, <1>12, <1>13, Zenon

(* A list brings the entries of the revision it was served at.             *)
LEMMA ListOK ==
  ASSUME CachesOK, NEW c \in Types, ListSucceeds(c) \/ ListWithoutRevision(c)
  PROVE  CachesOK'
<1>0. wc \in [Types -> CacheShape] /\ wc[c] \in CacheShape /\ log \in Seq(Changes)
  BY Zenon DEF CachesOK
<1>1. \A r \in 1..Now : r \in Nat /\ r <= Len(log) /\ At(c, r) \in [Keys -> Nat]
  BY ONLY <1>0, AtType DEF Now
<1>2. \A r \in 1..Now : Listed(c, r) \in CacheShape /\ Listed(c, r).resources = At(c, r)
  BY <1>0, <1>1, Zenon DEF Listed, CacheShape, Statuses
<1>3. CASE ListSucceeds(c)
  <2>1. PICK r \in 1..Now :
          wc' = [wc EXCEPT ![c] = [Listed(c, r) EXCEPT !.pc = "watch", !.rev = r, !.errors = 0, !.full = FALSE]]
    BY <1>3, Zenon DEF ListSucceeds
  <2> DEFINE w == [Listed(c, r) EXCEPT !.pc = "watch", !.rev = r, !.errors = 0, !.full = FALSE]
  <2>2. w \in CacheShape
    BY <1>1, <1>2, Zenon DEF CacheShape
  <2>3. w.rev = r /\ w.pc = "watch" /\ w.resources = At(c, r)
    BY ONLY <1>2 DEF CacheShape
  <2>4. log' = log /\ wc' = [wc EXCEPT ![c] = w]
    BY <1>3, <2>1, Zenon DEF ListSucceeds, store
  <2> HIDE DEF w
  <2>5. CacheOK(c, w)
    BY ONLY <2>3, <1>1 DEF CacheOK
  <2> QED BY <2>2, <2>4, <2>5, OneCache, Zenon
<1>4. CASE ListWithoutRevision(c)
  <2>1. PICK r \in 1..Now :
          wc' = [wc EXCEPT ![c] = [Listed(c, r) EXCEPT !.pc = "resync", !.rev = 0, !.polling = "list"]]
    BY <1>4, Zenon DEF ListWithoutRevision
  <2> DEFINE w == [Listed(c, r) EXCEPT !.pc = "resync", !.rev = 0, !.polling = "list"]
  <2>2. w \in CacheShape /\ w.rev = 0 /\ w.pc = "resync"
    BY <1>2, Zenon DEF CacheShape
  <2>3. log' = log /\ wc' = [wc EXCEPT ![c] = w]
    BY <1>4, <2>1, Zenon DEF ListWithoutRevision, store
  <2> HIDE DEF w
  <2>4. CacheOK(c, w)
    BY ONLY <2>2, <1>0 DEF CacheOK
  <2> QED BY <2>2, <2>3, <2>4, OneCache, Zenon
<1> QED BY <1>3, <1>4, Zenon

(* A watch starts at the revision of the entries.                          *)
LEMMA WatchCreatedOK ==
  ASSUME CachesOK, NEW c \in Types, WatchCreated(c)
  PROVE  CachesOK'
<1>0. wc \in [Types -> CacheShape] /\ wc[c] \in CacheShape /\ CacheOK(c, wc[c])
  BY Zenon DEF CachesOK
<1> DEFINE w == [wc[c] EXCEPT !.pc = "watching", !.pos = wc[c].rev]
<1>1. ~Etcd => wc[c].rev # 0
  BY <1>0, Zenon DEF WatchCreated, CanWatch, Ready, CacheOK
<1>2. w \in CacheShape /\ w.pc = "watching" /\ w.pos = w.rev /\ w.rev = wc[c].rev /\ w.resources = wc[c].resources
  BY <1>0, Zenon DEF CacheShape
<1>3. log' = log /\ wc' = [wc EXCEPT ![c] = w]
  BY <1>0, Zenon DEF WatchCreated, store
<1> HIDE DEF w
<1>4. CacheOK(c, w)
  BY <1>0, <1>1, <1>2, Zenon DEF CacheOK
<1> QED BY <1>2, <1>3, <1>4, OneCache, Zenon

(* The changes of a type that a watch has not delivered yet are those      *)
(* after its position, and it delivers the first of them.                  *)
LEMMA WatchEventOK ==
  ASSUME CachesOK, ~Etcd, NEW c \in Types, WatchEvent(c)
  PROVE  CachesOK' /\ wc'[c].rev > wc[c].rev
<1>0. /\ wc \in [Types -> CacheShape] /\ wc[c] \in CacheShape /\ CacheOK(c, wc[c])
      /\ log \in Seq(Changes) /\ wc[c].pc = "watching"
  BY Zenon DEF CachesOK, WatchEvent, Ready
<1>1. PICK i \in Pending(c) :
        /\ \A j \in Pending(c) : i <= j
        /\ wc' = [wc EXCEPT ![c].resources[log[i].key] = IF log[i].del THEN Absent ELSE i,
                            ![c].rev = EventRevision(i), ![c].pos = i, ![c].errors = 0]
  BY Zenon DEF WatchEvent
<1>2. wc[c].pos \in Nat /\ wc[c].rev = wc[c].pos /\ wc[c].resources = At(c, wc[c].pos)
  BY <1>0, Zenon DEF CacheOK, CacheShape
<1>3. i \in 1..Len(log) /\ wc[c].pos < i /\ log[i].type = c
  BY <1>2, <1>0 DEF Pending, Now
<1>4. \A j \in (wc[c].pos + 1)..(i - 1) : log[j].type # c
  <2>1. \A j \in Pending(c) : i <= j
    BY <1>1, Zenon
  <2>2. Len(log) \in Nat
    BY ONLY <1>0
  <2> QED BY ONLY <1>2, <1>3, <2>1, <2>2 DEF Pending, Now
<1>5. At(c, i) = [At(c, wc[c].pos) EXCEPT ![log[i].key] = IF log[i].del THEN Absent ELSE i]
  BY ONLY <1>0, <1>2, <1>3, <1>4, AtChange
<1>6. EventRevision(i) = i
  BY Zenon DEF EventRevision
<1> DEFINE w == [wc[c] EXCEPT !.resources = At(c, i), !.rev = i, !.pos = i, !.errors = 0]
<1>7. w \in CacheShape /\ w.pc = "watching" /\ w.rev = i /\ w.pos = i /\ w.resources = At(c, i)
  <2>1. At(c, i) \in [Keys -> Nat] /\ i \in Nat
    BY ONLY <1>0, <1>3, AtType
  <2> QED BY <1>0, <2>1, Zenon DEF CacheShape
<1>8. log' = log /\ wc' = [wc EXCEPT ![c] = w]
  <2>1. log' = log
    BY Zenon DEF WatchEvent, store
  <2>2. wc' = [wc EXCEPT ![c].resources = At(c, i), ![c].rev = i, ![c].pos = i, ![c].errors = 0]
    BY <1>1, <1>2, <1>5, <1>6, Zenon
  <2> QED BY <1>0, <2>1, <2>2, Zenon
<1> HIDE DEF w
<1>9. CacheOK(c, w)
  BY ONLY <1>3, <1>7 DEF CacheOK
<1>10. wc'[c].rev > wc[c].rev
  BY <1>0, <1>2, <1>3, <1>7, <1>8, Zenon
<1> QED BY <1>7, <1>8, <1>9, <1>10, OneCache, Zenon

(* Etcd gives a deletion an older revision, but one that there was.        *)
LEMMA EtcdEventOK ==
  ASSUME CachesOK, Etcd, NEW c \in Types, WatchEvent(c)
  PROVE  CachesOK'
<1>0. wc \in [Types -> CacheShape] /\ wc[c] \in CacheShape /\ log \in Seq(Changes)
  BY Zenon DEF CachesOK
<1>1. PICK i \in Pending(c) :
        wc' = [wc EXCEPT ![c].resources[log[i].key] = IF log[i].del THEN Absent ELSE i,
                         ![c].rev = EventRevision(i), ![c].pos = i, ![c].errors = 0]
  BY Zenon DEF WatchEvent
<1>2. wc[c].pos \in Nat /\ wc[c].resources \in [Keys -> Nat]
  BY <1>0, Zenon DEF CacheShape
<1>3. i \in 1..Len(log) /\ i \in Nat
  BY ONLY <1>0, <1>2 DEF Pending, Now
<1>4. EventRevision(i) \in 0..Len(log)
  <2>1. LastChange(log[i].type, log[i].key, i - 1) \in 0..(i - 1)
    BY ONLY <1>3, LatestType DEF LastChange, ChangesOf
  <2> QED BY ONLY <1>3, <2>1 DEF EventRevision
<1> DEFINE value == IF log[i].del THEN Absent ELSE i
           e == [wc[c].resources EXCEPT ![log[i].key] = value]
           rev == EventRevision(i)
           w == [wc[c] EXCEPT !.resources = e, !.rev = rev, !.pos = i, !.errors = 0]
<1>5. e \in [Keys -> Nat] /\ rev \in Nat /\ rev <= Len(log)
  <2>1. value \in Nat
    BY <1>3, Zenon DEF Absent
  <2> HIDE DEF value
  <2>2. e \in [Keys -> Nat]
    BY <1>2, <2>1, Zenon
  <2> QED BY ONLY <1>0, <1>4, <2>2
<1>6. wc' = [wc EXCEPT ![c] = w] /\ log' = log
  BY <1>0, <1>1, Zenon DEF WatchEvent, store
<1> HIDE DEF e, rev
<1>7. w \in CacheShape /\ w.rev = rev
  BY <1>0, <1>3, <1>5, Zenon DEF CacheShape
<1> HIDE DEF w
<1>8. CacheOK(c, w)
  BY <1>5, <1>7, Zenon DEF CacheOK
<1> QED BY <1>6, <1>7, <1>8, OneCache, Zenon

(* A bookmark moves the watch on over changes of other types.              *)
LEMMA WatchBookmarkOK ==
  ASSUME CachesOK, NEW c \in Types, WatchBookmark(c)
  PROVE  CachesOK' /\ wc'[c].rev > wc[c].rev
<1>0. /\ wc \in [Types -> CacheShape] /\ wc[c] \in CacheShape /\ CacheOK(c, wc[c])
      /\ log \in Seq(Changes) /\ wc[c].pc = "watching" /\ ~Etcd
  BY Zenon DEF CachesOK, WatchBookmark, Ready
<1>1. PICK r \in (wc[c].pos + 1)..Now :
        /\ \A i \in Pending(c) : r < i
        /\ wc' = [wc EXCEPT ![c].rev = r, ![c].pos = r, ![c].errors = 0]
  BY Zenon DEF WatchBookmark
<1>2. wc[c].pos \in Nat /\ wc[c].rev = wc[c].pos /\ wc[c].resources = At(c, wc[c].pos)
  BY <1>0, ZenonT(30) DEF CacheOK, CacheShape
<1>3. r \in Nat /\ wc[c].pos < r /\ r <= Len(log)
  BY ONLY <1>0, <1>2 DEF Now
<1>4. \A j \in (wc[c].pos + 1)..r : log[j].type # c
  BY ONLY <1>0, <1>1, <1>2, <1>3 DEF Pending, Now
<1>5. At(c, r) = At(c, wc[c].pos)
  BY ONLY <1>2, <1>3, <1>4, AtSame
<1> DEFINE w == [wc[c] EXCEPT !.rev = r, !.pos = r, !.errors = 0]
<1>6. /\ w \in CacheShape /\ w.pc = "watching" /\ w.rev = r /\ w.pos = r
      /\ w.resources = wc[c].resources
  BY <1>0, <1>3, Zenon DEF CacheShape
<1>7. log' = log /\ wc' = [wc EXCEPT ![c] = w]
  BY <1>0, <1>1, Zenon DEF WatchBookmark, store
<1> HIDE DEF w
<1>8. CacheOK(c, w)
  BY ONLY <1>2, <1>3, <1>5, <1>6 DEF CacheOK
<1>9. wc'[c].rev > wc[c].rev
  BY <1>0, <1>2, <1>3, <1>6, <1>7, Zenon
<1> QED BY <1>6, <1>7, <1>8, <1>9, OneCache, Zenon

(* A change comes after everything a cache knows of.                       *)
LEMMA ChangeOK ==
  ASSUME CachesOK, NEW c \in Types, NEW k \in Keys, NEW del \in BOOLEAN, Change(c, k, del)
  PROVE  CachesOK'
<1> DEFINE e == [type |-> c, key |-> k, del |-> del]
<1>0. wc \in [Types -> CacheShape] /\ log \in Seq(Changes) /\ e \in Changes
  BY Zenon DEF CachesOK, Changes
<1>1. wc' = wc /\ log' = Append(log, e)
  BY Zenon DEF Change
<1> HIDE DEF e
<1>2. log' \in Seq(Changes) /\ Len(log') = Len(log) + 1 /\ \A i \in 1..Len(log) : log'[i] = log[i]
  BY ONLY <1>0, <1>1
<1>3. ASSUME NEW d \in Types
      PROVE  CacheOK(d, wc[d])'
  <2>1. CacheOK(d, wc[d]) /\ wc[d] \in CacheShape
    BY <1>0, Zenon DEF CachesOK
  <2>2. wc[d].rev \in Nat /\ wc[d].rev <= Len(log) /\ Len(log) \in Nat
    BY ONLY <1>0, <2>1 DEF CacheOK, CacheShape
  <2>3. ASSUME NEW x \in Keys
        PROVE  ChangesOf(d, x, wc[d].rev)' = ChangesOf(d, x, wc[d].rev)
    BY ONLY <1>1, <1>2, <2>2 DEF ChangesOf
  <2>4. ASSUME NEW x \in Keys
        PROVE  /\ LastChange(d, x, wc[d].rev)' = LastChange(d, x, wc[d].rev)
               /\ LastChange(d, x, wc[d].rev) \in 0..wc[d].rev
    <3>1. LastChange(d, x, wc[d].rev)' = LastChange(d, x, wc[d].rev)
      BY <2>3, Zenon DEF LastChange
    <3>2. ChangesOf(d, x, wc[d].rev) \subseteq 1..wc[d].rev
      BY Zenon DEF ChangesOf
    <3>3. LastChange(d, x, wc[d].rev) \in 0..wc[d].rev
      BY <2>2, <3>2, LatestType, ZenonT(30) DEF LastChange
    <3> QED BY <3>1, <3>3, Zenon
  <2>5. At(d, wc[d].rev)' = At(d, wc[d].rev)
    BY ONLY <1>2, <2>2, <2>4 DEF At
  <2>6. wc[d].rev <= Len(log')
    BY ONLY <1>2, <2>2
  <2> QED BY <1>1, <2>1, <2>5, <2>6, Zenon DEF CacheOK
<1> QED BY <1>0, <1>1, <1>2, <1>3, Zenon DEF CachesOK

(* Without a step of a cache or of the datastore nothing changes.          *)
LEMMA OtherOK ==
  ASSUME CachesOK, UNCHANGED <<log, wc>>
  PROVE  CachesOK'
  BY DEF CachesOK, CacheOK, At, LastChange, ChangesOf

(* At start of day no cache has a revision.                                *)
LEMMA InitOK ==
  ASSUME Init
  PROVE  CachesOK
<1>1. log \in Seq(Changes)
  <2>1. PICK c \in Types, k \in Keys : log = <<[type |-> c, key |-> k, del |-> FALSE]>>
    BY Zenon DEF Init
  <2>2. [type |-> c, key |-> k, del |-> FALSE] \in Changes
    BY ZenonT(30) DEF Changes
  <2> QED BY ONLY <2>1, <2>2
<1>2. NewCache \in CacheShape /\ NewCache.rev = 0 /\ NewCache.pc = "resync"
  BY Zenon DEF NewCache, CacheShape, Empty, Absent, Statuses
<1>3. wc = [c \in Types |-> NewCache]
  BY Zenon DEF Init
<1>4. \A c \in Types : CacheOK(c, wc[c])
  BY ONLY <1>1, <1>2, <1>3 DEF CacheOK
<1> QED BY <1>1, <1>2, <1>3, <1>4, Zenon DEF CachesOK

(* Every step keeps the invariant.                                         *)
LEMMA NextOK ==
  ASSUME CachesOK, [Next]_vars
  PROVE  CachesOK'
<1>1. CASE Datastore
  BY <1>1, ChangeOK, Zenon DEF Datastore
<1>2. CASE Stop \/ Flush \/ (\E c \in Types : ProcessResult(c)) \/ UNCHANGED vars
  <2>1. UNCHANGED <<log, wc>>
    BY <1>2, Zenon DEF Stop, Flush, ProcessResult, vars, store
  <2> QED BY <2>1, OtherOK, ZenonT(30)
<1>3. CASE \E c \in Types : Resync(c) \/ Watching(c) \/ CacheStops(c)
  <2>1. PICK c \in Types : Resync(c) \/ Watching(c) \/ CacheStops(c)
    BY <1>3, ZenonT(30)
  <2>2. CASE ListSucceeds(c) \/ ListWithoutRevision(c)
    BY <2>2, ListOK, ZenonT(30)
  <2>3. CASE WatchCreated(c)
    BY <2>3, WatchCreatedOK, Zenon
  <2>4. CASE WatchEvent(c)
    BY <2>4, WatchEventOK, EtcdEventOK, Zenon
  <2>5. CASE WatchBookmark(c)
    BY <2>5, WatchBookmarkOK, Zenon
  <2> QED BY <2>1, <2>2, <2>3, <2>4, <2>5, FailureOK, Zenon DEF Resync, Watching
<1> QED BY <1>1, <1>2, <1>3, Zenon DEF Next

(* With Kubernetes, what a cache holds is what the datastore held at its   *)
(* currentWatchRevision (watchercache.go): no failure, stale list or       *)
(* re-created watch makes it miss a change or take one twice.              *)
THEOREM CachesFollow ==
  ASSUME ~Etcd
  PROVE  Spec => []CacheAtRevision
<1>1. Init => CachesOK
  BY InitOK, Zenon
<1>2. CachesOK /\ [Next]_vars => CachesOK'
  BY NextOK, ZenonT(30)
<1>3. CachesOK => CacheAtRevision
  BY Zenon DEF CachesOK, CacheOK, CacheAtRevision
<1> QED BY <1>1, <1>2, <1>3, PTL DEF Spec

(* No step takes a revision back.                                          *)
LEMMA ForwardStep ==
  ASSUME CachesOK, ~Etcd, [Next]_vars, NEW d \in Types, wc'[d].rev # 0
  PROVE  wc'[d].rev >= wc[d].rev
<1>0. wc \in [Types -> CacheShape] /\ wc[d].rev \in Nat /\ wc[d].rev <= Len(log)
  BY ZenonT(30) DEF CachesOK, CacheOK, CacheShape
<1>1. CASE wc'[d] = wc[d]
  BY ONLY <1>0, <1>1
<1>2. CASE WatchEvent(d)
  BY <1>0, <1>2, WatchEventOK, NextOK DEF CachesOK, CacheShape
<1>3. CASE WatchBookmark(d)
  BY <1>0, <1>3, WatchBookmarkOK, NextOK DEF CachesOK, CacheShape
<1>4. CASE ListSucceeds(d)
  <2>1. PICK r \in 1..Now :
          /\ ServedAt(wc[d].rev, r)
          /\ wc' = [wc EXCEPT ![d] = [Listed(d, r) EXCEPT !.pc = "watch", !.rev = r, !.errors = 0, !.full = FALSE]]
    BY <1>4, Zenon DEF ListSucceeds
  <2>2. wc'[d].rev = r
    BY ONLY <1>0, <2>1 DEF Listed, CacheShape
  <2>3. r >= wc[d].rev
    BY ONLY <1>0, <2>1 DEF ServedAt, Now, CachesOK
  <2> QED BY <2>2, <2>3, Zenon
<1>5. CASE \/ StartResync(d) \/ ListNotFound(d) \/ ListExpired(d) \/ ListFailed(d)
           \/ ListTimedOut(d) \/ WatchExpired(d) \/ WatchRefused(d) \/ WatchUnsupported(d)
           \/ WatchFailed(d) \/ WatchClosed(d) \/ WatchErrorExpired(d) \/ WatchError(d)
           \/ CacheStops(d) \/ ListWithoutRevision(d) \/ WatchCreated(d)
  <2>1. CASE StartResync(d) \/ ListNotFound(d) \/ ListExpired(d) \/ ListFailed(d)
    <3>1. wc'[d].rev = 0 \/ wc'[d].rev = wc[d].rev
      BY ONLY <1>0, <2>1 DEF StartResync, ListNotFound, ListExpired, ListFailed, CacheShape
    <3> QED BY <1>0, <3>1
  <2>2. CASE WatchExpired(d) \/ WatchRefused(d) \/ WatchUnsupported(d) \/ WatchFailed(d)
    <3>1. wc'[d].rev = 0 \/ wc'[d].rev = wc[d].rev
      BY ONLY <1>0, <2>2 DEF WatchExpired, WatchRefused, WatchUnsupported, WatchFailed, CacheShape
    <3> QED BY <1>0, <3>1
  <2>3. CASE WatchClosed(d) \/ WatchErrorExpired(d) \/ WatchError(d) \/ WatchCreated(d)
    <3>1. wc'[d].rev = 0 \/ wc'[d].rev = wc[d].rev
      BY ONLY <1>0, <2>3 DEF WatchClosed, WatchErrorExpired, WatchError, WatchCreated, CacheShape
    <3> QED BY <1>0, <3>1
  <2>4. CASE ListTimedOut(d)
    <3> DEFINE w == [wc[d] EXCEPT !.pc = "resync", !.crdInstalled = TRUE, !.connected = FALSE]
    <3>0. wc[d] \in CacheShape
      BY <1>0, ZenonT(30)
    <3>1. w \in CacheShape /\ w.rev = wc[d].rev
      BY ONLY <3>0, ZenonT(30) DEF CacheShape
    <3>2. wc' = [wc EXCEPT ![d] = w] \/ wc' = [wc EXCEPT ![d] = Forgotten(w)]
      BY <2>4, ZenonT(30) DEF ListTimedOut
    <3> HIDE DEF w
    <3>3. Forgotten(w).rev = 0
      BY <3>1, Zenon DEF Forgotten, CacheShape
    <3>4. wc'[d] = w \/ wc'[d] = Forgotten(w)
      BY <1>0, <3>2, ZenonT(30)
    <3> QED BY <1>0, <3>1, <3>3, <3>4
  <2>5. CASE CacheStops(d)
    <3>1. wc'[d] = [Forgotten(wc[d]) EXCEPT !.pc = "stopped", !.pos = 0]
      BY <1>0, <2>5, ZenonT(30) DEF CacheStops
    <3>2. wc'[d].rev = 0
      BY ONLY <1>0, <3>1 DEF Forgotten, CacheShape
    <3> QED BY <3>2, Zenon
  <2>6. CASE ListWithoutRevision(d)
    <3>1. PICK r \in 1..Now : wc'[d] = [Listed(d, r) EXCEPT !.pc = "resync", !.rev = 0, !.polling = "list"]
      BY <1>0, <2>6, Zenon DEF ListWithoutRevision
    <3>2. wc'[d].rev = 0
      BY ONLY <1>0, <3>1 DEF Listed, CacheShape
    <3> QED BY <3>2, Zenon
  <2> QED BY <1>5, <2>1, <2>2, <2>3, <2>4, <2>5, <2>6, Zenon
<1>6. CASE Datastore \/ Stop \/ Flush \/ (\E c \in Types : ProcessResult(c)) \/ UNCHANGED vars
  <2>1. wc' = wc
    BY <1>6, Zenon DEF Datastore, Change, Stop, Flush, ProcessResult, vars
  <2> QED BY <2>1, <1>1, Zenon
<1>7. CASE \E c \in Types \ {d} : Resync(c) \/ Watching(c) \/ CacheStops(c)
  <2>1. PICK c \in Types \ {d} : Resync(c) \/ Watching(c) \/ CacheStops(c)
    BY <1>7, Zenon
  <2>2. wc'[d] = wc[d]
    BY <1>0, <2>1, Zenon DEF Resync, Watching, StartResync, ListNotFound, ListExpired, ListFailed,
       ListTimedOut, WatchExpired, WatchRefused, WatchUnsupported, WatchFailed, WatchClosed,
       WatchErrorExpired, WatchError, CacheStops, ListSucceeds, ListWithoutRevision,
       WatchCreated, WatchEvent, WatchBookmark
  <2> QED BY <2>2, <1>1, Zenon
<1> QED BY <1>2, <1>3, <1>4, <1>5, <1>6, <1>7, Zenon DEF Next, Resync, Watching

(* With Kubernetes, currentWatchRevision is given up for a full resync,    *)
(* and otherwise only goes forward: a watch that is created again never    *)
(* replays what the cache has seen (watchercache.go).                      *)
THEOREM RevisionsForward ==
  ASSUME ~Etcd
  PROVE  Spec => RevisionNotBackwards
<1>1. Init => CachesOK
  BY InitOK, Zenon
<1>2. CachesOK /\ [Next]_vars => CachesOK'
  BY NextOK, Zenon
<1>3. CachesOK /\ [Next]_vars => [\A c \in Types : wc'[c].rev # 0 => wc'[c].rev >= wc[c].rev]_vars
  BY ForwardStep, Zenon
<1> QED BY <1>1, <1>2, <1>3, PTL DEF Spec, RevisionNotBackwards

----------------------------------------------------------------------------
(* What a cache tells the syncer, and the syncer its consumer: the points *)
(* that a list of results leads through.                                   *)

Entries == [Keys -> Nat]
UpdateShape == [key : Keys, value : Nat, type : {"new", "updated", "deleted"}]

Results ==
  [tag : {"error"}] \cup [tag : {"status"}, status : Statuses]
    \cup [tag : {"updates"}, updates : Seq(UpdateShape)]

(* What is known of a type, and its status.                                *)
Point(v, s) == [entries |-> v, status |-> s]
Points == [entries : Entries, status : Statuses]

(* Updates of different keys that are right for one who knows v.           *)
RightFor(us, v) ==
  /\ \A i \in DOMAIN us : /\ us[i].type = "new" <=> v[us[i].key] = Absent
                          /\ us[i].value # v[us[i].key]
  /\ \A i, j \in DOMAIN us : us[i].key = us[j].key => i = j

(* They turn v into w.                                                     *)
Turns(us, v, w) ==
  /\ \A i \in DOMAIN us : w[us[i].key] = us[i].value
  /\ \A k \in Keys : (\A i \in DOMAIN us : us[i].key # k) => w[k] = v[k]

(* A result takes x to y.  No update comes while waiting for the datastore.*)
Takes(r, x, y) ==
  \/ r.tag = "error" /\ y = x
  \/ r.tag = "status" /\ y.status = r.status /\ y.entries = x.entries
  \/ /\ r.tag = "updates"
     /\ y.status = x.status /\ x.status # "WaitForDatastore"
     /\ RightFor(r.updates, x.entries)
     /\ Turns(r.updates, x.entries, y.entries)

(* A sequence of results leads from x to y through points of a set G.      *)
Leads(G, rs, x, y) ==
  \E p \in [0..Len(rs) -> G] :
    /\ p[0] = x /\ p[Len(rs)] = y
    /\ \A n \in 1..Len(rs) : Takes(rs[n], p[n - 1], p[n])

----------------------------------------------------------------------------
(* No results lead to where one is.                                        *)
LEMMA LeadsNone ==
  ASSUME NEW G \in SUBSET Points, NEW x \in G
  PROVE  Leads(G, <<>>, x, x)
<1> DEFINE p == [n \in 0..0 |-> x]
<1>1. Len(<<>>) = 0 /\ p \in [0..0 -> G] /\ p[0] = x /\ 1..0 = {}
  OBVIOUS
<1> HIDE DEF p
<1> QED BY <1>1, Zenon DEF Leads

(* An empty list of results ends where it starts.                          *)
LEMMA LeadsNoneEnds ==
  ASSUME NEW G, NEW x, NEW y, Leads(G, <<>>, x, y)
  PROVE  x = y
  BY Zenon DEF Leads

(* One result.                                                             *)
LEMMA LeadsOne ==
  ASSUME NEW G \in SUBSET Points, NEW x \in G, NEW y \in G, NEW r, Takes(r, x, y)
  PROVE  Leads(G, <<r>>, x, y)
<1> DEFINE p == [n \in 0..1 |-> IF n = 0 THEN x ELSE y]
<1>1. Len(<<r>>) = 1 /\ <<r>>[1] = r
  BY Zenon
<1>2. p \in [0..1 -> G] /\ p[0] = x /\ p[1] = y
  OBVIOUS
<1> HIDE DEF p
<1>3. \A n \in 1..1 : Takes(<<r>>[n], p[n - 1], p[n])
  <2>1. \A n \in 1..1 : n = 1 /\ n - 1 = 0
    OBVIOUS
  <2> QED BY <1>1, <1>2, <2>1, Zenon
<1> QED BY <1>1, <1>2, <1>3, Zenon DEF Leads

(* The results end where they lead.                                        *)
LEMMA LeadsType ==
  ASSUME NEW G \in SUBSET Points, NEW rs \in Seq(Results), NEW x, NEW y, Leads(G, rs, x, y)
  PROVE  x \in G /\ y \in G
<1>1. Len(rs) \in Nat
  OBVIOUS
<1> QED BY <1>1 DEF Leads

(* One sequence of results after another.                                  *)
LEMMA LeadsBoth ==
  ASSUME NEW G \in SUBSET Points, NEW rs \in Seq(Results), NEW ts \in Seq(Results),
         NEW x, NEW y, NEW z, Leads(G, rs, x, y), Leads(G, ts, y, z)
  PROVE  Leads(G, rs \o ts, x, z)
<1> DEFINE m == Len(rs)
           n == Len(ts)
<1>1. m \in Nat /\ n \in Nat /\ Len(rs \o ts) = m + n
  OBVIOUS
<1>2. PICK p \in [0..m -> G] :
        p[0] = x /\ p[m] = y /\ \A i \in 1..m : Takes(rs[i], p[i - 1], p[i])
  BY Zenon DEF Leads
<1>3. PICK q \in [0..n -> G] :
        q[0] = y /\ q[n] = z /\ \A i \in 1..n : Takes(ts[i], q[i - 1], q[i])
  BY Zenon DEF Leads
<1>4. \A i \in 1..(m + n) : (rs \o ts)[i] = IF i <= m THEN rs[i] ELSE ts[i - m]
  OBVIOUS
<1> DEFINE t == rs \o ts
           o == [i \in 0..(m + n) |-> IF i <= m THEN p[i] ELSE q[i - m]]
<1> HIDE DEF m, n, t
<1>5. o \in [0..(m + n) -> G]
  BY ONLY <1>1, <1>2, <1>3
<1>6. o[0] = x /\ o[m + n] = z
  BY ONLY <1>1, <1>2, <1>3
<1>7. ASSUME NEW i \in 1..(m + n)
      PROVE  Takes(t[i], o[i - 1], o[i])
  <2>1. CASE i <= m
    <3>1. i \in 1..m /\ t[i] = rs[i] /\ o[i - 1] = p[i - 1] /\ o[i] = p[i]
      BY ONLY <1>1, <1>4, <2>1 DEF t
    <3> QED BY <1>2, <3>1, Zenon
  <2>2. CASE i > m
    <3>1. i - m \in 1..n /\ t[i] = ts[i - m] /\ o[i] = q[i - m]
      BY ONLY <1>1, <1>4, <2>2 DEF t
    <3>2. o[i - 1] = q[(i - m) - 1]
      <4>1. CASE i = m + 1
        BY ONLY <1>1, <1>2, <1>3, <4>1
      <4>2. CASE i # m + 1
        BY ONLY <1>1, <2>2, <4>2
      <4> QED BY <4>1, <4>2, Zenon
    <3> QED BY <1>3, <3>1, <3>2, Zenon
  <2> QED BY ONLY <1>1, <2>1, <2>2
<1> HIDE DEF o
<1> QED BY <1>1, <1>5, <1>6, <1>7, Zenon DEF Leads, t

(* The first result, and the others.                                       *)
LEMMA LeadsFirst ==
  ASSUME NEW G \in SUBSET Points, NEW rs \in Seq(Results), rs # <<>>,
         NEW x, NEW y, Leads(G, rs, x, y)
  PROVE  \E z \in G : Takes(Head(rs), x, z) /\ Leads(G, Tail(rs), z, y)
<1> DEFINE m == Len(rs)
           t == Tail(rs)
<1>1. /\ m \in Nat \ {0} /\ Head(rs) = rs[1] /\ Len(t) = m - 1
      /\ \A i \in 1..(m - 1) : t[i] = rs[i + 1]
  OBVIOUS
<1>2. PICK p \in [0..m -> G] :
        p[0] = x /\ p[m] = y /\ \A i \in 1..m : Takes(rs[i], p[i - 1], p[i])
  BY Zenon DEF Leads
<1> DEFINE q == [i \in 0..(m - 1) |-> p[i + 1]]
<1> HIDE DEF m, t
<1>3. p[1] \in G /\ Takes(rs[1], x, p[1])
  BY ONLY <1>1, <1>2
<1>4. q \in [0..(m - 1) -> G] /\ q[0] = p[1] /\ q[m - 1] = y
  BY ONLY <1>1, <1>2
<1>5. ASSUME NEW i \in 1..(m - 1)
      PROVE  Takes(t[i], q[i - 1], q[i])
  <2>1. i + 1 \in 1..m /\ t[i] = rs[i + 1] /\ q[i - 1] = p[(i + 1) - 1] /\ q[i] = p[i + 1]
    BY ONLY <1>1
  <2> QED BY <1>2, <2>1, Zenon
<1> HIDE DEF q
<1>6. Leads(G, t, p[1], y)
  BY <1>1, <1>4, <1>5, Zenon DEF Leads
<1> QED BY <1>1, <1>3, <1>6, Zenon DEF t

(* The points may be taken from a larger set.                              *)
LEMMA LeadsMore ==
  ASSUME NEW G, NEW H, G \subseteq H, NEW rs, NEW x, NEW y, Leads(G, rs, x, y)
  PROVE  Leads(H, rs, x, y)
<1>1. PICK p \in [0..Len(rs) -> G] :
        p[0] = x /\ p[Len(rs)] = y /\ \A i \in 1..Len(rs) : Takes(rs[i], p[i - 1], p[i])
  BY Zenon DEF Leads
<1>2. p \in [0..Len(rs) -> H]
  BY <1>1, Zenon
<1> QED BY <1>1, <1>2, Zenon DEF Leads

(* Updates of different keys, sent one by one.                             *)
LEMMA LeadsSingly ==
  ASSUME NEW G \in SUBSET Points, NEW s \in Statuses, s # "WaitForDatastore",
         \A v \in Entries : Point(v, s) \in G,
         NEW v \in Entries, NEW w \in Entries,
         NEW n \in Nat, NEW us \in [1..n -> UpdateShape],
         RightFor(us, v), Turns(us, v, w),
         NEW rs \in Seq(Results), Len(rs) = n,
         \A i \in 1..n : rs[i] = UpdatesResult(<<us[i]>>)
  PROVE  Leads(G, rs, Point(v, s), Point(w, s))
<1> DEFINE Sent(i) == {us[j].key : j \in 1..i}
           e(i) == [k \in Keys |-> IF k \in Sent(i) THEN w[k] ELSE v[k]]
           p == [i \in 0..n |-> Point(e(i), s)]
<1>0. DOMAIN us = 1..n /\ \A i \in 1..n : us[i].key \in Keys
  BY Zenon DEF UpdateShape
<1>1. \A i \in 0..n : e(i) \in Entries
  BY Zenon DEF Entries
<1>2. e(0) = v
  BY DEF Entries
<1>3. e(n) = w
  <2>1. \A k \in Keys : k \notin Sent(n) => w[k] = v[k]
    BY <1>0, Zenon DEF Turns
  <2> QED BY <2>1, Zenon DEF Entries
<1>4. ASSUME NEW i \in 1..n
      PROVE  Takes(rs[i], p[i - 1], p[i])
  <2> DEFINE u == us[i]
  <2>1. u \in UpdateShape /\ u.key \in Keys /\ w[u.key] = u.value
    BY <1>0, Zenon DEF Turns
  <2>2. u.key \notin Sent(i - 1)
    BY <1>0 DEF RightFor
  <2>3. Sent(i) = Sent(i - 1) \cup {u.key}
    OBVIOUS
  <2>4. i - 1 \in 0..n /\ i \in 0..n
    OBVIOUS
  <2>5. e(i - 1)[u.key] = v[u.key]
    BY <2>1, <2>2, Zenon
  <2>6. (u.type = "new" <=> v[u.key] = Absent) /\ u.value # v[u.key]
    BY <1>0, Zenon DEF RightFor
  <2>7. e(i)[u.key] = u.value
    BY <2>1, <2>3, Zenon
  <2>8. \A k \in Keys : k # u.key => e(i)[k] = e(i - 1)[k]
    BY <2>3, Zenon
  <2>9. p[i - 1] = Point(e(i - 1), s) /\ p[i] = Point(e(i), s)
    BY <2>4, Zenon
  <2> HIDE DEF u, e, p, Sent
  <2> DEFINE d == <<u>>
  <2>10. DOMAIN d = {1} /\ d[1] = u
    OBVIOUS
  <2> HIDE DEF d
  <2>11. RightFor(d, e(i - 1))
    BY <2>5, <2>6, <2>10, Zenon DEF RightFor
  <2>12. Turns(d, e(i - 1), e(i))
    BY <2>7, <2>8, <2>10, Zenon DEF Turns
  <2>13. rs[i].tag = "updates" /\ rs[i].updates = d
    BY DEF UpdatesResult, u, d
  <2> QED BY <2>9, <2>11, <2>12, <2>13 DEF Takes, Point
<1>5. p \in [0..n -> G]
  BY <1>1, Zenon
<1>6. p[0] = Point(v, s) /\ p[n] = Point(w, s)
  BY <1>2, <1>3
<1> HIDE DEF p
<1> QED BY <1>4, <1>5, <1>6, Zenon DEF Leads

----------------------------------------------------------------------------
(* MapOrder lists every element of a finite set once.                      *)
LEMMA MapOrderIs ==
  ASSUME NEW S, IsFiniteSet(S)
  PROVE  /\ Cardinality(S) \in Nat
         /\ MapOrder(S) \in [1..Cardinality(S) -> S]
         /\ \A i, j \in 1..Cardinality(S) : MapOrder(S)[i] = MapOrder(S)[j] => i = j
         /\ \A e \in S : \E i \in 1..Cardinality(S) : MapOrder(S)[i] = e
<1> DEFINE n == Cardinality(S)
           f == MapOrder(S)
<1>1. n \in Nat /\ ExistsBijection(1..n, S)
  BY FS_CardinalityType, Zenon
<1>2. \E g \in [1..n -> S] : \A i, j \in DOMAIN g : g[i] = g[j] => i = j
  BY <1>1, Zenon DEF ExistsBijection, Bijection, Injection, IsInjective
<1>3. f \in [1..n -> S] /\ \A i, j \in DOMAIN f : f[i] = f[j] => i = j
  BY <1>2, Zenon DEF MapOrder
<1>4. IsFiniteSet(1..n) /\ Cardinality(1..n) = n
  BY ONLY <1>1, FS_Interval
<1>5. f \in Injection(1..n, S)
  BY <1>3, Zenon DEF Injection, IsInjective
<1> HIDE DEF n, f
<1>6. f \in Surjection(1..n, S)
  BY <1>4, <1>5, FS_Injection, Zenon DEF n
<1> QED BY <1>1, <1>3, <1>6, Zenon DEF Surjection, n, f

(* The keys of a cache that have a value are finitely many.                *)
LEMMA PresentFinite ==
  ASSUME NEW K \in SUBSET Keys
  PROVE  IsFiniteSet(K)
  BY SyncerAssumption, FS_Subset, Zenon

(* A transition leads to its status.                                       *)
LEMMA TransitionLeads ==
  ASSUME NEW G \in SUBSET Points, NEW v, NEW s \in Statuses, NEW t \in Statuses,
         Point(v, s) \in G, Point(v, t) \in G
  PROVE  /\ Transition(s, t) \in Seq(Results)
         /\ Leads(G, Transition(s, t), Point(v, s), Point(v, t))
<1>1. CASE s = t
  BY <1>1, LeadsNone DEF Transition
<1>2. CASE s # t
  <2>1. Transition(s, t) = <<StatusResult(t)>>
    BY <1>2, Zenon DEF Transition
  <2>2. StatusResult(t) \in Results
    BY Zenon DEF StatusResult, Results
  <2>3. Takes(StatusResult(t), Point(v, s), Point(v, t))
    BY Zenon DEF Takes, StatusResult, Point
  <2> QED BY <2>1, <2>2, <2>3, LeadsOne
<1> QED BY <1>1, <1>2, Zenon

(* A status that has left WaitForDatastore is another status.              *)
LEMMA LeaveWaitingIs ==
  ASSUME NEW s \in Statuses
  PROVE  LeaveWaiting(s) \in Statuses /\ LeaveWaiting(s) # "WaitForDatastore"
  BY Zenon DEF LeaveWaiting, Statuses

(* An updates result is a result.                                          *)
LEMMA UpdatesResultType ==
  ASSUME NEW us \in Seq(UpdateShape)
  PROVE  UpdatesResult(us) \in Results
  BY Zenon DEF UpdatesResult, Results

(* A batch for each single update is a list of results.                    *)
LEMMA SinglesType ==
  ASSUME NEW n \in Nat, NEW us \in [1..n -> UpdateShape]
  PROVE  /\ [i \in 1..n |-> UpdatesResult(<<us[i]>>)] \in Seq(Results)
         /\ Len([i \in 1..n |-> UpdatesResult(<<us[i]>>)]) = n
<1>1. ASSUME NEW i \in 1..n
      PROVE  UpdatesResult(<<us[i]>>) \in Results
  <2>1. <<us[i]>> \in Seq(UpdateShape)
    OBVIOUS
  <2> QED BY <2>1, UpdatesResultType, Zenon
<1>2. [i \in 1..n |-> UpdatesResult(<<us[i]>>)] \in Seq(Results)
  BY ONLY <1>1, n \in Nat
<1>3. Len([i \in 1..n |-> UpdatesResult(<<us[i]>>)]) = n
  BY ONLY <1>2, n \in Nat
<1> QED BY <1>2, <1>3, Zenon

(* Deletions of keys that are known are right.                             *)
LEMMA DeletedRight ==
  ASSUME NEW v \in Entries, NEW K \in SUBSET Present(v)
  PROVE  LET n == Cardinality(K)
             us == [i \in 1..n |-> Deleted(MapOrder(K)[i])]
             w == [k \in Keys |-> IF k \in K THEN Absent ELSE v[k]]
         IN  /\ n \in Nat /\ us \in [1..n -> UpdateShape]
             /\ RightFor(us, v) /\ Turns(us, v, w) /\ w \in Entries
<1> DEFINE n == Cardinality(K)
           f == MapOrder(K)
           us == [i \in 1..n |-> Deleted(f[i])]
           w == [k \in Keys |-> IF k \in K THEN Absent ELSE v[k]]
<1>1. K \subseteq Keys /\ IsFiniteSet(K) /\ \A k \in K : v[k] # Absent
  BY PresentFinite, Zenon DEF Present
<1>2. /\ n \in Nat /\ f \in [1..n -> K] /\ \A i, j \in 1..n : f[i] = f[j] => i = j
      /\ \A k \in K : \E i \in 1..n : f[i] = k
  BY <1>1, MapOrderIs, Zenon
<1> HIDE DEF n, f
<1>3. \A i \in 1..n : /\ us[i].key = f[i] /\ us[i].value = Absent /\ us[i].type = "deleted"
                      /\ f[i] \in K /\ us[i] \in UpdateShape
  BY <1>1, <1>2, Zenon DEF Deleted, UpdateShape, Absent
<1>4. us \in [1..n -> UpdateShape] /\ DOMAIN us = 1..n
  BY <1>3, Zenon
<1>5. w \in Entries
  BY Zenon DEF Entries, Absent
<1> HIDE DEF us
<1>6. RightFor(us, v)
  BY ONLY <1>1, <1>2, <1>3, <1>4 DEF RightFor
<1>7. Turns(us, v, w)
  BY ONLY <1>1, <1>2, <1>3, <1>4 DEF Turns
<1> QED BY <1>2, <1>4, <1>5, <1>6, <1>7, Zenon DEF n, f, us

(* sendDeletionsForAllResources leads to an empty cache.                   *)
LEMMA DeletionsLead ==
  ASSUME NEW G \in SUBSET Points, NEW w \in CacheShape,
         Point(w.resources, w.status) \in G,
         \A v \in Entries : Point(v, LeaveWaiting(w.status)) \in G
  PROVE  /\ Deletions(w) \in Seq(Results)
         /\ Leads(G, Deletions(w), Point(w.resources, w.status),
                  Point(Forgotten(w).resources, Forgotten(w).status))
<1> DEFINE gone == Present(w.resources)
           s == LeaveWaiting(w.status)
<1>0. w.resources \in Entries /\ w.status \in Statuses
  BY Zenon DEF CacheShape, Entries
<1>1. s \in Statuses /\ s # "WaitForDatastore"
  BY <1>0, LeaveWaitingIs, Zenon
<1>2. /\ Forgotten(w).resources = Empty
      /\ Forgotten(w).status = IF gone = {} THEN w.status ELSE s
  BY Zenon DEF Forgotten, CacheShape
<1>3. CASE gone = {}
  <2>1. Deletions(w) = <<>>
    BY <1>3, Zenon DEF Deletions
  <2>2. w.resources = Empty
    BY <1>0, <1>3, Zenon DEF Present, Empty, Entries
  <2> QED BY <1>2, <1>3, <2>1, <2>2, LeadsNone
<1>4. CASE gone # {}
  <2> DEFINE n == Cardinality(gone)
             us == [i \in 1..n |-> Deleted(MapOrder(gone)[i])]
             v == [k \in Keys |-> IF k \in gone THEN Absent ELSE w.resources[k]]
             rs == [i \in 1..n |-> UpdatesResult(<<Deleted(MapOrder(gone)[i])>>)]
  <2>1. /\ n \in Nat /\ us \in [1..n -> UpdateShape]
        /\ RightFor(us, w.resources) /\ Turns(us, w.resources, v)
    BY <1>0, DeletedRight, Zenon
  <2>2. v = Empty /\ Empty \in Entries
    BY Zenon DEF Present, Empty, Entries, Absent
  <2>3. rs = [i \in 1..n |-> UpdatesResult(<<us[i]>>)]
    BY Zenon
  <2>4. Deletions(w) = Transition(w.status, s) \o rs
    BY <1>4, Zenon DEF Deletions
  <2> HIDE DEF us, n, v, rs, gone, s
  <2>5. rs \in Seq(Results) /\ Len(rs) = n /\ \A i \in 1..n : rs[i] = UpdatesResult(<<us[i]>>)
    BY ONLY <2>1, <2>3, SinglesType
  <2>6. \A x \in Entries : Point(x, s) \in G
    BY Zenon DEF s
  <2>7. Leads(G, rs, Point(w.resources, s), Point(Empty, s))
    BY <1>0, <1>1, <2>1, <2>2, <2>5, <2>6, LeadsSingly, Zenon
  <2>8. /\ Transition(w.status, s) \in Seq(Results)
        /\ Leads(G, Transition(w.status, s), Point(w.resources, w.status), Point(w.resources, s))
    BY <1>0, <1>1, <2>6, TransitionLeads, Zenon
  <2>9. Leads(G, Transition(w.status, s) \o rs, Point(w.resources, w.status), Point(Empty, s))
    BY <2>5, <2>7, <2>8, LeadsBoth, Zenon
  <2> QED BY ONLY <1>2, <1>4, <2>4, <2>5, <2>8, <2>9
<1> QED BY <1>3, <1>4, Zenon

(* What a list brings that is new, or has a new revision, is right.        *)
LEMMA LearnedRight ==
  ASSUME NEW v \in Entries, NEW a \in Entries,
         NEW L \in SUBSET Keys, \A k \in L : a[k] # v[k]
  PROVE  LET f == MapOrder(L)
             n == Cardinality(L)
             us == [i \in 1..n |-> Learned(v[f[i]], f[i], a[f[i]])]
             w == [k \in Keys |-> IF k \in L THEN a[k] ELSE v[k]]
         IN  /\ n \in Nat /\ us \in [1..n -> UpdateShape] /\ DOMAIN f = 1..n
             /\ RightFor(us, v) /\ Turns(us, v, w) /\ w \in Entries
<1> DEFINE n == Cardinality(L)
           f == MapOrder(L)
           us == [i \in 1..n |-> Learned(v[f[i]], f[i], a[f[i]])]
           w == [k \in Keys |-> IF k \in L THEN a[k] ELSE v[k]]
<1>1. L \subseteq Keys /\ IsFiniteSet(L) /\ \A k \in L : a[k] # v[k]
  BY PresentFinite, Zenon
<1>2. /\ n \in Nat /\ f \in [1..n -> L] /\ \A i, j \in 1..n : f[i] = f[j] => i = j
      /\ \A k \in L : \E i \in 1..n : f[i] = k
  BY <1>1, MapOrderIs, Zenon
<1> HIDE DEF n, f
<1>3. \A i \in 1..n : /\ us[i].key = f[i] /\ us[i].value = a[f[i]]
                      /\ us[i].type = "new" <=> v[f[i]] = Absent
                      /\ f[i] \in L /\ us[i] \in UpdateShape
  BY <1>1, <1>2, Zenon DEF Learned, UpdateShape, Entries
<1>4. us \in [1..n -> UpdateShape] /\ DOMAIN us = 1..n /\ DOMAIN f = 1..n
  BY <1>2, <1>3, Zenon
<1>5. w \in Entries
  BY Zenon DEF Entries
<1> HIDE DEF us
<1>6. RightFor(us, v)
  BY ONLY <1>1, <1>2, <1>3, <1>4 DEF RightFor
<1>7. Turns(us, v, w)
  BY ONLY <1>1, <1>2, <1>3, <1>4 DEF Turns
<1> QED BY <1>2, <1>4, <1>5, <1>6, <1>7, Zenon DEF n, f, us

(* The deletions at the end of a resync, in one result or none.            *)
LEMMA GoneLeads ==
  ASSUME NEW G \in SUBSET Points, NEW s \in Statuses, s # "WaitForDatastore",
         \A x \in Entries : Point(x, s) \in G,
         NEW v \in Entries, NEW K \in SUBSET Present(v)
  PROVE  LET gone == MapOrder(K)
             rs == IF gone = <<>> THEN <<>>
                   ELSE <<UpdatesResult([i \in DOMAIN gone |-> Deleted(gone[i])])>>
             w == [k \in Keys |-> IF k \in K THEN Absent ELSE v[k]]
         IN  rs \in Seq(Results) /\ Leads(G, rs, Point(v, s), Point(w, s))
<1> DEFINE n == Cardinality(K)
           gone == MapOrder(K)
           us == [i \in DOMAIN gone |-> Deleted(gone[i])]
           w == [k \in Keys |-> IF k \in K THEN Absent ELSE v[k]]
<1>1. /\ n \in Nat /\ gone \in [1..n -> K] /\ \A k \in K : \E i \in 1..n : gone[i] = k
  <2>1. IsFiniteSet(K)
    BY PresentFinite, Zenon DEF Present
  <2> QED BY <2>1, MapOrderIs, Zenon
<1>2. us = [i \in 1..n |-> Deleted(MapOrder(K)[i])]
  BY <1>1, Zenon
<1>3. us \in [1..n -> UpdateShape] /\ RightFor(us, v) /\ Turns(us, v, w) /\ w \in Entries
  BY <1>2, DeletedRight, Zenon
<1>4. us \in Seq(UpdateShape)
  BY ONLY <1>1, <1>3
<1>5. Point(v, s) \in G /\ Point(w, s) \in G
  BY <1>3, Zenon
<1> HIDE DEF us, w, gone, n
<1>6. CASE gone = <<>>
  <2>1. K = {}
    BY ONLY <1>1, <1>6
  <2>2. w = v
    BY <2>1, Zenon DEF w, Entries
  <2> QED BY ONLY <1>5, <1>6, <2>2, LeadsNone DEF w, gone
<1>7. CASE gone # <<>>
  <2>1. UpdatesResult(us) \in Results
    BY <1>4, UpdatesResultType, Zenon
  <2>2. Takes(UpdatesResult(us), Point(v, s), Point(w, s))
    BY <1>3, Zenon DEF Takes, UpdatesResult, Point
  <2>3. Leads(G, <<UpdatesResult(us)>>, Point(v, s), Point(w, s))
    BY <1>5, <2>2, LeadsOne, Zenon
  <2> QED BY ONLY <1>7, <2>1, <2>3 DEF w, gone, us
<1> QED BY <1>6, <1>7, Zenon

(* The results of a list lead to what it lists, and then to InSync.        *)
LEMMA ListLeads ==
  ASSUME NEW G \in SUBSET Points, NEW c \in Types, NEW r \in Nat, log \in Seq(Changes),
         wc[c] \in CacheShape,
         Point(wc[c].resources, wc[c].status) \in G,
         \A x \in Entries : Point(x, LeaveWaiting(wc[c].status)) \in G,
         Point(At(c, r), "InSync") \in G
  PROVE  /\ ListResults(c, r) \in Seq(Results)
         /\ Leads(G, ListResults(c, r), Point(wc[c].resources, wc[c].status),
                  Point(At(c, r), "InSync"))
<1> DEFINE w == wc[c]
           v == w.resources
           s == LeaveWaiting(w.status)
           a == At(c, r)
           L == {k \in Present(a) : a[k] # v[k]}
           K == Present(v) \ Present(a)
           listed == MapOrder(L)
           gone == MapOrder(K)
           us == [i \in 1..Cardinality(L) |-> Learned(v[listed[i]], listed[i], a[listed[i]])]
           rs1 == Transition(w.status, s)
           rs2 == [i \in DOMAIN listed |->
                     UpdatesResult(<<Learned(v[listed[i]], listed[i], a[listed[i]])>>)]
           rs3 == IF gone = <<>> THEN <<>>
                  ELSE <<UpdatesResult([i \in DOMAIN gone |-> Deleted(gone[i])])>>
           rs4 == Transition(s, "InSync")
           v1 == [k \in Keys |-> IF k \in L THEN a[k] ELSE v[k]]
           v2 == [k \in Keys |-> IF k \in K THEN Absent ELSE v1[k]]
<1>1. ListResults(c, r) = rs1 \o rs2 \o rs3 \o rs4
  BY Zenon DEF ListResults
<1>2. /\ v \in Entries /\ w.status \in Statuses /\ a \in Entries
      /\ s \in Statuses /\ s # "WaitForDatastore" /\ "InSync" \in Statuses
  <2>1. v \in Entries /\ w.status \in Statuses
    BY Zenon DEF CacheShape, Entries
  <2>2. a \in Entries
    BY AtType, Zenon DEF Entries
  <2> QED BY <2>1, <2>2, LeaveWaitingIs, Zenon DEF Statuses
<1>3. /\ Cardinality(L) \in Nat /\ us \in [1..Cardinality(L) -> UpdateShape]
      /\ DOMAIN listed = 1..Cardinality(L)
      /\ RightFor(us, v) /\ Turns(us, v, v1) /\ v1 \in Entries
  <2>1. L \in SUBSET Keys /\ \A k \in L : a[k] # v[k]
    BY Zenon DEF Present
  <2> HIDE DEF L, a, v
  <2> HIDE DEF us, v1, listed
  <2>2. Cardinality(L) \in Nat /\ DOMAIN MapOrder(L) = 1..Cardinality(L)
    BY <1>2, <2>1, LearnedRight, Zenon
  <2>3. us \in [1..Cardinality(L) -> UpdateShape]
    BY <1>2, <2>1, LearnedRight, Zenon DEF us, listed
  <2>4. RightFor(us, v)
    BY <1>2, <2>1, LearnedRight, Zenon DEF us, listed
  <2>5. v1 \in Entries
    BY <1>2, Zenon DEF v1, Entries
  <2>6. Turns(us, v, v1)
    BY ONLY <1>2, <2>1, LearnedRight DEF us, v1, listed
  <2> QED BY <2>2, <2>3, <2>4, <2>5, <2>6, Zenon DEF listed
<1>4. K \in SUBSET Present(v1)
  <2>1. \A k \in K : k \in Keys /\ k \notin L /\ v[k] # Absent
    BY Zenon DEF Present
  <2> QED BY <2>1, Zenon DEF Present
<1>5. v2 = a
  <2>1. ASSUME NEW k \in Keys
        PROVE  v2[k] = a[k]
    <3>1. v[k] \in Nat /\ a[k] \in Nat
      BY <1>2, Zenon DEF Entries
    <3>2. CASE a[k] = Absent
      BY <3>1, <3>2, Zenon DEF Present
    <3>3. CASE a[k] # Absent
      BY <3>1, <3>3, Zenon DEF Present
    <3> QED BY <3>2, <3>3, Zenon
  <2> QED BY <1>2, <2>1, Zenon DEF Entries
<1>6. rs2 = [i \in 1..Cardinality(L) |-> UpdatesResult(<<us[i]>>)]
  BY <1>3, Zenon
<1>7. \A x \in Entries : Point(x, s) \in G
  BY Zenon
<1>8. rs1 \in Seq(Results) /\ Leads(G, rs1, Point(v, w.status), Point(v, s))
  BY <1>2, <1>7, TransitionLeads, Zenon
<1>9. rs3 \in Seq(Results) /\ Leads(G, rs3, Point(v1, s), Point(v2, s))
  BY <1>2, <1>3, <1>4, <1>7, GoneLeads, Zenon
<1>10. rs4 \in Seq(Results) /\ Leads(G, rs4, Point(a, s), Point(a, "InSync"))
  BY <1>2, <1>7, TransitionLeads, Zenon
<1> HIDE DEF us, L, K, rs1, rs2, rs3, rs4, listed, gone, v1, v2, a, s
<1>11. rs2 \in Seq(Results) /\ Leads(G, rs2, Point(v, s), Point(v1, s))
  <2>1. rs2 \in Seq(Results) /\ Len(rs2) = Cardinality(L)
    BY <1>3, <1>6, SinglesType, Zenon
  <2>2. \A i \in 1..Cardinality(L) : rs2[i] = UpdatesResult(<<us[i]>>)
    BY <1>6, Zenon
  <2> QED BY <1>2, <1>3, <1>7, <2>1, <2>2, LeadsSingly, Zenon
<1>12. rs1 \o rs2 \in Seq(Results) /\ Leads(G, rs1 \o rs2, Point(v, w.status), Point(v1, s))
  BY ONLY <1>8, <1>11, LeadsBoth
<1>13. /\ rs1 \o rs2 \o rs3 \in Seq(Results)
       /\ Leads(G, rs1 \o rs2 \o rs3, Point(v, w.status), Point(a, s))
  <2> DEFINE rs == rs1 \o rs2
  <2>1. rs \in Seq(Results) /\ Leads(G, rs, Point(v, w.status), Point(v1, s))
    BY <1>12, Zenon
  <2>2. Leads(G, rs3, Point(v1, s), Point(a, s))
    BY <1>5, <1>9, Zenon
  <2> HIDE DEF rs
  <2>3. rs \o rs3 \in Seq(Results) /\ Leads(G, rs \o rs3, Point(v, w.status), Point(a, s))
    BY ONLY <1>9, <2>1, <2>2, LeadsBoth
  <2> QED BY <2>3, Zenon DEF rs
<1>14. /\ rs1 \o rs2 \o rs3 \o rs4 \in Seq(Results)
       /\ Leads(G, rs1 \o rs2 \o rs3 \o rs4, Point(v, w.status), Point(a, "InSync"))
  <2> DEFINE rs == rs1 \o rs2 \o rs3
  <2>1. rs \in Seq(Results) /\ Leads(G, rs, Point(v, w.status), Point(a, s))
    BY <1>13, Zenon
  <2> HIDE DEF rs
  <2>2. /\ rs \o rs4 \in Seq(Results)
        /\ Leads(G, rs \o rs4, Point(v, w.status), Point(a, "InSync"))
    BY ONLY <1>10, <2>1, LeadsBoth
  <2> QED BY <2>2, Zenon DEF rs
<1> QED BY <1>1, <1>14, Zenon DEF a

----------------------------------------------------------------------------
(* The updates that are being consolidated.                                *)
TypedUpdates == [type : Types, update : UpdateShape]
Views == [Types -> Entries]

(* What the consumer knows of a key is what the last update of it says.    *)
LEMMA OnLast ==
  ASSUME NEW v \in Views, NEW q \in Seq(TypedUpdates), NEW d \in Types, NEW k \in Keys,
         NEW i \in 1..Len(q), q[i].type = d, q[i].update.key = k,
         \A j \in (i + 1)..Len(q) : ~(q[j].type = d /\ q[j].update.key = k)
  PROVE  OnUpdates(v, q)[d][k] = q[i].update.value
<1> DEFINE S == {j \in DOMAIN q : q[j].type = d /\ q[j].update.key = k}
<1>1. S \in SUBSET (1..Len(q)) /\ Len(q) \in Nat /\ i \in S
  OBVIOUS
<1>2. \A j \in S : j <= i
  OBVIOUS
<1>3. LastUpdate(q, d, k) = i
  <2> HIDE DEF S
  <2>1. Latest(S) = i
    BY <1>1, <1>2, LatestIs, Zenon
  <2> QED BY <2>1, Zenon DEF LastUpdate, S
<1> QED BY ONLY <1>3 DEF OnUpdates

(* Updates of other keys tell nothing of this one.                         *)
LEMMA OnSame ==
  ASSUME NEW v \in Views, NEW p \in Seq(TypedUpdates), NEW q \in Seq(TypedUpdates),
         Len(p) <= Len(q), \A i \in 1..Len(p) : q[i] = p[i],
         NEW d \in Types, NEW k \in Keys,
         \A j \in (Len(p) + 1)..Len(q) : ~(q[j].type = d /\ q[j].update.key = k)
  PROVE  OnUpdates(v, q)[d][k] = OnUpdates(v, p)[d][k]
<1> DEFINE S == {j \in DOMAIN p : p[j].type = d /\ p[j].update.key = k}
           T == {j \in DOMAIN q : q[j].type = d /\ q[j].update.key = k}
<1>1. S = T
  OBVIOUS
<1>2. S \in SUBSET (1..Len(p)) /\ Len(p) \in Nat
  OBVIOUS
<1> HIDE DEF S, T
<1>3. Latest(S) \in 0..Len(p)
  BY <1>2, LatestType, Zenon
<1>4. LastUpdate(p, d, k) = Latest(S) /\ LastUpdate(q, d, k) = Latest(S)
  BY <1>1, Zenon DEF LastUpdate, S, T
<1>5. OnUpdates(v, p)[d][k] = IF Latest(S) = 0 THEN v[d][k] ELSE p[Latest(S)].update.value
  BY <1>4, Zenon DEF OnUpdates
<1>6. OnUpdates(v, q)[d][k] = IF Latest(S) = 0 THEN v[d][k] ELSE q[Latest(S)].update.value
  BY <1>4, Zenon DEF OnUpdates
<1>7. Latest(S) # 0 => q[Latest(S)] = p[Latest(S)]
  BY <1>2, <1>3
<1> QED BY <1>5, <1>6, <1>7, Zenon

(* Without updates the consumer learns nothing.                            *)
LEMMA OnNone ==
  ASSUME NEW v \in Views
  PROVE  OnUpdates(v, <<>>) = v
<1>1. \A d \in Types, k \in Keys : LastUpdate(<<>>, d, k) = 0
  BY DEF LastUpdate, Latest
<1>2. \A d \in Types : v[d] = [k \in Keys |-> v[d][k]]
  BY Zenon DEF Views, Entries
<1> QED BY ONLY <1>1, <1>2 DEF OnUpdates, Views

(* The updates queued make a view out of a view.                           *)
LEMMA OnType ==
  ASSUME NEW v \in Views, NEW q \in Seq(TypedUpdates)
  PROVE  OnUpdates(v, q) \in Views
<1>1. ASSUME NEW d \in Types, NEW k \in Keys
      PROVE  OnUpdates(v, q)[d][k] \in Nat
  <2> DEFINE i == LastUpdate(q, d, k)
  <2>1. i \in 0..Len(q)
    BY ONLY LatestType DEF LastUpdate
  <2>2. OnUpdates(v, q)[d][k] = IF i = 0 THEN v[d][k] ELSE q[i].update.value
    BY Zenon DEF OnUpdates
  <2> HIDE DEF i
  <2>3. v[d][k] \in Nat
    BY Zenon DEF Views, Entries
  <2>4. i # 0 => q[i].update.value \in Nat
    <3>1. i # 0 => q[i] \in TypedUpdates
      BY ONLY <2>1
    <3> QED BY <3>1, Zenon DEF TypedUpdates, UpdateShape
  <2> QED BY <2>2, <2>3, <2>4, Zenon
<1> QED BY <1>1, Zenon DEF OnUpdates, Views, Entries

(* processUpdates adds the updates of a cache, with its type, at the end.  *)
LEMMA Consolidated ==
  ASSUME NEW q \in Seq(TypedUpdates), NEW c \in Types, NEW us \in Seq(UpdateShape)
  PROVE  LET n == q \o [i \in DOMAIN us |-> [type |-> c, update |-> us[i]]]
         IN  /\ n \in Seq(TypedUpdates)
             /\ Len(n) = Len(q) + Len(us)
             /\ \A i \in 1..Len(q) : n[i] = q[i]
             /\ \A i \in 1..Len(us) : n[Len(q) + i] = [type |-> c, update |-> us[i]]
<1> DEFINE l == Len(q)
           m == Len(us)
           ts == [i \in 1..m |-> [type |-> c, update |-> us[i]]]
<1>1. DOMAIN us = 1..m /\ m \in Nat /\ l \in Nat
  OBVIOUS
<1>2. \A i \in 1..m : us[i] \in UpdateShape
  OBVIOUS
<1>3. \A i \in 1..m : [type |-> c, update |-> us[i]] \in TypedUpdates
  BY <1>2, Zenon DEF TypedUpdates
<1>4. ts \in Seq(TypedUpdates) /\ Len(ts) = m
  BY ONLY <1>1, <1>3
<1> DEFINE n == q \o [i \in DOMAIN us |-> [type |-> c, update |-> us[i]]]
<1>5. n = q \o ts
  BY <1>1, Zenon
<1> HIDE DEF n
<1>6. /\ n \in Seq(TypedUpdates) /\ Len(n) = l + m /\ \A i \in 1..l : n[i] = q[i]
      /\ \A i \in 1..m : n[l + i] = ts[i]
  <2> DEFINE t == q \o ts
  <2> HIDE DEF ts, m, l
  <2>1. t \in Seq(TypedUpdates) /\ Len(t) = l + m
    BY ONLY <1>4, q \in Seq(TypedUpdates) DEF l
  <2>2. \A i \in 1..l : t[i] = q[i]
    BY ONLY <1>4 DEF l
  <2>3. \A i \in 1..m : t[l + i] = ts[i]
    BY ONLY <1>1, <1>4 DEF l
  <2> QED BY <1>5, <2>1, <2>2, <2>3, Zenon
<1> QED BY <1>6, Zenon DEF n

(* Updates of different keys of a type turn what the consumer knows of it  *)
(* into what they say, and are right when they were right before.          *)
LEMMA OnMore ==
  ASSUME NEW v \in Views, NEW q \in Seq(TypedUpdates), NEW c \in Types,
         NEW us \in Seq(UpdateShape), RightFor(us, OnUpdates(v, q)[c]),
         NEW n \in Seq(TypedUpdates), Len(n) = Len(q) + Len(us),
         \A i \in 1..Len(q) : n[i] = q[i],
         \A i \in 1..Len(us) : n[Len(q) + i] = [type |-> c, update |-> us[i]]
  PROVE  /\ Turns(us, OnUpdates(v, q)[c], OnUpdates(v, n)[c])
         /\ \A d \in Types \ {c} : OnUpdates(v, n)[d] = OnUpdates(v, q)[d]
         /\ \A i \in 1..Len(us) :
              OnUpdates(v, SubSeq(n, 1, Len(q) + i - 1))[c][us[i].key]
                = OnUpdates(v, q)[c][us[i].key]
<1> DEFINE l == Len(q)
           m == Len(us)
<1>1. DOMAIN us = 1..m /\ m \in Nat /\ l \in Nat
  OBVIOUS
<1>2. \A i \in 1..m : us[i] \in UpdateShape /\ us[i].key \in Keys
  <2>1. \A i \in 1..m : us[i] \in UpdateShape
    OBVIOUS
  <2> QED BY <2>1, Zenon DEF UpdateShape
<1>6. Len(n) = l + m /\ \A i \in 1..l : n[i] = q[i]
  BY Zenon
<1>7. \A i \in 1..m : n[l + i].type = c /\ n[l + i].update = us[i]
  <2>1. \A i \in 1..m : n[l + i] = [type |-> c, update |-> us[i]]
    BY Zenon
  <2> HIDE DEF l, m
  <2>2. ASSUME NEW i \in 1..m
        PROVE  n[l + i].type = c /\ n[l + i].update = us[i]
    <3>1. n[l + i] = [type |-> c, update |-> us[i]]
      BY <2>1, Zenon
    <3> QED BY ONLY <3>1
  <2> QED BY <2>2, Zenon
<1> HIDE DEF l, m
<1>8. \A j \in (l + 1)..(l + m) : /\ j - l \in 1..m /\ n[j].type = c
                                  /\ n[j].update = us[j - l]
  <2> SUFFICES ASSUME NEW j \in (l + 1)..(l + m)
               PROVE  j - l \in 1..m /\ n[j].type = c /\ n[j].update = us[j - l]
    BY Zenon
  <2>1. j - l \in 1..m /\ l + (j - l) = j
    BY ONLY <1>1
  <2> QED BY <1>7, <2>1, Zenon
<1>9. ASSUME NEW i \in 1..m
      PROVE  OnUpdates(v, n)[c][us[i].key] = us[i].value
  <2>1. l + i \in 1..Len(n) /\ Len(n) = l + m
    BY ONLY <1>1, <1>6
  <2>2. ASSUME NEW j \in (l + i + 1)..Len(n)
        PROVE  ~(n[j].type = c /\ n[j].update.key = us[i].key)
    <3>1. j \in (l + 1)..(l + m) /\ j - l # i
      BY ONLY <1>1, <2>1
    <3>2. us[j - l].key # us[i].key
      BY <1>1, <1>8, <3>1, Zenon DEF RightFor
    <3> QED BY <1>8, <3>1, <3>2, Zenon
  <2>3. OnUpdates(v, n)[c][us[i].key] = n[l + i].update.value
    BY <1>2, <1>6, <1>7, <2>1, <2>2, OnLast, Zenon
  <2> QED BY <1>7, <2>3, Zenon
<1>10. ASSUME NEW d \in Types, NEW k \in Keys,
              d # c \/ \A i \in DOMAIN us : us[i].key # k
       PROVE  OnUpdates(v, n)[d][k] = OnUpdates(v, q)[d][k]
  <2>1. Len(q) = l /\ Len(q) <= Len(n) /\ \A i \in 1..Len(q) : n[i] = q[i]
    BY ONLY <1>1, <1>6 DEF l
  <2>2. \A j \in (Len(q) + 1)..Len(n) : ~(n[j].type = d /\ n[j].update.key = k)
    <3>1. (Len(q) + 1)..Len(n) = (l + 1)..(l + m)
      BY <1>6, <2>1, Zenon
    <3> QED BY ONLY <1>1, <1>8, <1>10, <3>1, Zenon
  <2> QED BY <1>6, <2>1, <2>2, OnSame, Zenon
<1>11. Turns(us, OnUpdates(v, q)[c], OnUpdates(v, n)[c])
  BY <1>1, <1>9, <1>10, Zenon DEF Turns
<1>12. \A d \in Types \ {c} : OnUpdates(v, n)[d] = OnUpdates(v, q)[d]
  <2> SUFFICES ASSUME NEW d \in Types \ {c}
               PROVE  OnUpdates(v, n)[d] = OnUpdates(v, q)[d]
    BY Zenon
  <2>1. \A k \in Keys : OnUpdates(v, n)[d][k] = OnUpdates(v, q)[d][k]
    BY <1>10, Zenon
  <2>2. OnUpdates(v, n)[d] \in Entries /\ OnUpdates(v, q)[d] \in Entries
    BY <1>6, OnType, Zenon DEF Views
  <2> DEFINE e == OnUpdates(v, n)[d]
             f == OnUpdates(v, q)[d]
  <2>3. e \in Entries /\ f \in Entries /\ \A k \in Keys : e[k] = f[k]
    BY <2>1, <2>2, Zenon
  <2> HIDE DEF e, f
  <2>4. e = f
    BY ONLY <2>3 DEF Entries
  <2> QED BY <2>4, Zenon DEF e, f
<1>13. ASSUME NEW i \in 1..m
       PROVE  OnUpdates(v, SubSeq(n, 1, l + i - 1))[c][us[i].key] = OnUpdates(v, q)[c][us[i].key]
  <2> DEFINE b == SubSeq(n, 1, l + i - 1)
  <2>1. /\ b \in Seq(TypedUpdates) /\ Len(b) = l + i - 1
        /\ \A j \in 1..(l + i - 1) : b[j] = n[j]
    <3> DEFINE h == l + i - 1
    <3>1. h \in Nat /\ h <= Len(n)
      BY ONLY <1>1, <1>6
    <3> HIDE DEF h
    <3>2. \A j \in 1..h : n[j] \in TypedUpdates
      BY ONLY <3>1
    <3>3. /\ SubSeq(n, 1, h) \in Seq(TypedUpdates) /\ Len(SubSeq(n, 1, h)) = h
          /\ \A j \in 1..h : SubSeq(n, 1, h)[j] = n[j]
      BY ONLY <3>1, <3>2
    <3> QED BY <3>3, Zenon DEF h
  <2> HIDE DEF b
  <2>2. Len(q) = l /\ Len(q) <= Len(b) /\ \A j \in 1..Len(q) : b[j] = q[j]
    <3>1. Len(q) = l
      BY Zenon DEF l
    <3>2. l <= Len(b) /\ \A j \in 1..l : b[j] = n[j]
      BY ONLY <1>1, <2>1
    <3> QED BY <1>6, <3>1, <3>2, Zenon
  <2>3. ASSUME NEW j \in (Len(q) + 1)..Len(b)
        PROVE  ~(b[j].type = c /\ b[j].update.key = us[i].key)
    <3>1. j \in (l + 1)..(l + m) /\ j - l # i /\ b[j] = n[j]
      <4>1. j \in (l + 1)..(l + i - 1)
        BY <2>1, <2>2, Zenon
      <4> QED BY ONLY <1>1, <2>1, <4>1
    <3>2. us[j - l].key # us[i].key
      BY <1>1, <1>8, <3>1, Zenon DEF RightFor
    <3> QED BY <1>8, <3>1, <3>2, Zenon
  <2>4. us[i].key \in Keys /\ b \in Seq(TypedUpdates)
    BY <1>2, <2>1, Zenon
  <2>5. OnUpdates(v, b)[c][us[i].key] = OnUpdates(v, q)[c][us[i].key]
    BY ONLY <2>2, <2>3, <2>4, v \in Views, q \in Seq(TypedUpdates), c \in Types, OnSame, Zenon
  <2> QED BY ONLY <2>5, Zenon DEF b
<1> QED BY <1>11, <1>12, <1>13, Zenon DEF l, m

----------------------------------------------------------------------------
(* The types that can be watched and are installed.                        *)
Watched == Types \ (Unwatchable \cup Optional)

(* With Kubernetes, what is called InSync is the full picture.             *)
Full(c) ==
  {x \in Points : ~Etcd /\ ~stopping /\ c \in Watched /\ x.status = "InSync"
                    => \E r \in 1..Now : x.entries = At(c, r)}

(* What the consumer knows of a type once it has the updates, and what the *)
(* cache holds.                                                            *)
Told(c) == Point(OnUpdates(view, updates)[c], statuses[c])
Held(c) == Point(wc[c].resources, wc[c].status)

(* A cache that watches, or would watch again without a list.              *)
Settled(w) == w.pc \in {"watch", "watching"} \/ (~w.full /\ w.rev # 0)

(* A stopped cache is empty, a settled one does not wait for the datastore,*)
(* and one that can be watched is not InSync while it lists.               *)
LocalOK(c, w) ==
  /\ w.pc = "stopped" => w.resources = Empty
  /\ w.pc = "list" => w.full
  /\ Settled(w) => w.status # "WaitForDatastore"
  /\ c \in Watched => /\ w.crdInstalled /\ w.polling = "no"
                      /\ w.pc = "list" => w.status # "InSync"

(* The inductive invariant.                                                *)
StreamOK ==
  /\ CachesOK
  /\ results \in [Types -> Seq(Results)]
  /\ statuses \in [Types -> Statuses] /\ view \in Views /\ updates \in Seq(TypedUpdates)
  /\ \A c \in Types : LocalOK(c, wc[c])
  /\ \A c \in Types : Leads(Full(c), results[c], Told(c), Held(c))
  /\ status = Combined(statuses) /\ Types # {}
  /\ status = "WaitForDatastore" => updates = <<>>
  /\ status = "InSync" => \A c \in Types : Point(view[c], "InSync") \in Full(c)
  /\ UpdateTypesRight

(* Full is a set of points.                                                *)
LEMMA FullPoints ==
  ASSUME NEW c
  PROVE  Full(c) \in SUBSET Points
  BY Zenon DEF Full

(* What is not InSync claims nothing, and neither does a type that cannot  *)
(* be watched, or a syncer that stops.                                     *)
LEMMA FullFree ==
  ASSUME NEW c \in Types, NEW s \in Statuses, s # "InSync" \/ c \notin Watched \/ stopping,
         NEW v \in Entries
  PROVE  Point(v, s) \in Full(c)
<1>1. Point(v, s) \in Points /\ Point(v, s).status = s
  BY Zenon DEF Point, Points
<1> QED BY <1>1, Zenon DEF Full

(* Later changes and a stop take no full picture away.                     *)
LEMMA FullSame ==
  ASSUME log' = log, stopping' = stopping, NEW c \in Types
  PROVE  Full(c)' = Full(c)
  BY DEF Full, Now, At, LastChange, ChangesOf

(* A stop leaves more points full, not fewer.                              *)
LEMMA FullStop ==
  ASSUME log' = log, stopping', NEW c \in Types
  PROVE  Full(c) \subseteq Full(c)'
  BY Zenon DEF Full

(* What was full stays so when the datastore changes: an earlier           *)
(* revision's snapshot is what it was.                                     *)
LEMMA FullChange ==
  ASSUME log \in Seq(Changes), stopping' = stopping, NEW e \in Changes, log' = Append(log, e),
         NEW c \in Types
  PROVE  Full(c) \subseteq Full(c)'
<1>1. Len(log) \in Nat /\ Len(log') = Len(log) + 1 /\ \A i \in 1..Len(log) : log'[i] = log[i]
  OBVIOUS
<1>2. ASSUME NEW r \in 1..Len(log)
      PROVE  At(c, r)' = At(c, r)
  <2>1. r \in Nat /\ \A i \in 1..r : log'[i] = log[i]
    BY ONLY <1>1
  <2>2. ASSUME NEW k \in Keys
        PROVE  /\ LastChange(c, k, r)' = LastChange(c, k, r)
               /\ LastChange(c, k, r) \in 0..r
    <3>1. ChangesOf(c, k, r)' = ChangesOf(c, k, r)
      BY <2>1, Zenon DEF ChangesOf
    <3>2. LastChange(c, k, r) \in 0..r
      BY <2>1, LatestType, Zenon DEF LastChange, ChangesOf
    <3> QED BY <3>1, <3>2, Zenon DEF LastChange
  <2>3. \A k \in Keys : LastChange(c, k, r) # 0 => log'[LastChange(c, k, r)] = log[LastChange(c, k, r)]
    BY ONLY <2>1, <2>2
  <2> QED BY <2>2, <2>3, Zenon DEF At
<1>3. \A r \in 1..Len(log) : r \in 1..Len(log')
  BY ONLY <1>1
<1> QED BY <1>2, <1>3, Zenon DEF Full, Now

----------------------------------------------------------------------------
(* A cache that sends what leads to its new entries and status.            *)
LEMMA CacheStep ==
  ASSUME StreamOK, CachesOK', log' = log, stopping' = stopping, UNCHANGED syncer,
         NEW c \in Types, wc' = [wc EXCEPT ![c] = wc'[c]], LocalOK(c, wc'[c]),
         NEW rs \in Seq(Results), results' = [results EXCEPT ![c] = @ \o rs],
         Leads(Full(c), rs, Held(c), Held(c)')
  PROVE  StreamOK'
<1>0. statuses' = statuses /\ status' = status /\ updates' = updates /\ view' = view
  BY Zenon DEF syncer
<1>1. results \in [Types -> Seq(Results)] /\ wc \in [Types -> CacheShape]
  BY Zenon DEF StreamOK, CachesOK
<1>2. results' \in [Types -> Seq(Results)]
  BY <1>1
<1>3. \A d \in Types : Full(d)' = Full(d)
  BY FullSame, Zenon
<1>4. \A d \in Types : Told(d)' = Told(d)
  BY <1>0, Zenon DEF Told
<1>5. ASSUME NEW d \in Types
      PROVE  LocalOK(d, wc'[d])
  BY <1>1, Zenon DEF StreamOK
<1>6. ASSUME NEW d \in Types
      PROVE  Leads(Full(d), results'[d], Told(d), Held(d)')
  <2>1. CASE d = c
    <3>1. results'[c] = results[c] \o rs /\ results[c] \in Seq(Results)
      BY <1>1, Zenon
    <3>2. Leads(Full(c), results[c], Told(c), Held(c))
      BY Zenon DEF StreamOK
    <3>3. Full(c) \in SUBSET Points
      BY FullPoints, Zenon
    <3>4. Leads(Full(c), results[c] \o rs, Told(c), Held(c)')
      BY <3>1, <3>2, <3>3, LeadsBoth, Zenon
    <3> QED BY <2>1, <3>1, <3>4, Zenon
  <2>2. CASE d # c
    <3>1. results'[d] = results[d] /\ wc'[d] = wc[d]
      BY <1>1, <2>2, Zenon
    <3>2. Held(d)' = Held(d)
      BY <3>1, Zenon DEF Held
    <3> QED BY <3>1, <3>2, Zenon DEF StreamOK
  <2> QED BY <2>1, <2>2, Zenon
<1>7. UpdateTypesRight'
  BY <1>0, Zenon DEF StreamOK, UpdateTypesRight
<1>8. \A d \in Types : LocalOK(d, wc[d])'
  BY <1>5, Zenon DEF LocalOK
<1>9. \A d \in Types : Leads(Full(d), results[d], Told(d), Held(d))'
  <2> SUFFICES ASSUME NEW d \in Types
               PROVE  Leads(Full(d), results[d], Told(d), Held(d))'
    BY Zenon
  <2>1. Leads(Full(d)', results'[d], Told(d)', Held(d)')
    BY <1>3, <1>4, <1>6, Zenon
  <2> QED BY <2>1, Zenon DEF Leads
<1> QED BY <1>0, <1>2, <1>3, <1>7, <1>8, <1>9, Zenon DEF StreamOK

(* A cache that keeps its entries and its status, and sends nothing.       *)
LEMMA QuietCache ==
  ASSUME StreamOK, CachesOK', log' = log, stopping' = stopping, UNCHANGED syncer,
         NEW c \in Types, wc' = [wc EXCEPT ![c] = wc'[c]], LocalOK(c, wc'[c]),
         results' = results,
         wc'[c].resources = wc[c].resources, wc'[c].status = wc[c].status
  PROVE  StreamOK'
<1>1. results[c] \in Seq(Results) /\ results \in [Types -> Seq(Results)]
  BY Zenon DEF StreamOK
<1>2. results' = [results EXCEPT ![c] = @ \o <<>>]
  BY <1>1
<1>3. Held(c)' = Held(c)
  BY Zenon DEF Held
<1>4. Held(c) \in Full(c)
  BY <1>1, FullPoints, LeadsType, Zenon DEF StreamOK
<1>5. Leads(Full(c), <<>>, Held(c), Held(c)')
  BY <1>3, <1>4, FullPoints, LeadsNone, Zenon
<1>6. <<>> \in Seq(Results)
  OBVIOUS
<1> QED BY <1>2, <1>5, <1>6, CacheStep, Zenon

(* Failures of the watch, and of a list that is tried again.               *)
LEMMA QuietSteps ==
  ASSUME StreamOK, CachesOK', NEW c \in Types,
         \/ ListExpired(c) \/ ListFailed(c) \/ WatchCreated(c) \/ WatchExpired(c)
         \/ WatchRefused(c) \/ WatchUnsupported(c) \/ WatchFailed(c) \/ WatchBookmark(c)
         \/ WatchClosed(c) \/ WatchErrorExpired(c) \/ WatchError(c)
  PROVE  StreamOK'
<1> DEFINE Kept == /\ wc' = [wc EXCEPT ![c] = wc'[c]]
                   /\ wc'[c].resources = wc[c].resources /\ wc'[c].status = wc[c].status
                   /\ wc'[c].pc \in {"resync", "watching"}
                   /\ Settled(wc'[c]) => Settled(wc[c])
                   /\ wc'[c].crdInstalled = TRUE \/ wc'[c].crdInstalled = wc[c].crdInstalled
                   /\ \/ c \notin Watched \/ wc'[c].polling = "no"
                      \/ wc'[c].polling = wc[c].polling
<1>0. wc \in [Types -> CacheShape] /\ wc[c] \in CacheShape /\ LocalOK(c, wc[c])
  BY Zenon DEF StreamOK, CachesOK
<1>1. log' = log /\ stopping' = stopping /\ results' = results /\ UNCHANGED syncer
  BY Zenon DEF ListExpired, ListFailed, WatchCreated, WatchExpired, WatchRefused, WatchUnsupported,
     WatchFailed, WatchBookmark, WatchClosed, WatchErrorExpired, WatchError, store
<1>3. Kept
  <2>1. CASE ListExpired(c)
    BY <1>0, <2>1, Zenon DEF ListExpired, CacheShape, Settled
  <2>2. CASE ListFailed(c)
    BY <1>0, <2>2, Zenon DEF ListFailed, CacheShape, Settled, Ready, LocalOK
  <2>3. CASE WatchCreated(c)
    BY <1>0, <2>3, Zenon DEF WatchCreated, CacheShape, Settled, CanWatch, Ready
  <2>4. CASE WatchExpired(c)
    BY <1>0, <2>4, Zenon DEF WatchExpired, CacheShape, Settled
  <2>5. CASE WatchRefused(c)
    BY ONLY <1>0, <2>5 DEF WatchRefused, CacheShape, Settled, CanWatch, Ready
  <2>6. CASE WatchFailed(c)
    BY <1>0, <2>6, Zenon DEF WatchFailed, CacheShape, Settled, CanWatch, Ready
  <2>7. CASE WatchClosed(c)
    BY <1>0, <2>7, Zenon DEF WatchClosed, CacheShape, Settled, Ready
  <2>8. CASE WatchErrorExpired(c)
    BY <1>0, <2>8, Zenon DEF WatchErrorExpired, CacheShape, Settled
  <2>9. CASE WatchError(c)
    BY <1>0, <2>9, Zenon DEF WatchError, CacheShape, Settled, Ready
  <2>10. CASE WatchUnsupported(c)
    <3>1. c \notin Watched
      BY <2>10, Zenon DEF WatchUnsupported, Watched
    <3> QED BY <1>0, <2>10, <3>1, Zenon DEF WatchUnsupported, CacheShape, Settled
  <2>11. CASE WatchBookmark(c)
    <3>1. wc[c].pc = "watching"
      BY <2>11, Zenon DEF WatchBookmark, Ready
    <3>2. PICK r : wc' = [wc EXCEPT ![c].rev = r, ![c].pos = r, ![c].errors = 0]
      BY <2>11, Zenon DEF WatchBookmark
    <3> QED BY <1>0, <3>1, <3>2, Zenon DEF CacheShape, Settled
  <2> QED BY <2>1, <2>2, <2>3, <2>4, <2>5, <2>6, <2>7, <2>8, <2>9, <2>10, <2>11, Zenon
<1>4. LocalOK(c, wc'[c])
  BY <1>0, <1>3, Zenon DEF LocalOK
<1> QED BY <1>1, <1>3, <1>4, QuietCache, Zenon

(* The start of a resync leaves InSync, unless the type polls or is not    *)
(* installed.                                                              *)
LEMMA StartStep ==
  ASSUME StreamOK, CachesOK', NEW c \in Types, StartResync(c)
  PROVE  StreamOK'
<1> DEFINE sticky == ~wc[c].crdInstalled \/ wc[c].polling # "no"
           s == IF sticky THEN wc[c].status
                ELSE IF wc[c].connected THEN "ResyncInProgress" ELSE "WaitForDatastore"
           v == wc[c].resources
<1>0. /\ wc \in [Types -> CacheShape] /\ wc[c] \in CacheShape /\ LocalOK(c, wc[c])
      /\ results \in [Types -> Seq(Results)] /\ results[c] \in Seq(Results)
  BY DEF StreamOK, CachesOK
<1>1. /\ log' = log /\ stopping' = stopping /\ UNCHANGED syncer
      /\ results' = [results EXCEPT ![c] = @ \o Transition(wc[c].status, s)]
      /\ wc' = [wc EXCEPT ![c].pc = "list", ![c].full = TRUE, ![c].polling = "no",
                          ![c].status = s]
  BY Zenon DEF StartResync, store, Send
<1>2. v \in Entries /\ wc[c].status \in Statuses /\ s \in Statuses
  BY <1>0, Zenon DEF CacheShape, Entries, Statuses
<1>3. c \in Watched => s # "InSync"
  BY <1>0, Zenon DEF LocalOK
<1> HIDE DEF s
<1>4. /\ wc' = [wc EXCEPT ![c] = wc'[c]] /\ wc'[c].resources = v /\ wc'[c].status = s
      /\ wc'[c].pc = "list" /\ wc'[c].crdInstalled = wc[c].crdInstalled
      /\ wc'[c].polling = "no" /\ wc'[c].full = TRUE
  BY <1>0, <1>1, Zenon DEF CacheShape
<1>5. LocalOK(c, wc'[c])
  BY <1>0, <1>3, <1>4, ZenonT(30) DEF LocalOK, Settled
<1>6. Held(c) \in Full(c) /\ Held(c) = Point(v, wc[c].status)
  BY <1>0, FullPoints, LeadsType, Zenon DEF StreamOK, Held
<1>7. Point(v, s) \in Full(c)
  BY <1>2, <1>3, FullFree, ZenonT(30)
<1>8. Held(c)' = Point(v, s)
  BY <1>4, ZenonT(30) DEF Held
<1>9. /\ Transition(wc[c].status, s) \in Seq(Results)
      /\ Leads(Full(c), Transition(wc[c].status, s), Held(c), Held(c)')
  BY <1>2, <1>6, <1>7, <1>8, FullPoints, TransitionLeads, ZenonT(30)
<1> QED BY <1>1, <1>4, <1>5, <1>9, CacheStep, Zenon

(* A type that is not installed goes to InSync as it is.                   *)
LEMMA NotFoundStep ==
  ASSUME StreamOK, CachesOK', NEW c \in Types, ListNotFound(c)
  PROVE  StreamOK'
<1> DEFINE s == LeaveWaiting(wc[c].status)
           v == wc[c].resources
           rs == Transition(wc[c].status, s)
           ts == Transition(s, "InSync")
<1>0. /\ wc \in [Types -> CacheShape] /\ wc[c] \in CacheShape
      /\ results \in [Types -> Seq(Results)] /\ results[c] \in Seq(Results)
  BY ZenonT(30) DEF StreamOK, CachesOK
<1>1. /\ log' = log /\ stopping' = stopping /\ UNCHANGED syncer
      /\ results' = [results EXCEPT ![c] = @ \o (rs \o ts)]
      /\ wc' = [wc EXCEPT ![c].pc = "resync", ![c].status = "InSync",
                          ![c].crdInstalled = FALSE, ![c].connected = TRUE]
      /\ c \notin Watched
  BY Zenon DEF ListNotFound, store, Send, Watched
<1>2. v \in Entries /\ wc[c].status \in Statuses /\ s \in Statuses /\ "InSync" \in Statuses
  <2>1. v \in Entries /\ wc[c].status \in Statuses /\ "InSync" \in Statuses
    BY <1>0, ZenonT(30) DEF CacheShape, Entries, Statuses
  <2> QED BY <2>1, LeaveWaitingIs, ZenonT(30)
<1>3. \A t \in Statuses : Point(v, t) \in Full(c)
  BY <1>1, <1>2, FullFree, Zenon
<1>4. /\ rs \in Seq(Results) /\ Leads(Full(c), rs, Point(v, wc[c].status), Point(v, s))
      /\ ts \in Seq(Results) /\ Leads(Full(c), ts, Point(v, s), Point(v, "InSync"))
  <2> HIDE DEF s
  <2> QED BY <1>2, <1>3, FullPoints, TransitionLeads, Zenon
<1> HIDE DEF rs, ts, s
<1>5. rs \o ts \in Seq(Results) /\ Leads(Full(c), rs \o ts, Point(v, wc[c].status), Point(v, "InSync"))
  BY ONLY <1>4, FullPoints, LeadsBoth
<1>6. /\ wc' = [wc EXCEPT ![c] = wc'[c]] /\ wc'[c].resources = v /\ wc'[c].status = "InSync"
      /\ wc'[c].pc = "resync"
  BY <1>0, <1>1, Zenon DEF CacheShape
<1>7. LocalOK(c, wc'[c])
  BY <1>1, <1>6, Zenon DEF LocalOK
<1>8. Held(c) = Point(v, wc[c].status) /\ Held(c)' = Point(v, "InSync")
  BY <1>6, Zenon DEF Held
<1>9. Leads(Full(c), rs \o ts, Held(c), Held(c)')
  BY <1>5, <1>8, ZenonT(30)
<1> QED BY <1>1, <1>5, <1>6, <1>7, <1>9, CacheStep, Zenon

(* A list leads to what it lists.                                          *)
LEMMA ListStep ==
  ASSUME StreamOK, CachesOK', NEW c \in Types, ListSucceeds(c) \/ ListWithoutRevision(c)
  PROVE  StreamOK'
<1>0. /\ wc \in [Types -> CacheShape] /\ wc[c] \in CacheShape /\ LocalOK(c, wc[c])
      /\ log \in Seq(Changes)
      /\ results \in [Types -> Seq(Results)] /\ results[c] \in Seq(Results)
  BY Zenon DEF StreamOK, CachesOK
<1>1. /\ log' = log /\ stopping' = stopping /\ UNCHANGED syncer /\ wc[c].pc = "list"
  BY Zenon DEF ListSucceeds, ListWithoutRevision, store, Ready
<1>2. PICK r \in 1..Now :
        /\ results' = [results EXCEPT ![c] = @ \o ListResults(c, r)]
        /\ \/ wc' = [wc EXCEPT ![c] = [Listed(c, r) EXCEPT !.pc = "watch", !.rev = r,
                                                           !.errors = 0, !.full = FALSE]]
           \/ /\ wc' = [wc EXCEPT ![c] = [Listed(c, r) EXCEPT !.pc = "resync", !.rev = 0,
                                                              !.polling = "list"]]
              /\ c \notin Watched
  BY Zenon DEF ListSucceeds, ListWithoutRevision, Send, Watched
<1>3. r \in Nat /\ At(c, r) \in Entries
  <2>1. r \in Nat
    BY ONLY <1>0 DEF Now
  <2> QED BY <1>0, <2>1, AtType, ZenonT(30) DEF Entries
<1>4. /\ wc' = [wc EXCEPT ![c] = wc'[c]]
      /\ wc'[c].resources = At(c, r) /\ wc'[c].status = "InSync"
      /\ wc'[c].pc \in {"watch", "resync"} /\ wc'[c].crdInstalled
      /\ c \in Watched => wc'[c].polling = wc[c].polling
  <2> DEFINE l == Listed(c, r)
  <2>1. /\ l \in CacheShape /\ l.resources = At(c, r) /\ l.status = "InSync"
        /\ l.crdInstalled = TRUE /\ l.polling = wc[c].polling
    BY <1>0, <1>3, Zenon DEF Listed, CacheShape, Statuses, Entries
  <2>2. CASE wc' = [wc EXCEPT ![c] = [l EXCEPT !.pc = "watch", !.rev = r, !.errors = 0,
                                               !.full = FALSE]]
    <3> HIDE DEF l
    <3> QED BY <1>0, <2>1, <2>2, Zenon DEF CacheShape
  <2>3. CASE /\ wc' = [wc EXCEPT ![c] = [l EXCEPT !.pc = "resync", !.rev = 0,
                                                  !.polling = "list"]]
             /\ c \notin Watched
    <3> HIDE DEF l
    <3> QED BY <1>0, <2>1, <2>3, Zenon DEF CacheShape
  <2> QED BY <1>2, <2>2, <2>3, Zenon
<1>5. LocalOK(c, wc'[c])
  BY <1>0, <1>4, Zenon DEF LocalOK
<1>6. Held(c) \in Full(c)
  BY <1>0, FullPoints, LeadsType, Zenon DEF StreamOK
<1>7. \A x \in Entries : Point(x, LeaveWaiting(wc[c].status)) \in Full(c)
  <2>1. c \in Watched => LeaveWaiting(wc[c].status) # "InSync"
    BY <1>0, <1>1, Zenon DEF LocalOK, LeaveWaiting
  <2>2. LeaveWaiting(wc[c].status) \in Statuses
    BY <1>0, LeaveWaitingIs, Zenon DEF CacheShape
  <2> QED BY <2>1, <2>2, FullFree, ZenonT(30)
<1>8. Point(At(c, r), "InSync") \in Full(c)
  <2>1. Point(At(c, r), "InSync") \in Points /\ Point(At(c, r), "InSync").entries = At(c, r)
    BY <1>3, Zenon DEF Point, Points, Statuses
  <2> QED BY <2>1, Zenon DEF Full
<1>9. /\ ListResults(c, r) \in Seq(Results)
      /\ Leads(Full(c), ListResults(c, r), Held(c), Point(At(c, r), "InSync"))
  BY <1>0, <1>3, <1>6, <1>7, <1>8, FullPoints, ListLeads, ZenonT(30) DEF Held
<1>10. Held(c)' = Point(At(c, r), "InSync")
  BY <1>4, ZenonT(30) DEF Held
<1>11. Leads(Full(c), ListResults(c, r), Held(c), Held(c)')
  BY <1>9, <1>10, Zenon
<1> QED BY <1>1, <1>2, <1>4, <1>5, <1>9, <1>11, CacheStep, Zenon

(* A cache that is disconnected says so, and deletes all it has if it      *)
(* should.                                                                 *)
LEMMA TimedOutStep ==
  ASSUME StreamOK, CachesOK', NEW c \in Types, ListTimedOut(c)
  PROVE  StreamOK'
<1> DEFINE w == [wc[c] EXCEPT !.pc = "resync", !.crdInstalled = TRUE, !.connected = FALSE]
<1>0. /\ wc \in [Types -> CacheShape] /\ wc[c] \in CacheShape /\ LocalOK(c, wc[c])
      /\ results \in [Types -> Seq(Results)] /\ results[c] \in Seq(Results)
  BY Zenon DEF StreamOK, CachesOK
<1>1. /\ w \in CacheShape /\ w.pc = "resync" /\ w.crdInstalled = TRUE
      /\ w.polling = wc[c].polling /\ w.status = wc[c].status /\ w.resources = wc[c].resources
      /\ w.full = wc[c].full
  BY <1>0, Zenon DEF CacheShape
<1>2. /\ log' = log /\ stopping' = stopping /\ UNCHANGED syncer /\ wc[c].pc = "list"
      /\ \/ /\ results' = [results EXCEPT ![c] = @ \o <<ErrorResult>>]
            /\ wc' = [wc EXCEPT ![c] = w]
         \/ /\ results' = [results EXCEPT ![c] = @ \o (<<ErrorResult>> \o Deletions(w))]
            /\ wc' = [wc EXCEPT ![c] = Forgotten(w)]
  BY Zenon DEF ListTimedOut, store, Ready, Send
<1> HIDE DEF w
<1>3. Held(c) \in Full(c) /\ Held(c) = Point(w.resources, w.status)
  BY <1>0, <1>1, FullPoints, LeadsType, Zenon DEF StreamOK, Held
<1>4. <<ErrorResult>> \in Seq(Results) /\ Leads(Full(c), <<ErrorResult>>, Held(c), Held(c))
  <2>1. ErrorResult \in Results /\ Takes(ErrorResult, Held(c), Held(c))
    BY Zenon DEF ErrorResult, Results, Takes
  <2> QED BY ONLY <1>3, <2>1, FullPoints, LeadsOne
<1>5. CASE /\ results' = [results EXCEPT ![c] = @ \o <<ErrorResult>>]
           /\ wc' = [wc EXCEPT ![c] = w]
  <2>1. wc'[c] = w /\ wc' = [wc EXCEPT ![c] = wc'[c]]
    BY <1>0, <1>5, ZenonT(30)
  <2>2. LocalOK(c, wc'[c])
    BY <1>0, <1>1, <1>2, <2>1, Zenon DEF LocalOK, Settled
  <2>3. Held(c)' = Held(c)
    BY <1>1, <2>1, Zenon DEF Held
  <2>4. Leads(Full(c), <<ErrorResult>>, Held(c), Held(c)')
    BY <1>4, <2>3, Zenon
  <2> QED BY <1>2, <1>4, <1>5, <2>1, <2>2, <2>4, CacheStep, Zenon
<1>6. CASE /\ results' = [results EXCEPT ![c] = @ \o (<<ErrorResult>> \o Deletions(w))]
           /\ wc' = [wc EXCEPT ![c] = Forgotten(w)]
  <2>1. wc'[c] = Forgotten(w) /\ wc' = [wc EXCEPT ![c] = wc'[c]]
    BY <1>0, <1>6, Zenon
  <2>2. /\ Forgotten(w).pc = "resync" /\ Forgotten(w).crdInstalled = TRUE
        /\ Forgotten(w).polling = wc[c].polling /\ Forgotten(w).rev = 0
    BY <1>1, Zenon DEF Forgotten, CacheShape
  <2>3. LocalOK(c, wc'[c])
    BY <1>0, <2>1, <2>2, Zenon DEF LocalOK, Settled
  <2>4. \A x \in Entries : Point(x, LeaveWaiting(w.status)) \in Full(c)
    <3>1. c \in Watched => LeaveWaiting(w.status) # "InSync"
      BY <1>0, <1>1, <1>2, Zenon DEF LocalOK, LeaveWaiting
    <3>2. LeaveWaiting(w.status) \in Statuses
      BY <1>1, LeaveWaitingIs, Zenon DEF CacheShape
    <3> QED BY <3>1, <3>2, FullFree, Zenon
  <2>5. Held(c)' = Point(Forgotten(w).resources, Forgotten(w).status)
    BY <2>1, Zenon DEF Held
  <2>6. Deletions(w) \in Seq(Results) /\ Leads(Full(c), Deletions(w), Held(c), Held(c)')
    BY <1>1, <1>3, <2>4, <2>5, FullPoints, DeletionsLead, Zenon
  <2>7. /\ <<ErrorResult>> \o Deletions(w) \in Seq(Results)
        /\ Leads(Full(c), <<ErrorResult>> \o Deletions(w), Held(c), Held(c)')
    <3> DEFINE e == <<ErrorResult>>
    <3>1. e \in Seq(Results) /\ Leads(Full(c), e, Held(c), Held(c))
      BY <1>4, Zenon
    <3>2. Full(c) \in SUBSET Points
      BY FullPoints, Zenon
    <3> HIDE DEF e
    <3>3. e \o Deletions(w) \in Seq(Results) /\ Leads(Full(c), e \o Deletions(w), Held(c), Held(c)')
      BY ONLY <2>6, <3>1, <3>2, LeadsBoth
    <3> QED BY <3>3, Zenon DEF e
  <2> QED BY <1>2, <1>6, <2>1, <2>3, <2>7, CacheStep, Zenon
<1> QED BY <1>2, <1>5, <1>6, Zenon

(* A cache that stops deletes all it has.                                  *)
LEMMA StopsStep ==
  ASSUME StreamOK, CachesOK', NEW c \in Types, CacheStops(c)
  PROVE  StreamOK'
<1> DEFINE w == wc[c]
           f == Forgotten(w)
<1>0. /\ wc \in [Types -> CacheShape] /\ wc[c] \in CacheShape /\ LocalOK(c, wc[c])
      /\ results \in [Types -> Seq(Results)] /\ results[c] \in Seq(Results)
  BY Zenon DEF StreamOK, CachesOK
<1>1. /\ log' = log /\ stopping' = stopping /\ UNCHANGED syncer /\ stopping
      /\ results' = [results EXCEPT ![c] = @ \o Deletions(w)]
      /\ wc' = [wc EXCEPT ![c] = [f EXCEPT !.pc = "stopped", !.pos = 0]]
  BY <1>0, Zenon DEF CacheStops, store, Send
<1>2. /\ f.resources = Empty /\ f.crdInstalled = w.crdInstalled /\ f.polling = w.polling
      /\ f.rev = 0
      /\ f \in CacheShape
  <2>1. f \in CacheShape
    BY <1>0, Zenon DEF Forgotten, CacheShape, LeaveWaiting, Empty, Absent, Statuses
  <2> QED BY <1>0, <2>1, Zenon DEF Forgotten, CacheShape
<1> HIDE DEF f
<1>3. /\ wc' = [wc EXCEPT ![c] = wc'[c]] /\ wc'[c].resources = Empty
      /\ wc'[c].status = f.status /\ wc'[c].pc = "stopped" /\ wc'[c].rev = 0
      /\ wc'[c].crdInstalled = w.crdInstalled /\ wc'[c].polling = w.polling
  BY <1>0, <1>1, <1>2, Zenon DEF CacheShape
<1>4. LocalOK(c, wc'[c])
  BY <1>0, <1>3, Zenon DEF LocalOK, Settled
<1>5. Held(c) \in Full(c) /\ Held(c) = Point(w.resources, w.status)
  BY <1>0, FullPoints, LeadsType, Zenon DEF StreamOK, Held
<1>6. \A x \in Entries : Point(x, LeaveWaiting(w.status)) \in Full(c)
  <2>1. LeaveWaiting(w.status) \in Statuses
    BY <1>0, LeaveWaitingIs, Zenon DEF CacheShape
  <2> QED BY <1>1, <2>1, FullFree, Zenon
<1>7. Held(c)' = Point(f.resources, f.status)
  BY <1>2, <1>3, Zenon DEF Held
<1>8. Deletions(w) \in Seq(Results) /\ Leads(Full(c), Deletions(w), Held(c), Held(c)')
  BY <1>0, <1>5, <1>6, <1>7, FullPoints, DeletionsLead, Zenon DEF f
<1> QED BY <1>1, <1>3, <1>4, <1>8, CacheStep, Zenon

(* An event leads to what it says, unless the cache has it already.        *)
LEMMA EventStep ==
  ASSUME StreamOK, CachesOK', NEW c \in Types, WatchEvent(c)
  PROVE  StreamOK'
<1>0. /\ wc \in [Types -> CacheShape] /\ wc[c] \in CacheShape /\ LocalOK(c, wc[c])
      /\ log \in Seq(Changes) /\ wc[c].pc = "watching"
      /\ results \in [Types -> Seq(Results)] /\ results[c] \in Seq(Results)
  BY Zenon DEF StreamOK, CachesOK, WatchEvent, Ready
<1>1. log' = log /\ stopping' = stopping /\ UNCHANGED syncer
  BY Zenon DEF WatchEvent, store
<1> DEFINE v == wc[c].resources
           s == wc[c].status
           Value(i) == IF log[i].del THEN Absent ELSE i
           Sent(i) == IF v[log[i].key] = Value(i) THEN <<>>
                      ELSE IF log[i].del THEN <<UpdatesResult(<<Deleted(log[i].key)>>)>>
                      ELSE <<UpdatesResult(<<Learned(v[log[i].key], log[i].key, i)>>)>>
<1>2. PICK i \in Pending(c) :
        /\ results' = [results EXCEPT ![c] = @ \o Sent(i)]
        /\ wc' = [wc EXCEPT ![c].resources[log[i].key] = Value(i), ![c].rev = EventRevision(i),
                            ![c].pos = i, ![c].errors = 0]
  BY Zenon DEF WatchEvent, Send
<1>3. /\ v \in Entries /\ s \in Statuses /\ s # "WaitForDatastore" /\ wc[c].pos \in Nat
  BY <1>0, Zenon DEF CacheShape, Entries, LocalOK, Settled
<1>4. i \in 1..Len(log) /\ i \in Nat /\ log[i] \in Changes
  BY ONLY <1>0, <1>3 DEF Pending, Now
<1> DEFINE k == log[i].key
           w == [v EXCEPT ![k] = Value(i)]
<1>5. k \in Keys /\ Value(i) \in Nat
  BY <1>4, Zenon DEF Changes, Absent
<1>6. w \in Entries /\ w[k] = Value(i) /\ \A x \in Keys : x # k => w[x] = v[x]
  <2> HIDE DEF Value, k
  <2> QED BY <1>3, <1>5, Zenon DEF Entries
<1>7. /\ wc' = [wc EXCEPT ![c] = wc'[c]] /\ wc'[c].resources = w /\ wc'[c].status = s
      /\ wc'[c].pc = "watching" /\ wc'[c].crdInstalled = wc[c].crdInstalled
      /\ wc'[c].polling = wc[c].polling
  <2> HIDE DEF Value, k
  <2> QED BY <1>0, <1>2, Zenon DEF CacheShape, k
<1>8. LocalOK(c, wc'[c])
  BY <1>0, <1>3, <1>7, Zenon DEF LocalOK
<1>9. Held(c) \in Full(c) /\ Held(c) = Point(v, s)
  BY <1>0, FullPoints, LeadsType, Zenon DEF StreamOK, Held
<1>10. Held(c)' = Point(w, s) /\ Point(w, s) \in Points
  BY <1>3, <1>6, <1>7, Zenon DEF Held, Point, Points
<1>11. Point(w, s) \in Full(c)
  <2>1. CASE Etcd
    BY <1>10, <2>1, Zenon DEF Full
  <2>2. CASE ~Etcd
    <3>1. CacheOK(c, wc[c])' /\ wc'[c] \in CacheShape
      BY Zenon DEF CachesOK
    <3>2. wc'[c].rev \in 1..Len(log) /\ wc'[c].resources = At(c, wc[c].rev)'
      <4>1. wc'[c].rev \in Nat
        BY <3>1, Zenon DEF CacheShape
      <4> QED BY ONLY <1>0, <1>1, <1>7, <2>2, <3>1, <4>1, SMTT(30) DEF CacheOK
    <3>3. At(c, wc[c].rev)' = At(c, wc'[c].rev)
      BY <1>1, Zenon DEF At, LastChange, ChangesOf
    <3>4. w = At(c, wc'[c].rev) /\ Point(w, s).entries = w
      BY <1>7, <3>2, <3>3, Zenon DEF Point
    <3> QED BY <1>10, <3>2, <3>4, Zenon DEF Full, Now
  <2> QED BY <2>1, <2>2, Zenon
<1> HIDE DEF w, k
<1>12. Sent(i) \in Seq(Results) /\ Leads(Full(c), Sent(i), Point(v, s), Point(w, s))
  <2>1. CASE v[k] = Value(i)
    <3>1. w = v
      BY ONLY <1>3, <1>6, <2>1 DEF Entries
    <3> QED BY ONLY <1>9, <2>1, <3>1, FullPoints, LeadsNone, SMTT(30) DEF k
  <2>2. CASE v[k] # Value(i)
    <3> DEFINE u == IF log[i].del THEN Deleted(k) ELSE Learned(v[k], k, i)
               us == <<u>>
    <3>1. /\ u \in UpdateShape /\ u.key = k /\ u.value = Value(i)
          /\ u.type = "new" <=> v[k] = Absent
      <4>1. CASE log[i].del
        BY <1>5, <2>2, <4>1, Zenon DEF Deleted, UpdateShape, Absent
      <4>2. CASE ~log[i].del
        BY <1>4, <1>5, <4>2, Zenon DEF Learned, UpdateShape
      <4> QED BY <4>1, <4>2, Zenon
    <3>2. Sent(i) = <<UpdatesResult(us)>>
      BY <2>2, Zenon DEF k
    <3> HIDE DEF u, Sent, Value
    <3>3. us \in Seq(UpdateShape) /\ DOMAIN us = {1} /\ us[1] = u
      BY ONLY <3>1
    <3> HIDE DEF us
    <3>4. RightFor(us, v)
      BY <2>2, <3>1, <3>3, Zenon DEF RightFor
    <3>5. Turns(us, v, w)
      BY <1>6, <3>1, <3>3, Zenon DEF Turns
    <3>6. Takes(UpdatesResult(us), Point(v, s), Point(w, s))
      BY <1>3, <3>4, <3>5, Zenon DEF Takes, UpdatesResult, Point
    <3>7. UpdatesResult(us) \in Results
      BY <3>3, UpdatesResultType, Zenon
    <3>8. Leads(Full(c), <<UpdatesResult(us)>>, Point(v, s), Point(w, s))
      BY <1>9, <1>11, <3>6, FullPoints, LeadsOne, Zenon
    <3> QED BY ONLY <3>2, <3>7, <3>8
  <2> QED BY <2>1, <2>2, Zenon
<1>13. Leads(Full(c), Sent(i), Held(c), Held(c)')
  BY <1>9, <1>10, <1>12, Zenon
<1> HIDE DEF Sent
<1> QED BY <1>1, <1>2, <1>7, <1>8, <1>12, <1>13, CacheStep, Zenon

(* A change of the datastore, or a call of Stop.                           *)
LEMMA OutsideStep ==
  ASSUME StreamOK, CachesOK', wc' = wc, results' = results, UNCHANGED syncer,
         \A c \in Types : Full(c) \subseteq Full(c)'
  PROVE  StreamOK'
<1>0. statuses' = statuses /\ status' = status /\ updates' = updates /\ view' = view
  BY Zenon DEF syncer
<1>1. \A c \in Types : LocalOK(c, wc[c])'
  BY Zenon DEF StreamOK, LocalOK, Settled
<1>2. ASSUME NEW c \in Types
      PROVE  Leads(Full(c), results[c], Told(c), Held(c))'
  <2>1. Told(c)' = Told(c) /\ Held(c)' = Held(c)
    BY <1>0, Zenon DEF Told, Held
  <2>2. Leads(Full(c)', results[c], Told(c), Held(c))
    BY LeadsMore, Zenon DEF StreamOK
  <2>3. Leads(Full(c)', results'[c], Told(c)', Held(c)')
    BY <2>1, <2>2, Zenon
  <2> QED BY <2>3, Zenon DEF Leads
<1>3. status' = "InSync" => \A c \in Types : Point(view'[c], "InSync") \in Full(c)'
  BY <1>0, Zenon DEF StreamOK
<1>4. UpdateTypesRight'
  BY <1>0, Zenon DEF StreamOK, UpdateTypesRight
<1> QED BY <1>0, <1>1, <1>2, <1>3, <1>4, Zenon DEF StreamOK

(* Updates of a type turn one view of it into one other.                   *)
LEMMA TurnsOnce ==
  ASSUME NEW us, NEW v \in Entries, NEW w \in Entries, NEW x \in Entries,
         Turns(us, v, w), Turns(us, v, x)
  PROVE  w = x
<1>1. ASSUME NEW k \in Keys
      PROVE  w[k] = x[k]
  <2>1. CASE \E i \in DOMAIN us : us[i].key = k
    BY <2>1 DEF Turns
  <2>2. CASE \A i \in DOMAIN us : us[i].key # k
    BY <2>2, Zenon DEF Turns
  <2> QED BY <2>1, <2>2, Zenon
<1> QED BY ONLY <1>1 DEF Entries

(* What the consumer is told of a type it can be told.                     *)
LEMMA ToldIs ==
  ASSUME StreamOK, NEW c \in Types
  PROVE  /\ Told(c) \in Full(c) /\ OnUpdates(view, updates) \in Views
         /\ Told(c).entries = OnUpdates(view, updates)[c] /\ Told(c).status = statuses[c]
         /\ OnUpdates(view, updates)[c] \in Entries
<1>1. results[c] \in Seq(Results) /\ Leads(Full(c), results[c], Told(c), Held(c))
  BY Zenon DEF StreamOK
<1>2. Told(c) \in Full(c)
  BY <1>1, FullPoints, LeadsType, Zenon
<1>3. OnUpdates(view, updates) \in Views
  BY OnType, Zenon DEF StreamOK
<1> QED BY <1>2, <1>3, Zenon DEF Told, Point, Views

(* The statuses of a syncer that is InSync, or waits.                      *)
LEMMA CombinedIs ==
  ASSUME NEW ss, Types # {}
  PROVE  /\ Combined(ss) = "InSync" => \A c \in Types : ss[c] = "InSync"
         /\ Combined(ss) = "WaitForDatastore" => \A c \in Types : ss[c] = "WaitForDatastore"
         /\ Combined(ss) \in Statuses
  BY Zenon DEF Combined, Statuses

(* A step of the syncer takes each type where a point told of it leads.    *)
LEMMA SyncerStep ==
  ASSUME StreamOK, UNCHANGED <<log, stopping, wc>>,
         results' \in [Types -> Seq(Results)], statuses' \in [Types -> Statuses],
         view' \in Views, updates' \in Seq(TypedUpdates),
         \A c \in Types : Leads(Full(c), results'[c], Told(c)', Held(c)),
         status' = Combined(statuses'),
         status' = "WaitForDatastore" => updates' = <<>>,
         updates' = <<>> \/ (view' = view /\ status' = status),
         UpdateTypesRight'
  PROVE  StreamOK'
<1>1. CachesOK'
  BY OtherOK, Zenon DEF StreamOK
<1>2. \A c \in Types : Full(c)' = Full(c) /\ Held(c)' = Held(c)
  BY FullSame, Zenon DEF Held
<1>3. \A c \in Types : LocalOK(c, wc[c])'
  BY Zenon DEF StreamOK, LocalOK, Settled
<1>4. ASSUME NEW c \in Types
      PROVE  Leads(Full(c), results[c], Told(c), Held(c))'
  <2>1. Leads(Full(c)', results'[c], Told(c)', Held(c)')
    BY <1>2, Zenon
  <2> QED BY <2>1, Zenon DEF Leads
<1>5. ASSUME status' = "InSync", NEW c \in Types
      PROVE  Point(view'[c], "InSync") \in Full(c)'
  <2>1. CASE view' = view /\ status' = status
    BY <1>2, <1>5, <2>1, Zenon DEF StreamOK
  <2>2. CASE updates' = <<>>
    <3>1. OnUpdates(view, updates)' = view'
      <4>1. OnUpdates(view', updates') = view'
        BY <2>2, OnNone, Zenon
      <4> QED BY <4>1, Zenon DEF OnUpdates, LastUpdate
    <3>2. statuses'[c] = "InSync"
      BY <1>5, CombinedIs, Zenon DEF StreamOK
    <3>3. Told(c)' = Point(view'[c], "InSync")
      BY <3>1, <3>2, Zenon DEF Told
    <3>4. Told(c)' \in Full(c)
      <4>1. results'[c] \in Seq(Results) /\ Leads(Full(c), results'[c], Told(c)', Held(c))
        BY Zenon
      <4> QED BY <4>1, FullPoints, LeadsType, Zenon
    <3> QED BY <1>2, <3>3, <3>4, Zenon
  <2> QED BY <2>1, <2>2, Zenon
<1> QED BY <1>1, <1>3, <1>4, <1>5, Zenon DEF StreamOK

(* OnUpdates hands the consumer what is consolidated.                      *)
LEMMA SendUpdatesIs ==
  ASSUME StreamOK, sendUpdates
  PROVE  /\ view' \in Views /\ updates' = <<>> /\ updates' \in Seq(TypedUpdates)
         /\ view' = OnUpdates(view, updates) /\ OnUpdates(view, updates)' = view'
         /\ UpdateTypesRight'
<1>1. view' = OnUpdates(view, updates) /\ updates' = <<>> /\ updates' \in Seq(TypedUpdates)
  BY DEF sendUpdates
<1>2. view' \in Views
  BY <1>1, OnType, Zenon DEF StreamOK
<1>3. OnUpdates(view, updates)' = view'
  <2>1. OnUpdates(view', updates') = view'
    BY <1>1, <1>2, OnNone, Zenon
  <2> QED BY <2>1, Zenon DEF OnUpdates, LastUpdate
<1>4. UpdateTypesRight'
  BY ONLY <1>1 DEF UpdateTypesRight
<1> QED BY <1>1, <1>2, <1>3, <1>4, Zenon

(* sendUpdate hands the queued updates to the client: its view becomes     *)
(* what they were already counted as.                                      *)
LEMMA FlushStep ==
  ASSUME StreamOK, Flush
  PROVE  StreamOK'
<1>1. sendUpdates /\ UNCHANGED <<log, stopping, wc>> /\ UNCHANGED <<results, statuses, status>>
  BY Zenon DEF Flush, store
<1>2. /\ view' \in Views /\ updates' = <<>> /\ updates' \in Seq(TypedUpdates)
      /\ OnUpdates(view, updates)' = OnUpdates(view, updates) /\ UpdateTypesRight'
  BY <1>1, SendUpdatesIs, Zenon
<1>3. \A c \in Types : Told(c)' = Told(c)
  BY <1>1, <1>2, Zenon DEF Told
<1>4. \A c \in Types : Leads(Full(c), results'[c], Told(c)', Held(c))
  BY <1>1, <1>3, Zenon DEF StreamOK
<1>5. /\ results' \in [Types -> Seq(Results)] /\ statuses' \in [Types -> Statuses]
      /\ status' = Combined(statuses')
  BY <1>1, Zenon DEF StreamOK
<1> QED BY <1>1, <1>2, <1>4, <1>5, SyncerStep, Zenon

(* n is q with the updates of a result for type c at its end.              *)
Appends(q, c, us, n) ==
  /\ n \in Seq(TypedUpdates) /\ Len(n) = Len(q) + Len(us)
  /\ \A i \in 1..Len(q) : n[i] = q[i]
  /\ \A i \in 1..Len(us) : n[Len(q) + i] = [type |-> c, update |-> us[i]]

(* What the updates of a result make of what the consumer knows.           *)
LEMMA OnAppended ==
  ASSUME NEW v \in Views, NEW q \in Seq(TypedUpdates), NEW c \in Types, NEW us \in Seq(UpdateShape),
         RightFor(us, OnUpdates(v, q)[c]), NEW n, Appends(q, c, us, n)
  PROVE  /\ Turns(us, OnUpdates(v, q)[c], OnUpdates(v, n)[c])
         /\ \A d \in Types \ {c} : OnUpdates(v, n)[d] = OnUpdates(v, q)[d]
         /\ \A i \in 1..Len(us) :
              OnUpdates(v, SubSeq(n, 1, Len(q) + i - 1))[c][us[i].key] = OnUpdates(v, q)[c][us[i].key]
<1>1. /\ n \in Seq(TypedUpdates) /\ Len(n) = Len(q) + Len(us) /\ \A i \in 1..Len(q) : n[i] = q[i]
      /\ \A i \in 1..Len(us) : n[Len(q) + i] = [type |-> c, update |-> us[i]]
  BY Zenon DEF Appends
<1> QED BY <1>1, OnMore, SMTT(30)

(* The updates of a result are right for what the consumer will know.      *)
LEMMA UpdatesRight ==
  ASSUME UpdateTypesRight, view \in Views, view' = view, updates \in Seq(TypedUpdates),
         NEW c \in Types, NEW us \in Seq(UpdateShape),
         RightFor(us, OnUpdates(view, updates)[c]),
         updates' \in Seq(TypedUpdates), Len(updates') = Len(updates) + Len(us),
         \A i \in 1..Len(updates) : updates'[i] = updates[i],
         \A i \in 1..Len(us) : updates'[Len(updates) + i] = [type |-> c, update |-> us[i]]
  PROVE  UpdateTypesRight'
<1>k. \A i \in 1..Len(us) : OnUpdates(view, SubSeq(updates', 1, Len(updates) + i - 1))[c][us[i].key]
                             = OnUpdates(view, updates)[c][us[i].key]
  <2>1. Appends(updates, c, us, updates')
    BY Zenon DEF Appends
  <2> QED BY <2>1, OnAppended
<1> DEFINE l == Len(updates)
           m == Len(us)
           n == updates'
           Known(q, i) == OnUpdates(view, SubSeq(q, 1, i - 1))[q[i].type][q[i].update.key]
           Right(q, i) == /\ q[i].update.type = "new" <=> Known(q, i) = Absent
                          /\ q[i].update.value # Known(q, i)
<1>0. l \in Nat /\ m \in Nat /\ DOMAIN n = 1..(l + m) /\ DOMAIN updates = 1..l /\ DOMAIN us = 1..m
  OBVIOUS
<1>1. \A i \in 1..l : Right(updates, i)
  BY <1>0, Zenon DEF UpdateTypesRight
<1>2. \A i \in 1..m : /\ n[l + i].type = c /\ n[l + i].update = us[i]
  <2>1. ASSUME NEW i \in 1..m
        PROVE  n[l + i].type = c /\ n[l + i].update = us[i]
    <3>1. n[l + i] = [type |-> c, update |-> us[i]]
      BY Zenon
    <3> QED BY ONLY <3>1
  <2> QED BY <2>1, Zenon
<1>3. \A i \in 1..m : OnUpdates(view, SubSeq(n, 1, l + i - 1))[c][us[i].key]
                        = OnUpdates(view, updates)[c][us[i].key]
  BY <1>k, Zenon
<1> HIDE DEF l, m
<1>4. ASSUME NEW i \in 1..l
      PROVE  Right(n, i)
  <2>1. SubSeq(n, 1, i - 1) = SubSeq(updates, 1, i - 1)
    <3>1. \A j \in 1..(i - 1) : n[j] = updates[j]
      BY <1>0 DEF l
    <3>2. SubSeq(n, 1, i - 1) = [j \in 1..(i - 1) |-> n[j]]
      BY ONLY <1>0 DEF l
    <3>3. SubSeq(updates, 1, i - 1) = [j \in 1..(i - 1) |-> updates[j]]
      BY ONLY <1>0 DEF l
    <3> QED BY <3>1, <3>2, <3>3, Zenon
  <2>2. n[i] = updates[i]
    BY Zenon DEF l
  <2> QED BY <1>1, <2>1, <2>2, Zenon
<1>5. ASSUME NEW i \in 1..m
      PROVE  Right(n, l + i)
  <2>1. (l + i) - 1 = l + i - 1
    BY ONLY <1>0
  <2>2. Known(n, l + i) = OnUpdates(view, updates)[c][us[i].key]
    BY <1>2, <1>3, <2>1, Zenon
  <2>3. /\ us[i].type = "new" <=> OnUpdates(view, updates)[c][us[i].key] = Absent
        /\ us[i].value # OnUpdates(view, updates)[c][us[i].key]
    BY <1>0, Zenon DEF RightFor
  <2> HIDE DEF Known
  <2> QED BY <1>2, <2>2, <2>3, Zenon
<1>6. \A i \in DOMAIN n : Right(n, i)
  <2> SUFFICES ASSUME NEW i \in 1..(l + m)
               PROVE  Right(n, i)
    BY <1>0, Zenon
  <2>1. CASE i <= l
    BY ONLY <1>0, <1>4, <2>1
  <2>2. CASE i > l
    <3>1. i - l \in 1..m /\ l + (i - l) = i
      BY ONLY <1>0, <2>2
    <3>2. Right(n, l + (i - l))
      BY <1>5, <3>1, Zenon
    <3> QED BY <3>1, <3>2, Zenon
  <2> QED BY ONLY <1>0, <2>1, <2>2
<1>7. \A i \in DOMAIN updates' :
        LET known == OnUpdates(view', SubSeq(updates', 1, i - 1))
                       [updates'[i].type][updates'[i].update.key]
        IN  /\ updates'[i].update.type = "new" <=> known = Absent
            /\ updates'[i].update.value # known
  BY <1>6, Zenon
<1> QED BY ONLY <1>7, Zenon DEF UpdateTypesRight, OnUpdates, LastUpdate

(* The next result takes the consumer one step on.                         *)
LEMMA ResultStep ==
  ASSUME StreamOK, NEW c \in Types, ProcessResult(c)
  PROVE  StreamOK'
<1> DEFINE r == Head(results[c])
           e == OnUpdates(view, updates)
<1>0. /\ results \in [Types -> Seq(Results)] /\ results[c] \in Seq(Results) /\ results[c] # <<>>
      /\ statuses \in [Types -> Statuses] /\ view \in Views /\ updates \in Seq(TypedUpdates)
      /\ status = Combined(statuses) /\ Types # {} /\ UpdateTypesRight
      /\ status = "WaitForDatastore" => updates = <<>>
  BY Zenon DEF StreamOK, ProcessResult
<1>1. /\ UNCHANGED <<log, stopping, wc>> /\ results' = [results EXCEPT ![c] = Tail(@)]
      /\ \/ r.tag = "updates" /\ processUpdates(c, r.updates)
         \/ r.tag = "error" /\ processError
         \/ r.tag = "status" /\ processStatus(c, r.status)
  BY Zenon DEF ProcessResult, store
<1>2. /\ r \in Results /\ results' \in [Types -> Seq(Results)]
      /\ results'[c] = Tail(results[c]) /\ \A d \in Types \ {c} : results'[d] = results[d]
  BY ONLY <1>0, <1>1
<1>3. PICK z \in Full(c) : Takes(r, Told(c), z) /\ Leads(Full(c), Tail(results[c]), z, Held(c))
  <2>1. Leads(Full(c), results[c], Told(c), Held(c))
    BY Zenon DEF StreamOK
  <2> QED BY <1>0, <2>1, FullPoints, LeadsFirst, Zenon
<1>4. z \in Points /\ z = Point(z.entries, z.status) /\ z.entries \in Entries /\ z.status \in Statuses
  BY ONLY <1>3, FullPoints DEF Points, Point
<1>5. \A d \in Types : /\ e \in Views /\ e[d] \in Entries
                       /\ Told(d).entries = e[d] /\ Told(d).status = statuses[d]
  BY ToldIs, Zenon
<1> HIDE DEF r, e
<1>6. ASSUME Told(c)' = z, \A d \in Types \ {c} : Told(d)' = Told(d)
      PROVE  \A d \in Types : Leads(Full(d), results'[d], Told(d)', Held(d))
  <2> SUFFICES ASSUME NEW d \in Types
               PROVE  Leads(Full(d), results'[d], Told(d)', Held(d))
    BY Zenon
  <2>1. CASE d = c
    BY <1>2, <1>3, <1>6, <2>1, Zenon
  <2>2. CASE d # c
    BY <1>2, <1>6, <2>2, Zenon DEF StreamOK
  <2> QED BY <2>1, <2>2, Zenon
<1>7. CASE r.tag = "updates" /\ processUpdates(c, r.updates)
  <2> DEFINE us == r.updates
  <2>1. /\ updates' = updates \o [i \in DOMAIN us |-> [type |-> c, update |-> us[i]]]
        /\ statuses' = statuses /\ status' = status /\ view' = view
    BY <1>7, Zenon DEF processUpdates
  <2>2. us \in Seq(UpdateShape)
    BY <1>2, <1>7, Zenon DEF Results
  <2>3. /\ z.status = statuses[c] /\ statuses[c] # "WaitForDatastore"
        /\ RightFor(us, e[c]) /\ Turns(us, e[c], z.entries)
    BY <1>3, <1>5, <1>7, Zenon DEF Takes
  <2> HIDE DEF us
  <2>4. /\ updates' \in Seq(TypedUpdates) /\ Len(updates') = Len(updates) + Len(us)
        /\ \A i \in 1..Len(updates) : updates'[i] = updates[i]
        /\ \A i \in 1..Len(us) : updates'[Len(updates) + i] = [type |-> c, update |-> us[i]]
    <3> DEFINE n == updates \o [i \in DOMAIN us |-> [type |-> c, update |-> us[i]]]
    <3>1. /\ n \in Seq(TypedUpdates) /\ Len(n) = Len(updates) + Len(us)
          /\ \A i \in 1..Len(updates) : n[i] = updates[i]
          /\ \A i \in 1..Len(us) : n[Len(updates) + i] = [type |-> c, update |-> us[i]]
      BY ONLY <1>0, <2>2, Consolidated, SMTT(30)
    <3>2. updates' = n
      BY <2>1, Zenon
    <3> HIDE DEF n
    <3> QED BY <3>1, <3>2, Zenon
  <2> DEFINE f == OnUpdates(view, updates')
  <2>5. /\ Turns(us, e[c], f[c]) /\ \A d \in Types \ {c} : f[d] = e[d]
    <3>1. RightFor(us, OnUpdates(view, updates)[c])
      BY <2>3, Zenon DEF e
    <3>2. /\ Turns(us, OnUpdates(view, updates)[c], OnUpdates(view, updates')[c])
          /\ \A d \in Types \ {c} : OnUpdates(view, updates')[d] = OnUpdates(view, updates)[d]
      <4>1. Appends(updates, c, us, updates')
        BY <2>4, Zenon DEF Appends
      <4> QED BY ONLY <1>0, <2>2, <3>1, <4>1, c \in Types, OnAppended, SMTT(30)
    <3> QED
      BY <3>2, Zenon DEF e
  <2>6. f[c] = z.entries
    <3>1. f[c] \in Entries
      BY <1>0, <2>4, OnType, ZenonT(30) DEF Views
    <3> HIDE DEF f
    <3> QED BY <1>4, <1>5, <2>3, <2>5, <3>1, TurnsOnce, Zenon
  <2>7. OnUpdates(view, updates)' = f
    BY <2>1, Zenon DEF OnUpdates, LastUpdate
  <2>8. Told(c)' = z
    BY <1>4, <2>1, <2>3, <2>6, <2>7, Zenon DEF Told
  <2>9. \A d \in Types \ {c} : Told(d)' = Told(d)
    BY <2>1, <2>5, <2>7, Zenon DEF Told, e
  <2>10. UpdateTypesRight'
    BY <1>0, <2>1, <2>2, <2>3, <2>4, UpdatesRight, Zenon DEF e
  <2>11. status' # "WaitForDatastore"
    BY <1>0, <2>1, <2>3, CombinedIs, Zenon
  <2> QED BY <1>0, <1>1, <1>2, <1>6, <2>1, <2>4, <2>8, <2>9, <2>10, <2>11, SyncerStep, Zenon
<1>8. CASE r.tag = "error" /\ processError
  <2>1. sendUpdates /\ statuses' = statuses /\ status' = status
    BY <1>8, ZenonT(30) DEF processError
  <2>2. /\ view' \in Views /\ updates' = <<>> /\ updates' \in Seq(TypedUpdates)
        /\ OnUpdates(view, updates)' = OnUpdates(view, updates) /\ UpdateTypesRight'
    BY <2>1, SendUpdatesIs, ZenonT(30)
  <2>3. \A d \in Types : Told(d)' = Told(d)
    BY <2>1, <2>2, Zenon DEF Told
  <2>4. z = Told(c)
    BY <1>3, <1>8, Zenon DEF Takes
  <2> QED BY <1>0, <1>1, <1>2, <1>6, <2>1, <2>2, <2>3, <2>4, SyncerStep, Zenon
<1>9. CASE r.tag = "status" /\ processStatus(c, r.status)
  <2> DEFINE ss == [statuses EXCEPT ![c] = r.status]
  <2>1. /\ statuses' = ss /\ status' = Combined(ss)
        /\ sendUpdates \/ (status' = status /\ updates' = updates /\ view' = view)
    BY <1>9, Zenon DEF processStatus
  <2>2. z.status = r.status /\ z.entries = e[c]
    BY <1>3, <1>5, <1>9, Zenon DEF Takes
  <2>3. /\ ss \in [Types -> Statuses] /\ ss[c] = z.status
        /\ \A d \in Types \ {c} : ss[d] = statuses[d]
    BY <1>0, <1>4, <2>2, ZenonT(30)
  <2> HIDE DEF ss
  <2>4. /\ view' \in Views /\ updates' \in Seq(TypedUpdates)
        /\ OnUpdates(view, updates)' = e /\ UpdateTypesRight'
        /\ updates' = <<>> \/ (view' = view /\ status' = status /\ updates' = updates)
    <3>1. CASE sendUpdates
      BY <3>1, SendUpdatesIs, Zenon DEF e
    <3>2. CASE status' = status /\ updates' = updates /\ view' = view
      <4>1. UpdateTypesRight'
        BY <1>0, <3>2, Zenon DEF UpdateTypesRight
      <4> QED BY <1>0, <3>2, <4>1, Zenon DEF e
    <3> QED BY <2>1, <3>1, <3>2, Zenon
  <2>5. Told(c)' = z
    BY <1>4, <2>1, <2>2, <2>3, <2>4, Zenon DEF Told
  <2>6. \A d \in Types \ {c} : Told(d)' = Told(d)
    BY <2>1, <2>3, <2>4, Zenon DEF Told, e
  <2> QED BY <1>0, <1>1, <1>2, <1>6, <2>1, <2>3, <2>4, <2>5, <2>6, SyncerStep, ZenonT(30)
<1> QED BY <1>1, <1>7, <1>8, <1>9, Zenon

(* Nothing is known at start of day.                                       *)
LEMMA InitStream ==
  ASSUME Init
  PROVE  StreamOK
<1>1. CachesOK
  BY InitOK, Zenon
<1>2. /\ wc = [c \in Types |-> NewCache] /\ results = [c \in Types |-> <<>>]
      /\ statuses = [c \in Types |-> "WaitForDatastore"] /\ status = "WaitForDatastore"
      /\ updates = <<>> /\ view = [c \in Types |-> Empty] /\ Types # {}
  BY Zenon DEF Init
<1>3. Empty \in Entries
  BY Zenon DEF Empty, Entries, Absent
<1>4. /\ results \in [Types -> Seq(Results)] /\ statuses \in [Types -> Statuses]
      /\ view \in Views /\ updates \in Seq(TypedUpdates)
  BY ONLY <1>2, <1>3 DEF Statuses, Views
<1>5. ASSUME NEW c \in Types
      PROVE  LocalOK(c, wc[c]) /\ Leads(Full(c), results[c], Told(c), Held(c))
  <2>1. /\ NewCache.pc = "resync" /\ NewCache.rev = 0 /\ NewCache.status = "WaitForDatastore"
        /\ NewCache.crdInstalled = TRUE /\ NewCache.polling = "no" /\ NewCache.resources = Empty
    BY Zenon DEF NewCache
  <2>2. LocalOK(c, wc[c])
    BY <1>2, <2>1, Zenon DEF LocalOK, Settled
  <2>3. OnUpdates(view, updates) = view
    BY <1>2, <1>4, OnNone, Zenon
  <2>4. Told(c) = Point(Empty, "WaitForDatastore") /\ Held(c) = Told(c) /\ results[c] = <<>>
    BY <1>2, <2>1, <2>3, Zenon DEF Told, Held
  <2>5. Point(Empty, "WaitForDatastore") \in Full(c)
    BY <1>3, FullFree, Zenon DEF Statuses
  <2> QED BY <2>2, <2>4, <2>5, FullPoints, LeadsNone, Zenon
<1>6. status = Combined(statuses)
  BY <1>2, Zenon DEF Combined
<1>7. UpdateTypesRight
  BY ONLY <1>2 DEF UpdateTypesRight
<1> QED BY <1>1, <1>2, <1>4, <1>5, <1>6, <1>7, Zenon DEF StreamOK

(* Every step keeps the invariant.                                         *)
LEMMA NextStream ==
  ASSUME StreamOK, [Next]_vars
  PROVE  StreamOK'
<1>0. CachesOK' /\ log \in Seq(Changes)
  BY NextOK, Zenon DEF StreamOK, CachesOK
<1>1. CASE Datastore
  <2>1. PICK c \in Types, k \in Keys, del \in BOOLEAN : Change(c, k, del)
    BY <1>1, Zenon DEF Datastore
  <2> DEFINE e == [type |-> c, key |-> k, del |-> del]
  <2>2. e \in Changes
    BY Zenon DEF Changes
  <2>3. /\ log' = Append(log, e) /\ stopping' = stopping /\ wc' = wc /\ results' = results
        /\ UNCHANGED syncer
    BY <2>1, Zenon DEF Change, syncer
  <2> HIDE DEF e
  <2>4. \A d \in Types : Full(d) \subseteq Full(d)'
    BY <1>0, <2>2, <2>3, FullChange, Zenon
  <2> QED BY <1>0, <2>3, <2>4, OutsideStep, Zenon
<1>2. CASE Stop
  <2>1. log' = log /\ stopping' /\ wc' = wc /\ results' = results /\ UNCHANGED syncer
    BY <1>2, Zenon DEF Stop
  <2>2. \A d \in Types : Full(d) \subseteq Full(d)'
    BY <2>1, FullStop, Zenon
  <2> QED BY <1>0, <2>1, <2>2, OutsideStep, Zenon
<1>3. CASE UNCHANGED vars
  <2>1. log' = log /\ stopping' = stopping /\ wc' = wc /\ results' = results /\ UNCHANGED syncer
    BY <1>3, Zenon DEF vars, syncer
  <2>2. \A d \in Types : Full(d) \subseteq Full(d)'
    BY <2>1, FullSame, Zenon
  <2> QED BY <1>0, <2>1, <2>2, OutsideStep, Zenon
<1>4. CASE \E c \in Types : Resync(c) \/ Watching(c) \/ CacheStops(c)
  <2>1. PICK c \in Types : Resync(c) \/ Watching(c) \/ CacheStops(c)
    BY <1>4, Zenon
  <2>2. CASE StartResync(c)
    BY <1>0, <2>2, StartStep, Zenon
  <2>3. CASE ListNotFound(c)
    BY <1>0, <2>3, NotFoundStep, Zenon
  <2>4. CASE ListTimedOut(c)
    BY <1>0, <2>4, TimedOutStep, Zenon
  <2>5. CASE ListSucceeds(c) \/ ListWithoutRevision(c)
    BY <1>0, <2>5, ListStep, Zenon
  <2>6. CASE WatchEvent(c)
    BY <1>0, <2>6, EventStep, Zenon
  <2>7. CASE CacheStops(c)
    BY <1>0, <2>7, StopsStep, Zenon
  <2> QED BY <1>0, <2>1, <2>2, <2>3, <2>4, <2>5, <2>6, <2>7, QuietSteps, Zenon DEF Resync, Watching
<1> QED BY <1>1, <1>2, <1>3, <1>4, ResultStep, FlushStep, Zenon DEF Next

----------------------------------------------------------------------------
(* An update that the syncer passes on is of the right type, and never     *)
(* repeats what the consumer has (handleAddedOrModifiedUpdate,             *)
(* handleDeletedUpdate): for either datastore, whatever the failures.      *)
THEOREM UpdateTypesAreRight == Spec => []UpdateTypesRight
<1>1. Init => StreamOK
  BY InitStream, Zenon
<1>2. StreamOK /\ [Next]_vars => StreamOK'
  BY NextStream, Zenon
<1>3. StreamOK => UpdateTypesRight
  BY Zenon DEF StreamOK
<1> QED BY <1>1, <1>2, <1>3, PTL DEF Spec

(* When the caches have stopped and their results are sent, the consumer   *)
(* has nothing left (sendDeletionsForAllResources on the way out of run).  *)
THEOREM StopLeavesNothing == Spec => []StopDeletesAll
<1>1. Init => StreamOK
  BY InitStream, Zenon
<1>2. StreamOK /\ [Next]_vars => StreamOK'
  BY NextStream, Zenon
<1>3. StreamOK => StopDeletesAll
  <2> SUFFICES ASSUME StreamOK, updates = <<>>, NEW c \in Types,
                      wc[c].pc = "stopped", results[c] = <<>>
               PROVE  view[c] = Empty
    BY Zenon DEF StopDeletesAll
  <2>1. wc[c].resources = Empty
    BY Zenon DEF StreamOK, LocalOK
  <2>2. Told(c) = Held(c)
    BY LeadsNoneEnds, Zenon DEF StreamOK
  <2>3. OnUpdates(view, updates) = view
    BY OnNone, Zenon DEF StreamOK
  <2> QED BY <2>1, <2>2, <2>3, Zenon DEF Told, Held, Point
<1> QED BY <1>1, <1>2, <1>3, PTL DEF Spec

(* With Kubernetes, a consumer that was told InSync has, of every type     *)
(* that can be watched and is installed, what the datastore held at one    *)
(* revision (finishResync, processResult): no failure, stale list,         *)
(* interleaving of caches or consolidation shows it anything else.         *)
THEOREM InSyncIsFull ==
  ASSUME ~Etcd
  PROVE  Spec => []InSyncIsSnapshot
<1>1. Init => StreamOK
  BY InitStream, Zenon
<1>2. StreamOK /\ [Next]_vars => StreamOK'
  BY NextStream, Zenon
<1>3. StreamOK => InSyncIsSnapshot
  BY Zenon DEF StreamOK, InSyncIsSnapshot, Full, Watched, Point
<1> QED BY <1>1, <1>2, <1>3, PTL DEF Spec

(* What a step tells while a status is WaitForDatastore.                   *)
LEMMA WaitingStep ==
  ASSUME StreamOK, [Next]_vars
  PROVE  /\ view' # view => status # "WaitForDatastore"
         /\ \A c \in Types :
              statuses[c] = "WaitForDatastore" =>
                \A i \in DOMAIN updates' : updates'[i].type = c => i \in DOMAIN updates
<1>0. view \in Views /\ updates \in Seq(TypedUpdates) /\ (status = "WaitForDatastore" => updates = <<>>)
  BY Zenon DEF StreamOK
<1>1. CASE UNCHANGED <<view, updates>>
  BY <1>1, Zenon
<1>2. CASE sendUpdates
  <2>1. view' = OnUpdates(view, updates) /\ DOMAIN updates' = {}
    BY ONLY <1>2 DEF sendUpdates
  <2>2. OnUpdates(view, <<>>) = view
    BY <1>0, OnNone, Zenon
  <2> QED BY <1>0, <2>1, <2>2, Zenon
<1>3. CASE \E c \in Types : ProcessResult(c)
  <2>1. PICK c \in Types : ProcessResult(c)
    BY <1>3, Zenon
  <2> DEFINE r == Head(results[c])
  <2>2. \/ r.tag = "updates" /\ processUpdates(c, r.updates)
        \/ sendUpdates \/ UNCHANGED <<view, updates>>
    BY <2>1, Zenon DEF ProcessResult, processError, processStatus
  <2>3. CASE r.tag = "updates" /\ processUpdates(c, r.updates)
    <3> DEFINE us == r.updates
    <3>1. r \in Results /\ results[c] \in Seq(Results) /\ results[c] # <<>>
      BY <2>1 DEF StreamOK, ProcessResult
    <3>2. us \in Seq(UpdateShape)
      BY <2>3, <3>1, Zenon DEF Results
    <3>3. statuses[c] # "WaitForDatastore"
      <4>1. PICK z \in Full(c) : Takes(r, Told(c), z)
        BY <3>1, FullPoints, LeadsFirst, Zenon DEF StreamOK
      <4> QED BY <2>3, <4>1, ToldIs, Zenon DEF Takes
    <3>4. /\ updates' = updates \o [i \in DOMAIN us |-> [type |-> c, update |-> us[i]]]
          /\ view' = view
      BY <2>3, Zenon DEF processUpdates
    <3> HIDE DEF us
    <3>5. /\ updates' \in Seq(TypedUpdates) /\ Len(updates') = Len(updates) + Len(us)
          /\ \A i \in 1..Len(us) : updates'[Len(updates) + i] = [type |-> c, update |-> us[i]]
      <4> DEFINE n == updates \o [i \in DOMAIN us |-> [type |-> c, update |-> us[i]]]
      <4>1. /\ n \in Seq(TypedUpdates) /\ Len(n) = Len(updates) + Len(us)
            /\ \A i \in 1..Len(us) : n[Len(updates) + i] = [type |-> c, update |-> us[i]]
        BY ONLY <1>0, <3>2, Consolidated, SMTT(30)
      <4>2. updates' = n
        BY <3>4, Zenon
      <4> HIDE DEF n
      <4> QED BY <4>1, <4>2, Zenon
    <3>6. ASSUME NEW i \in DOMAIN updates', i \notin DOMAIN updates
          PROVE  updates'[i].type = c
      <4>1. /\ DOMAIN updates' = 1..Len(updates') /\ DOMAIN updates = 1..Len(updates)
            /\ Len(updates) \in Nat /\ Len(us) \in Nat
        BY ONLY <1>0, <3>2, <3>5, SMTT(30)
      <4>2. i - Len(updates) \in 1..Len(us) /\ Len(updates) + (i - Len(updates)) = i
        BY ONLY <3>5, <3>6, <4>1, SMTT(30)
      <4>3. updates'[i] = [type |-> c, update |-> us[i - Len(updates)]]
        BY <3>5, <4>2, Zenon
      <4> QED BY ONLY <4>3
    <3> QED BY <3>3, <3>4, <3>6, Zenon
  <2> QED BY <1>1, <1>2, <2>2, <2>3, Zenon
<1>4. CASE Flush
  BY <1>2, <1>4, Zenon DEF Flush
<1>5. CASE Datastore \/ Stop \/ UNCHANGED vars
  BY <1>1, <1>5, Zenon DEF Datastore, Change, Stop, syncer, vars
<1>6. CASE \E c \in Types : Resync(c) \/ Watching(c) \/ CacheStops(c)
  <2>1. PICK c \in Types : Resync(c) \/ Watching(c) \/ CacheStops(c)
    BY <1>6, Zenon
  <2>2. Resync(c) => UNCHANGED syncer
    BY Zenon DEF Resync, StartResync, ListNotFound, ListExpired, ListFailed,
       ListTimedOut, WatchExpired, WatchRefused, WatchUnsupported, WatchFailed,
       ListSucceeds, ListWithoutRevision, WatchCreated
  <2>3. Watching(c) \/ CacheStops(c) => UNCHANGED syncer
    BY Zenon DEF Watching, WatchClosed, WatchErrorExpired, WatchError, CacheStops,
       WatchEvent, WatchBookmark
  <2>4. UNCHANGED syncer
    BY <2>1, <2>2, <2>3, Zenon
  <2> QED BY <1>1, <2>4, ZenonT(30) DEF syncer
<1> QED BY <1>3, <1>4, <1>5, <1>6, Zenon DEF Next

(* "We should never send KV updates when we are in the WaitForDatastore    *)
(* state" (watchercache.go): the consumer gets none while the syncer waits,*)
(* and none of a type while its cache does.                                *)
THEOREM NoneWhileWaiting == Spec => NoUpdatesWhileWaiting
<1>1. Init => StreamOK
  BY InitStream, Zenon
<1>2. StreamOK /\ [Next]_vars => StreamOK'
  BY NextStream, Zenon
<1>3. StreamOK /\ [Next]_vars =>
        [/\ view' # view => status # "WaitForDatastore"
         /\ \A c \in Types :
              statuses[c] = "WaitForDatastore" =>
                \A i \in DOMAIN updates' : updates'[i].type = c => i \in DOMAIN updates]_vars
  BY WaitingStep, Zenon
<1> QED BY <1>1, <1>2, <1>3, PTL DEF Spec, NoUpdatesWhileWaiting

----------------------------------------------------------------------------
(* The types, and the count of watch errors at one revision.               *)
Sendable ==
  [tag : {"status"}, status : Statuses] \cup [tag : {"error"}]
    \cup [tag : {"updates"}, updates : Seq(Updates)]

Queueable == [type : Types, update : Updates]

(* A cache that has counted as many errors as make it resync is about to   *)
(* do so, and has no watch on which to count another.                      *)
Bounded(w) ==
  /\ w.pos \in Revisions /\ w.resources \in Resources
  /\ w.errors <= MaxErrorsPerRevision
  /\ w.errors = MaxErrorsPerRevision => w.full /\ w.pc \notin {"watch", "watching"}

(* The inductive invariant.                                                *)
BoundsOK ==
  /\ CachesOK
  /\ Len(log) \in 1..MaxRev /\ faults \in 0..MaxFaults /\ stopping \in BOOLEAN
  /\ \A c \in Types : Bounded(wc[c])
  /\ results \in [Types -> Seq(Sendable)]
  /\ statuses \in [Types -> Statuses] /\ status \in Statuses
  /\ view \in [Types -> Resources] /\ updates \in Seq(Queueable)

(* What a type holds is known by revisions that the datastore has.         *)
LEMMA AtBound ==
  ASSUME log \in Seq(Changes), NEW c \in Types, NEW r \in Nat, r <= MaxRev
  PROVE  At(c, r) \in Resources
<1>0. MaxRev \in Nat
  BY SyncerAssumption, Zenon
<1>1. ASSUME NEW k \in Keys
      PROVE  LastChange(c, k, r) \in Revisions /\ Absent \in Revisions
  <2>1. ChangesOf(c, k, r) \in SUBSET (1..r)
    BY Zenon DEF ChangesOf
  <2>2. LastChange(c, k, r) \in 0..r
    BY <2>1, LatestType, Zenon DEF LastChange
  <2> QED BY ONLY <1>0, <2>2, r \in Nat, r <= MaxRev DEF Revisions, Absent
<1> QED BY <1>1, Zenon DEF At, Resources

(* What a cache cannot do.                                                 *)
LEMMA CacheLeaves ==
  ASSUME NEW c \in Types, Resync(c) \/ Watching(c) \/ CacheStops(c)
  PROVE  /\ log' = log /\ stopping' = stopping /\ UNCHANGED syncer
         /\ Fault \/ faults' = faults
<1>1. CASE Resync(c)
  BY <1>1, Zenon DEF Resync, StartResync, ListNotFound, ListExpired, ListFailed,
     ListTimedOut, WatchExpired, WatchRefused, WatchUnsupported, WatchFailed,
     ListSucceeds, ListWithoutRevision, WatchCreated, store, Fails, ServedAt
<1>2. CASE Watching(c) \/ CacheStops(c)
  BY <1>2, Zenon DEF Watching, WatchClosed, WatchErrorExpired, WatchError, CacheStops,
     WatchEvent, WatchBookmark, store
<1> QED BY <1>1, <1>2, Zenon

(* A failure that is retried adds to the errors only what leads to a       *)
(* resync, and no step of a cache goes beyond the datastore's revisions.   *)
LEMMA BoundedQuiet ==
  ASSUME BoundsOK, NEW c \in Types,
         \/ StartResync(c) \/ ListNotFound(c) \/ ListExpired(c) \/ ListFailed(c)
         \/ WatchCreated(c) \/ WatchExpired(c) \/ WatchRefused(c) \/ WatchUnsupported(c)
         \/ WatchFailed(c) \/ WatchClosed(c) \/ WatchErrorExpired(c) \/ WatchError(c)
  PROVE  wc' = [wc EXCEPT ![c] = wc'[c]] /\ Bounded(wc'[c])
<1> DEFINE w == wc[c]
           v == wc'[c]
           M == MaxErrorsPerRevision
<1>0. /\ wc \in [Types -> CacheShape] /\ w \in CacheShape /\ Bounded(w)
      /\ w.rev \in Revisions /\ 0 \in Revisions /\ w.errors \in Nat /\ M \in Nat \ {0}
  <2>1. /\ wc \in [Types -> CacheShape] /\ w \in CacheShape /\ Bounded(w)
        /\ w.rev <= Len(log) /\ Len(log) \in 1..MaxRev
    BY Zenon DEF BoundsOK, CachesOK, CacheOK
  <2>2. w.rev \in Nat /\ w.errors \in Nat
    BY <2>1, Zenon DEF CacheShape
  <2>3. MaxRev \in Nat /\ M \in Nat \ {0}
    BY SyncerAssumption, Zenon
  <2>4. w.rev \in Revisions /\ 0 \in Revisions
    BY ONLY <2>1, <2>2, <2>3 DEF Revisions
  <2> QED BY <2>1, <2>2, <2>3, <2>4, Zenon
<1> DEFINE Kept == /\ wc' = [wc EXCEPT ![c] = v] /\ v.resources = w.resources
                   /\ v.pos = w.pos \/ v.pos = 0 \/ v.pos = w.rev
           Quiet == \/ v.errors = 0
                    \/ /\ v.errors = w.errors /\ v.pc \notin {"watch", "watching"}
                       /\ v.full = TRUE \/ v.full = w.full
           Counts == /\ v.errors <= M
                     /\ v.errors = M => v.full /\ v.pc = "resync"
<1>1. Kept /\ (Quiet \/ Counts) => Bounded(v) /\ wc' = [wc EXCEPT ![c] = v]
  <2>1. Kept => v.pos \in Revisions /\ v.resources \in Resources
    BY <1>0, Zenon DEF Bounded
  <2>2. v.errors = 0 => v.errors <= M /\ v.errors # M
    BY ONLY <1>0
  <2> QED BY <1>0, <2>1, <2>2, Zenon DEF Bounded
<1>2. CASE StartResync(c)
  BY <1>0, <1>1, <1>2, Zenon DEF StartResync, CacheShape
<1>3. CASE ListNotFound(c)
  BY <1>0, <1>1, <1>3, Zenon DEF ListNotFound, CacheShape
<1>4. CASE ListExpired(c) \/ WatchExpired(c) \/ WatchErrorExpired(c)
  <2>1. CASE ListExpired(c)
    BY <1>0, <1>1, <2>1, Zenon DEF ListExpired, CacheShape
  <2>2. CASE WatchExpired(c)
    BY <1>0, <1>1, <2>2, Zenon DEF WatchExpired, CacheShape
  <2>3. CASE WatchErrorExpired(c)
    BY <1>0, <1>1, <2>3, Zenon DEF WatchErrorExpired, CacheShape
  <2> QED BY <1>4, <2>1, <2>2, <2>3, Zenon
<1>5. CASE ListFailed(c)
  BY <1>0, <1>1, <1>5, Zenon DEF ListFailed, CacheShape
<1>6. CanWatch(c) \/ w.pc = "watching" => w.errors < M
  <2>1. CanWatch(c) \/ w.pc = "watching" => w.errors # M
    BY <1>0, Zenon DEF CanWatch, Ready, Bounded
  <2> QED BY ONLY <1>0, <2>1 DEF Bounded
<1>7. CASE WatchCreated(c)
  <2>1. Kept /\ v.errors = w.errors /\ w.errors < M
    BY <1>0, <1>6, <1>7, Zenon DEF WatchCreated, CacheShape
  <2>2. Counts
    <3> HIDE DEF w, v
    <3> QED BY ONLY <1>0, <2>1
  <2> QED BY <1>1, <2>1, <2>2, Zenon
<1>8. CASE WatchRefused(c)
  <2>1. CASE wc' = [wc EXCEPT ![c].pc = "resync"]
    BY <1>0, <1>1, <2>1, Zenon DEF CacheShape
  <2>2. CASE wc' = [wc EXCEPT ![c].pc = "resync", ![c].rev = 0, ![c].errors = 0,
                              ![c].connected = FALSE, ![c].polling = "no"]
    BY <1>0, <1>1, <2>2, Zenon DEF CacheShape
  <2> QED BY <1>8, <2>1, <2>2, Zenon DEF WatchRefused
<1>9. CASE WatchUnsupported(c)
  BY <1>0, <1>1, <1>9, Zenon DEF WatchUnsupported, CacheShape
<1>10. CASE WatchFailed(c)
  <2>1. Kept /\ v.errors = w.errors + 1 /\ (w.errors + 1 >= M => v.full) /\ v.pc = "resync" /\ w.errors < M
    BY <1>0, <1>6, <1>10, Zenon DEF WatchFailed, CacheShape
  <2>2. Counts
    <3> HIDE DEF w, v
    <3> QED BY ONLY <1>0, <2>1
  <2> QED BY <1>1, <2>1, <2>2, Zenon
<1>11. CASE WatchClosed(c)
  BY <1>0, <1>1, <1>11, Zenon DEF WatchClosed, CacheShape
<1>12. CASE WatchError(c)
  <2>1. /\ Kept /\ v.errors = (IF w.errors + 1 >= M THEN 0 ELSE w.errors + 1) /\ w.errors < M
    BY <1>0, <1>6, <1>12, Zenon DEF WatchError, CacheShape, Ready
  <2>2. Counts
    <3> HIDE DEF w, v
    <3> QED BY ONLY <1>0, <2>1
  <2> QED BY <1>1, <2>1, <2>2, Zenon
<1> QED BY <1>2, <1>3, <1>4, <1>5, <1>7, <1>8, <1>9, <1>10, <1>11, <1>12, Zenon

(* A list, an event and a bookmark are of revisions that the datastore     *)
(* has, and end the count of errors; to give everything up does too.       *)
LEMMA BoundedNews ==
  ASSUME BoundsOK, NEW c \in Types,
         \/ ListTimedOut(c) \/ ListSucceeds(c) \/ ListWithoutRevision(c)
         \/ WatchEvent(c) \/ WatchBookmark(c) \/ CacheStops(c)
  PROVE  wc' = [wc EXCEPT ![c] = wc'[c]] /\ Bounded(wc'[c])
<1> DEFINE w == wc[c]
           v == wc'[c]
           M == MaxErrorsPerRevision
<1>0. /\ wc \in [Types -> CacheShape] /\ w \in CacheShape /\ Bounded(w)
      /\ log \in Seq(Changes) /\ Len(log) \in 1..MaxRev
      /\ MaxRev \in Nat /\ M \in Nat \ {0}
  BY SyncerAssumption, Zenon DEF BoundsOK, CachesOK
<1>1. 0 <= M /\ 0 # M /\ 0 \in Revisions
  BY ONLY <1>0 DEF Revisions
<1>2. Empty \in Resources
  BY <1>1, Zenon DEF Empty, Resources, Absent
<1>3. ASSUME NEW r \in 1..Now
      PROVE  r \in Revisions /\ At(c, r) \in Resources
  <2>1. r \in Nat /\ r <= MaxRev /\ r \in Revisions
    BY ONLY <1>0, <1>3 DEF Now, Revisions
  <2> QED BY <1>0, <2>1, AtBound, Zenon
<1>4. CASE ListTimedOut(c)
  <2> DEFINE x == [w EXCEPT !.pc = "resync", !.crdInstalled = TRUE, !.connected = FALSE]
  <2>1. wc' = [wc EXCEPT ![c] = x] \/ wc' = [wc EXCEPT ![c] = Forgotten(x)]
    BY <1>4, Zenon DEF ListTimedOut
  <2>2. /\ x \in CacheShape /\ x.pos = w.pos /\ x.resources = w.resources
        /\ x.errors = w.errors /\ x.full = w.full /\ x.pc = "resync"
    BY <1>0, Zenon DEF CacheShape
  <2>3. Bounded(x)
    BY <1>0, <2>2, Zenon DEF Bounded
  <2> HIDE DEF x
  <2>4. /\ Forgotten(x).resources = Empty /\ Forgotten(x).errors = 0
        /\ Forgotten(x).pos = x.pos
    BY <2>2, Zenon DEF Forgotten, CacheShape
  <2>5. Bounded(Forgotten(x))
    BY <1>1, <1>2, <2>3, <2>4, Zenon DEF Bounded
  <2> QED BY <1>0, <2>1, <2>3, <2>5, Zenon
<1>5. CASE ListSucceeds(c)
  <2>1. PICK r \in 1..Now :
          wc' = [wc EXCEPT ![c] = [Listed(c, r) EXCEPT !.pc = "watch", !.rev = r,
                                                       !.errors = 0, !.full = FALSE]]
    BY <1>5, Zenon DEF ListSucceeds
  <2>2. v.errors = 0 /\ v.resources = At(c, r) /\ v.pos = w.pos /\ wc' = [wc EXCEPT ![c] = v]
    BY <1>0, <2>1, Zenon DEF Listed, CacheShape
  <2> HIDE DEF v
  <2>3. Bounded(v)
    BY <1>0, <1>1, <1>3, <2>2, Zenon DEF Bounded
  <2> QED BY <2>2, <2>3, Zenon DEF v
<1>6. CASE ListWithoutRevision(c)
  <2>1. PICK r \in 1..Now :
          wc' = [wc EXCEPT ![c] = [Listed(c, r) EXCEPT !.pc = "resync", !.rev = 0,
                                                       !.polling = "list"]]
    BY <1>6, Zenon DEF ListWithoutRevision
  <2>2. /\ v.errors = w.errors /\ v.full = w.full /\ v.pc = "resync"
        /\ v.resources = At(c, r) /\ v.pos = w.pos /\ wc' = [wc EXCEPT ![c] = v]
    BY <1>0, <2>1, Zenon DEF Listed, CacheShape
  <2> HIDE DEF v
  <2>3. Bounded(v)
    BY <1>0, <1>1, <1>3, <2>2, Zenon DEF Bounded
  <2> QED BY <2>2, <2>3, Zenon DEF v
<1>7. CASE WatchEvent(c)
  <2>1. PICK i \in Pending(c) :
          wc' = [wc EXCEPT ![c].resources[log[i].key] = IF log[i].del THEN Absent ELSE i,
                           ![c].rev = EventRevision(i), ![c].pos = i, ![c].errors = 0]
    BY <1>7, Zenon DEF WatchEvent
  <2> DEFINE k == log[i].key
             a == IF log[i].del THEN Absent ELSE i
  <2>2. i \in 1..Now
    <3>1. w.pos \in Nat /\ i \in (w.pos + 1)..Now
      BY <1>0, Zenon DEF Pending, CacheShape
    <3> QED BY ONLY <1>0, <3>1 DEF Now
  <2>3. a \in Revisions /\ i \in Revisions
    BY <1>1, <1>3, <2>2, Zenon DEF Absent
  <2>4. v = [w EXCEPT !.resources[k] = a, !.rev = EventRevision(i), !.pos = i, !.errors = 0]
    BY <1>0, <2>1, Zenon
  <2> HIDE DEF a, k
  <2>5. v.errors = 0 /\ v.resources = [w.resources EXCEPT ![k] = a] /\ v.pos = i
    BY <1>0, <2>4, Zenon DEF CacheShape
  <2>6. v.resources \in Resources
    BY <1>0, <2>3, <2>5, Zenon DEF Bounded, Resources
  <2>7. wc' = [wc EXCEPT ![c] = v]
    BY <1>0, <2>1, Zenon
  <2> HIDE DEF v
  <2>8. Bounded(v)
    BY <1>1, <2>3, <2>5, <2>6, Zenon DEF Bounded
  <2> QED BY <2>7, <2>8, Zenon DEF v
<1>8. CASE WatchBookmark(c)
  <2>1. PICK r \in (w.pos + 1)..Now :
          wc' = [wc EXCEPT ![c].rev = r, ![c].pos = r, ![c].errors = 0]
    BY <1>8, Zenon DEF WatchBookmark
  <2>2. r \in 1..Now
    <3>1. w.pos \in Nat
      BY <1>0, Zenon DEF CacheShape
    <3> QED BY ONLY <1>0, <2>1, <3>1 DEF Now
  <2>3. /\ v.errors = 0 /\ v.resources = w.resources /\ v.pos = r
        /\ wc' = [wc EXCEPT ![c] = v]
    BY <1>0, <2>1, Zenon DEF CacheShape
  <2> HIDE DEF v
  <2>4. Bounded(v)
    BY <1>0, <1>1, <1>3, <2>2, <2>3, Zenon DEF Bounded
  <2> QED BY <2>3, <2>4, Zenon DEF v
<1>9. CASE CacheStops(c)
  <2>1. wc' = [wc EXCEPT ![c] = [Forgotten(w) EXCEPT !.pc = "stopped", !.pos = 0]]
    BY <1>0, <1>9, Zenon DEF CacheStops
  <2>2. /\ v.errors = 0 /\ v.resources = Empty /\ v.pos = 0
        /\ wc' = [wc EXCEPT ![c] = v]
    BY <1>0, <2>1, Zenon DEF Forgotten, CacheShape
  <2> HIDE DEF v
  <2>3. Bounded(v)
    BY <1>1, <1>2, <2>2, Zenon DEF Bounded
  <2> QED BY <2>2, <2>3, Zenon DEF v
<1> QED BY <1>4, <1>5, <1>6, <1>7, <1>8, <1>9, Zenon

(* A transition can be sent.                                               *)
LEMMA TransitionSendable ==
  ASSUME NEW s, NEW t \in Statuses
  PROVE  Transition(s, t) \in Seq(Sendable)
<1>1. StatusResult(t) \in Sendable
  BY Zenon DEF StatusResult, Sendable
<1> HIDE DEF Sendable
<1> QED BY ONLY <1>1 DEF Transition

(* So can updates of the right type, and the deletions of keys in any      *)
(* order.                                                                  *)
LEMMA UpdatesSendable ==
  ASSUME NEW us \in Seq(Updates)
  PROVE  UpdatesResult(us) \in Sendable
  BY Zenon DEF UpdatesResult, Sendable

(* An update by itself is one result.                                      *)
LEMMA SingleSendable ==
  ASSUME NEW u \in Updates
  PROVE  UpdatesResult(<<u>>) \in Sendable
<1>1. <<u>> \in Seq(Updates)
  BY ONLY u \in Updates
<1> QED BY <1>1, UpdatesSendable, Zenon

(* A deletion is an update, and so is what is learned of a key.            *)
LEMMA UpdatesAre ==
  ASSUME NEW k \in Keys
  PROVE  /\ Deleted(k) \in Updates
         /\ \A x : \A r \in Revisions : Learned(x, k, r) \in Updates
<1>1. Absent \in Revisions
  BY SyncerAssumption DEF Revisions, Absent
<1> QED BY <1>1, Zenon DEF Deleted, Learned, Updates

(* Updates that are sent one by one.                                       *)
LEMMA EachSendable ==
  ASSUME NEW n \in Nat, NEW us, us \in [1..n -> Updates]
  PROVE  /\ us \in Seq(Updates)
         /\ [i \in 1..n |-> UpdatesResult(<<us[i]>>)] \in Seq(Sendable)
<1> DEFINE rs == [i \in 1..n |-> UpdatesResult(<<us[i]>>)]
<1>1. \A i \in 1..n : UpdatesResult(<<us[i]>>) \in Sendable
  BY SingleSendable, Zenon
<1>2. rs \in [1..n -> Sendable]
  BY <1>1, Zenon
<1> HIDE DEF rs
<1>3. rs \in Seq(Sendable) /\ us \in Seq(Updates)
  BY ONLY <1>2, n \in Nat, us \in [1..n -> Updates]
<1> QED BY <1>3, Zenon DEF rs

(* sendDeletionsForAllResources sends what can be sent.                    *)
LEMMA DeletionsSendable ==
  ASSUME NEW w \in CacheShape
  PROVE  Deletions(w) \in Seq(Sendable)
<1> DEFINE gone == Present(w.resources)
           n == Cardinality(gone)
           rs == [i \in 1..n |-> UpdatesResult(<<Deleted(MapOrder(gone)[i])>>)]
           t == Transition(w.status, LeaveWaiting(w.status))
<1>1. gone \in SUBSET Keys
  BY Zenon DEF Present
<1>2. t \in Seq(Sendable)
  BY LeaveWaitingIs, TransitionSendable, Zenon DEF CacheShape
<1>3. rs \in Seq(Sendable)
  <2> DEFINE us == [i \in 1..n |-> Deleted(MapOrder(gone)[i])]
  <2>1. n \in Nat /\ MapOrder(gone) \in [1..n -> gone]
    BY <1>1, PresentFinite, MapOrderIs, Zenon
  <2> HIDE DEF gone, n
  <2>2. \A i \in 1..n : MapOrder(gone)[i] \in Keys
    BY <1>1, <2>1, Zenon
  <2>3. us \in [1..n -> Updates]
    BY <2>2, UpdatesAre, Zenon
  <2>4. rs = [i \in 1..n |-> UpdatesResult(<<us[i]>>)]
    BY Zenon
  <2> HIDE DEF us, rs
  <2> QED BY <2>1, <2>3, <2>4, EachSendable, Zenon
<1>4. Deletions(w) = IF gone = {} THEN <<>> ELSE t \o rs
  BY Zenon DEF Deletions
<1> HIDE DEF gone, rs, t, n, Sendable
<1> QED BY ONLY <1>2, <1>3, <1>4

(* So does a list.                                                         *)
LEMMA ListSendable ==
  ASSUME NEW c \in Types, NEW r, At(c, r) \in Resources, wc[c] \in CacheShape
  PROVE  ListResults(c, r) \in Seq(Sendable)
<1> DEFINE w == wc[c]
           v == w.resources
           a == At(c, r)
           s == LeaveWaiting(w.status)
           L == {k \in Present(a) : a[k] # v[k]}
           K == Present(v) \ Present(a)
           listed == MapOrder(L)
           gone == MapOrder(K)
           t1 == Transition(w.status, s)
           t2 == Transition(s, "InSync")
           u(k) == Learned(v[k], k, a[k])
           rs == [i \in DOMAIN listed |-> UpdatesResult(<<u(listed[i])>>)]
           ds == [i \in DOMAIN gone |-> Deleted(gone[i])]
           gs == IF gone = <<>> THEN <<>> ELSE <<UpdatesResult(ds)>>
<1>1. L \in SUBSET Keys /\ K \in SUBSET Keys
  BY Zenon DEF Present
<1>2. (\A k \in L : u(k) \in Updates) /\ \A k \in K : Deleted(k) \in Updates
  <2>1. \A k \in Keys : a[k] \in Revisions
    BY Zenon DEF Resources
  <2> QED BY <1>1, <2>1, UpdatesAre, Zenon
<1>3. t1 \in Seq(Sendable) /\ t2 \in Seq(Sendable)
  <2>1. s \in Statuses /\ "InSync" \in Statuses
    BY LeaveWaitingIs, Zenon DEF CacheShape, Statuses
  <2> QED BY <2>1, TransitionSendable, Zenon
<1> HIDE DEF L, K, u
<1>4. /\ listed \in [1..Cardinality(L) -> L] /\ Cardinality(L) \in Nat
      /\ gone \in [1..Cardinality(K) -> K] /\ Cardinality(K) \in Nat
  BY <1>1, PresentFinite, MapOrderIs, Zenon
<1>5. rs \in Seq(Sendable)
  <2> DEFINE n == Cardinality(L)
             us == [i \in 1..n |-> u(listed[i])]
  <2>1. rs = [i \in 1..n |-> UpdatesResult(<<us[i]>>)]
    BY <1>4, Zenon
  <2>2. us \in [1..n -> Updates]
    BY <1>2, <1>4, Zenon
  <2> HIDE DEF us, rs
  <2> QED BY <1>4, <2>1, <2>2, EachSendable, Zenon
<1>6. ds \in Seq(Updates)
  <2>1. ds \in [1..Cardinality(K) -> Updates]
    BY <1>2, <1>4, Zenon
  <2> HIDE DEF ds
  <2> QED BY <1>4, <2>1, EachSendable, Zenon
<1>7. UpdatesResult(ds) \in Sendable
  BY <1>6, UpdatesSendable, Zenon
<1>8. ListResults(c, r) = t1 \o rs \o gs \o t2
  BY Zenon DEF ListResults, u, L, K
<1> HIDE DEF rs, ds, t1, t2, gone, Sendable
<1>9. gs \in Seq(Sendable)
  BY ONLY <1>7
<1> HIDE DEF gs
<1> QED BY ONLY <1>3, <1>5, <1>8, <1>9

(* Whatever a cache sends is a list of results of the right type.          *)
LEMMA CacheSends ==
  ASSUME BoundsOK, NEW c \in Types, Resync(c) \/ Watching(c) \/ CacheStops(c)
  PROVE  results' \in [Types -> Seq(Sendable)]
<1> DEFINE w == wc[c]
           Sends(rs) == results' = [results EXCEPT ![c] = @ \o rs]
<1>0. /\ results \in [Types -> Seq(Sendable)] /\ w \in CacheShape /\ w.status \in Statuses
      /\ log \in Seq(Changes) /\ Len(log) \in 1..MaxRev /\ MaxRev \in Nat
  BY SyncerAssumption, Zenon DEF BoundsOK, CachesOK, CacheShape
<1>1. ASSUME NEW rs \in Seq(Sendable), Sends(rs)
      PROVE  results' \in [Types -> Seq(Sendable)]
  <2> HIDE DEF Sendable
  <2>1. results[c] \o rs \in Seq(Sendable)
    BY ONLY <1>0, <1>1, c \in Types
  <2> QED BY <1>0, <1>1, <2>1, Zenon
<1> HIDE DEF Sends
<1>2. \A r \in 1..Now : r \in Revisions /\ At(c, r) \in Resources
  <2> SUFFICES ASSUME NEW r \in 1..Now
               PROVE  r \in Revisions /\ At(c, r) \in Resources
    BY Zenon
  <2>1. r \in Nat /\ r <= MaxRev /\ r \in Revisions
    BY ONLY <1>0, r \in 1..Now DEF Now, Revisions
  <2> QED BY <1>0, <2>1, AtBound, Zenon
<1>3. LeaveWaiting(w.status) \in Statuses /\ "InSync" \in Statuses
  BY <1>0, LeaveWaitingIs, Zenon DEF Statuses
<1>4. CASE StartResync(c)
  <2>1. PICK s \in Statuses : Sends(Transition(w.status, s))
    <3> DEFINE s == IF ~w.crdInstalled \/ w.polling # "no" THEN w.status
                    ELSE IF w.connected THEN "ResyncInProgress" ELSE "WaitForDatastore"
    <3>1. s \in Statuses
      BY <1>0, Zenon DEF Statuses
    <3>2. Sends(Transition(w.status, s))
      BY <1>4, Zenon DEF StartResync, Send, Sends
    <3> QED BY <3>1, <3>2, Zenon
  <2> QED BY <1>1, <2>1, TransitionSendable, Zenon
<1>5. CASE ListNotFound(c)
  <2> DEFINE t1 == Transition(w.status, LeaveWaiting(w.status))
             t2 == Transition(LeaveWaiting(w.status), "InSync")
  <2>1. Sends(t1 \o t2)
    BY <1>5, Zenon DEF ListNotFound, Send, Sends
  <2>2. t1 \in Seq(Sendable) /\ t2 \in Seq(Sendable)
    BY <1>3, TransitionSendable, Zenon
  <2> HIDE DEF t1, t2, Sendable
  <2>3. t1 \o t2 \in Seq(Sendable)
    BY ONLY <2>2
  <2> QED BY <1>1, <2>1, <2>3, Zenon
<1>6. CASE ListTimedOut(c)
  <2> DEFINE x == [w EXCEPT !.pc = "resync", !.crdInstalled = TRUE, !.connected = FALSE]
             e == <<ErrorResult>>
  <2>1. x \in CacheShape
    BY <1>0, Zenon DEF CacheShape
  <2>2. Sends(e) \/ Sends(e \o Deletions(x))
    BY <1>6, Zenon DEF ListTimedOut, Send, Sends
  <2>3. ErrorResult \in Sendable
    BY Zenon DEF ErrorResult, Sendable
  <2> HIDE DEF x, Sendable
  <2>4. Deletions(x) \in Seq(Sendable)
    BY <2>1, DeletionsSendable, Zenon
  <2>5. e \in Seq(Sendable) /\ e \o Deletions(x) \in Seq(Sendable)
    BY ONLY <2>3, <2>4
  <2> QED BY <1>1, <2>2, <2>5, Zenon
<1>7. CASE ListSucceeds(c) \/ ListWithoutRevision(c)
  <2>1. PICK r \in 1..Now : Sends(ListResults(c, r))
    BY <1>7, Zenon DEF ListSucceeds, ListWithoutRevision, Send, Sends
  <2>2. ListResults(c, r) \in Seq(Sendable)
    BY <1>0, <1>2, ListSendable, Zenon
  <2> QED BY <1>1, <2>1, <2>2, Zenon
<1>8. CASE CacheStops(c)
  <2>1. Sends(Deletions(w))
    BY <1>8, Zenon DEF CacheStops, Send, Sends
  <2> QED BY <1>0, <1>1, <2>1, DeletionsSendable, Zenon
<1>9. CASE WatchEvent(c)
  <2> DEFINE d(i) == UpdatesResult(<<Deleted(log[i].key)>>)
             l(i) == UpdatesResult(<<Learned(w.resources[log[i].key], log[i].key, i)>>)
             Sent(i) == IF w.resources[log[i].key] = (IF log[i].del THEN Absent ELSE i) THEN <<>>
                        ELSE IF log[i].del THEN <<d(i)>> ELSE <<l(i)>>
  <2>1. PICK i \in Pending(c) : Sends(Sent(i))
    BY <1>9, Zenon DEF WatchEvent, Send, Sends
  <2>2. i \in 1..Now /\ log[i].key \in Keys
    <3>1. w.pos \in Nat /\ i \in (w.pos + 1)..Now
      BY <1>0, Zenon DEF Pending, CacheShape
    <3>2. i \in 1..Now /\ log[i] \in Changes
      BY ONLY <1>0, <3>1 DEF Now
    <3> QED BY <3>2, Zenon DEF Changes
  <2>3. \A x : Deleted(log[i].key) \in Updates /\ Learned(x, log[i].key, i) \in Updates
    BY <1>2, <2>2, UpdatesAre, Zenon
  <2>4. d(i) \in Sendable /\ l(i) \in Sendable
    BY <2>3, SingleSendable, Zenon
  <2> HIDE DEF Sendable, d, l
  <2>5. Sent(i) \in Seq(Sendable)
    BY ONLY <2>4
  <2> HIDE DEF Sent
  <2> QED BY <1>1, <2>1, <2>5, Zenon
<1>10. CASE results' = results
  BY <1>0, <1>10, Zenon
<1>11. \/ StartResync(c) \/ ListNotFound(c) \/ ListTimedOut(c) \/ ListSucceeds(c)
       \/ ListWithoutRevision(c) \/ CacheStops(c) \/ WatchEvent(c) \/ results' = results
  BY Zenon DEF Resync, Watching, ListExpired, ListFailed, WatchCreated, WatchExpired,
     WatchRefused, WatchUnsupported, WatchFailed, WatchBookmark, WatchClosed,
     WatchErrorExpired, WatchError
<1> QED BY <1>4, <1>5, <1>6, <1>7, <1>8, <1>9, <1>10, <1>11, Zenon

(* The consumer is told of revisions that the datastore has.               *)
LEMMA SendUpdatesBound ==
  ASSUME view \in [Types -> Resources], updates \in Seq(Queueable), sendUpdates
  PROVE  view' \in [Types -> Resources] /\ updates' \in Seq(Queueable)
<1>1. ASSUME NEW d \in Types, NEW k \in Keys
      PROVE  OnUpdates(view, updates)[d][k] \in Revisions
  <2> DEFINE S == {j \in DOMAIN updates : updates[j].type = d /\ updates[j].update.key = k}
             i == LastUpdate(updates, d, k)
  <2>1. S \in SUBSET (1..Len(updates)) /\ Len(updates) \in Nat
    OBVIOUS
  <2>2. i = Latest(S)
    BY Zenon DEF LastUpdate
  <2> HIDE DEF S
  <2>3. i \in 0..Len(updates)
    BY <2>1, <2>2, LatestType, Zenon
  <2>4. OnUpdates(view, updates)[d][k] = IF i = 0 THEN view[d][k] ELSE updates[i].update.value
    BY Zenon DEF OnUpdates
  <2> HIDE DEF i
  <2>5. view[d][k] \in Revisions
    BY Zenon DEF Resources
  <2>6. i # 0 => updates[i] \in Queueable
    BY ONLY <2>3, updates \in Seq(Queueable)
  <2> QED BY <2>4, <2>5, <2>6, Zenon DEF Queueable, Updates
<1>2. OnUpdates(view, updates) \in [Types -> Resources]
  BY <1>1, Zenon DEF OnUpdates, Resources
<1>3. view' = OnUpdates(view, updates) /\ updates' = <<>>
  BY Zenon DEF sendUpdates
<1>4. updates' \in Seq(Queueable)
  BY ONLY <1>3
<1> QED BY <1>2, <1>3, <1>4, Zenon

(* The syncer's goroutine passes on what it receives.                      *)
LEMMA ResultBound ==
  ASSUME BoundsOK, NEW c \in Types, ProcessResult(c)
  PROVE  /\ results' \in [Types -> Seq(Sendable)]
         /\ statuses' \in [Types -> Statuses] /\ status' \in Statuses
         /\ view' \in [Types -> Resources] /\ updates' \in Seq(Queueable)
<1> DEFINE r == Head(results[c])
<1>0. /\ results \in [Types -> Seq(Sendable)] /\ results[c] \in Seq(Sendable)
      /\ results[c] # <<>>
      /\ statuses \in [Types -> Statuses] /\ status \in Statuses
      /\ view \in [Types -> Resources] /\ updates \in Seq(Queueable)
  BY Zenon DEF BoundsOK, ProcessResult
<1>1. r \in Sendable /\ results' \in [Types -> Seq(Sendable)]
  <2>1. r \in Sendable /\ Tail(results[c]) \in Seq(Sendable)
    <3> HIDE DEF Sendable
    <3> QED BY ONLY <1>0
  <2>2. results' = [results EXCEPT ![c] = Tail(@)]
    BY Zenon DEF ProcessResult
  <2> QED BY <1>0, <2>1, <2>2, Zenon
<1>2. CASE r.tag = "updates" /\ processUpdates(c, r.updates)
  <2> DEFINE us == r.updates
             ts == [i \in DOMAIN us |-> [type |-> c, update |-> us[i]]]
  <2>1. us \in Seq(Updates)
    BY <1>1, <1>2, Zenon DEF Sendable
  <2>2. updates' = updates \o ts /\ UNCHANGED <<statuses, status, view>>
    BY <1>2, Zenon DEF processUpdates
  <2> HIDE DEF us
  <2>3. DOMAIN us = 1..Len(us) /\ Len(us) \in Nat /\ \A i \in 1..Len(us) : us[i] \in Updates
    BY ONLY <2>1
  <2>4. ts \in [1..Len(us) -> Queueable]
    BY <2>3, Zenon DEF Queueable
  <2> HIDE DEF ts
  <2>5. ts \in Seq(Queueable)
    BY ONLY <2>3, <2>4
  <2>6. updates \o ts \in Seq(Queueable)
    BY ONLY <1>0, <2>5
  <2> QED BY <1>0, <1>1, <2>2, <2>6, Zenon
<1>3. CASE r.tag = "error" /\ processError
  <2>1. sendUpdates /\ UNCHANGED <<statuses, status>>
    BY <1>3, Zenon DEF processError
  <2> QED BY <1>0, <1>1, <2>1, SendUpdatesBound, Zenon
<1>4. CASE r.tag = "status" /\ processStatus(c, r.status)
  <2>1. r.status \in Statuses
    BY <1>1, <1>4, Zenon DEF Sendable
  <2>2. /\ statuses' = [statuses EXCEPT ![c] = r.status]
        /\ status' = Combined([statuses EXCEPT ![c] = r.status])
        /\ sendUpdates \/ UNCHANGED <<updates, view>>
    BY <1>4, Zenon DEF processStatus
  <2>3. statuses' \in [Types -> Statuses] /\ status' \in Statuses
    BY <1>0, <2>1, <2>2, Zenon DEF Combined, Statuses
  <2>4. view' \in [Types -> Resources] /\ updates' \in Seq(Queueable)
    BY <1>0, <2>2, SendUpdatesBound, Zenon
  <2> QED BY <1>1, <2>3, <2>4, Zenon
<1> QED BY <1>2, <1>3, <1>4, Zenon DEF ProcessResult

(* The start is within the bounds.                                         *)
LEMMA InitBounds ==
  ASSUME Init
  PROVE  BoundsOK
<1>1. CachesOK
  BY InitOK, Zenon
<1>2. /\ wc = [c \in Types |-> NewCache] /\ results = [c \in Types |-> <<>>]
      /\ statuses = [c \in Types |-> "WaitForDatastore"] /\ status = "WaitForDatastore"
      /\ updates = <<>> /\ view = [c \in Types |-> Empty] /\ faults = 0 /\ stopping = FALSE
  BY Zenon DEF Init
<1>3. MaxRev \in Nat \ {0} /\ MaxFaults \in Nat /\ MaxErrorsPerRevision \in Nat \ {0}
  BY SyncerAssumption, Zenon
<1>4. Len(log) \in 1..MaxRev /\ faults \in 0..MaxFaults /\ stopping \in BOOLEAN
  <2>1. PICK e : log = <<e>>
    BY Zenon DEF Init
  <2>2. Len(log) = 1
    BY ONLY <2>1
  <2>3. faults = 0 /\ stopping \in BOOLEAN
    BY <1>2, Zenon
  <2>4. Len(log) \in 1..MaxRev /\ 0 \in 0..MaxFaults
    BY ONLY <1>3, <2>2
  <2> QED BY <2>3, <2>4, Zenon
<1>5. 0 \in Revisions /\ 0 <= MaxErrorsPerRevision /\ 0 # MaxErrorsPerRevision
  BY ONLY <1>3 DEF Revisions
<1>6. Empty \in Resources
  BY <1>5, Zenon DEF Empty, Resources, Absent
<1>7. \A c \in Types : Bounded(wc[c])
  <2>1. NewCache.pos = 0 /\ NewCache.errors = 0 /\ NewCache.resources = Empty
    BY Zenon DEF NewCache
  <2> QED BY <1>2, <1>5, <1>6, <2>1, Zenon DEF Bounded
<1>8. <<>> \in Seq(Sendable) /\ updates \in Seq(Queueable)
  <2>1. updates = <<>>
    BY <1>2, Zenon
  <2> HIDE DEF Sendable, Queueable
  <2> QED BY ONLY <2>1
<1>9. /\ results \in [Types -> Seq(Sendable)]
      /\ statuses \in [Types -> Statuses] /\ status \in Statuses
      /\ view \in [Types -> Resources]
  BY <1>2, <1>6, <1>8, Zenon DEF Statuses
<1> QED BY <1>1, <1>4, <1>7, <1>8, <1>9, Zenon DEF BoundsOK

(* Every step stays within them.                                           *)
LEMMA NextBounds ==
  ASSUME BoundsOK, [Next]_vars
  PROVE  BoundsOK'
<1>0. CachesOK'
  BY NextOK, Zenon DEF BoundsOK
<1>1. /\ wc \in [Types -> CacheShape] /\ Len(log) \in 1..MaxRev /\ faults \in 0..MaxFaults
      /\ log \in Seq(Changes) /\ MaxRev \in Nat /\ MaxFaults \in Nat
  BY SyncerAssumption, Zenon DEF BoundsOK, CachesOK
<1>2. CASE Datastore
  <2>1. PICK c \in Types, k \in Keys, del \in BOOLEAN : Change(c, k, del)
    BY <1>2, Zenon DEF Datastore
  <2>2. /\ Len(log) < MaxRev /\ log' = Append(log, [type |-> c, key |-> k, del |-> del])
        /\ UNCHANGED <<faults, stopping, wc, results, statuses, status, updates, view>>
    BY <2>1, Zenon DEF Change
  <2>3. Len(log') \in 1..MaxRev
    BY ONLY <1>1, <2>2
  <2> QED BY <1>0, <2>2, <2>3, Zenon DEF BoundsOK, Bounded
<1>3. CASE Stop \/ UNCHANGED vars
  <2>1. UNCHANGED <<log, faults, wc, results, statuses, status, updates, view>> /\ stopping' \in BOOLEAN
    BY <1>3, Zenon DEF Stop, vars, syncer, BoundsOK
  <2> QED BY <1>0, <2>1, Zenon DEF BoundsOK, Bounded
<1>4. CASE Flush
  <2>1. sendUpdates /\ UNCHANGED <<log, stopping, faults, wc, results, statuses, status>>
    BY <1>4, Zenon DEF Flush, store
  <2>2. view' \in [Types -> Resources] /\ updates' \in Seq(Queueable)
    BY <2>1, SendUpdatesBound, Zenon DEF BoundsOK
  <2> QED BY <1>0, <2>1, <2>2, Zenon DEF BoundsOK, Bounded
<1>5. CASE \E c \in Types : ProcessResult(c)
  <2>1. PICK c \in Types : ProcessResult(c)
    BY <1>5, Zenon
  <2>2. UNCHANGED <<log, stopping, faults, wc>>
    BY <2>1, Zenon DEF ProcessResult, store
  <2>3. /\ results' \in [Types -> Seq(Sendable)]
        /\ statuses' \in [Types -> Statuses] /\ status' \in Statuses
        /\ view' \in [Types -> Resources] /\ updates' \in Seq(Queueable)
    BY <2>1, ResultBound, Zenon
  <2> QED BY <1>0, <2>2, <2>3, Zenon DEF BoundsOK, Bounded
<1>6. CASE \E c \in Types : Resync(c) \/ Watching(c) \/ CacheStops(c)
  <2>1. PICK c \in Types : Resync(c) \/ Watching(c) \/ CacheStops(c)
    BY <1>6, Zenon
  <2>2. /\ log' = log /\ stopping' = stopping /\ UNCHANGED syncer
        /\ Fault \/ faults' = faults
    BY <2>1, CacheLeaves, Zenon
  <2>3. faults' \in 0..MaxFaults
    BY ONLY <1>1, <2>2 DEF Fault
  <2>4. results' \in [Types -> Seq(Sendable)]
    BY <2>1, CacheSends, Zenon
  <2>5. wc' = [wc EXCEPT ![c] = wc'[c]] /\ Bounded(wc'[c])
    BY <2>1, BoundedQuiet, BoundedNews, Zenon DEF Resync, Watching
  <2>6. \A d \in Types : Bounded(wc'[d])
    BY <1>1, <2>5, Zenon DEF BoundsOK
  <2>7. \A d \in Types : Bounded(wc[d])'
    BY <2>6, Zenon DEF Bounded
  <2> QED BY <1>0, <2>2, <2>3, <2>4, <2>7, Zenon DEF BoundsOK, syncer
<1> QED BY <1>2, <1>3, <1>4, <1>5, <1>6, Zenon DEF Next

(* The syncer's variables have their types: no cache counts more watch     *)
(* errors at one revision than the number that makes it resync             *)
(* (maxErrorsPerRevision), and no revision is told or watched from that    *)
(* the datastore does not have.                                            *)
THEOREM SyncerTypes == Spec => []TypeOK
<1>1. Init => BoundsOK
  BY InitBounds, Zenon
<1>2. BoundsOK /\ [Next]_vars => BoundsOK'
  BY NextBounds, Zenon
<1>3. BoundsOK => TypeOK
  <2> SUFFICES ASSUME BoundsOK PROVE TypeOK
    BY Zenon
  <2>1. ASSUME NEW c \in Types
        PROVE  wc[c] \in Caches
    <3> DEFINE w == wc[c]
    <3>1. w \in CacheShape /\ w.rev <= Len(log) /\ Len(log) \in 1..MaxRev /\ Bounded(w)
      BY Zenon DEF BoundsOK, CachesOK, CacheOK
    <3>2. MaxRev \in Nat /\ MaxErrorsPerRevision \in Nat
      BY SyncerAssumption, Zenon
    <3>3. w.rev \in Nat /\ w.errors \in Nat /\ w.errors <= MaxErrorsPerRevision
      BY <3>1, Zenon DEF CacheShape, Bounded
    <3>4. w.rev \in Revisions /\ w.errors \in 0..MaxErrorsPerRevision
      BY ONLY <3>1, <3>2, <3>3 DEF Revisions
    <3> QED BY <3>1, <3>4, Zenon DEF CacheShape, Caches, Bounded
  <2>2. wc \in [Types -> Caches]
    BY <2>1, Zenon DEF BoundsOK, CachesOK
  <2>3. \A i \in DOMAIN log : log[i] \in [type : Types, key : Keys, del : BOOLEAN]
    <3>1. log \in Seq(Changes)
      BY Zenon DEF BoundsOK, CachesOK
    <3>2. \A i \in DOMAIN log : log[i] \in Changes
      BY ONLY <3>1
    <3> QED BY <3>2, Zenon DEF Changes
  <2>4. \A i \in DOMAIN updates : updates[i] \in [type : Types, update : Updates]
    <3>1. updates \in Seq(Queueable)
      BY Zenon DEF BoundsOK
    <3>2. \A i \in DOMAIN updates : updates[i] \in Queueable
      BY ONLY <3>1
    <3> QED BY <3>2, Zenon DEF Queueable
  <2> QED BY <2>2, <2>3, <2>4, Zenon DEF BoundsOK, TypeOK
<1> QED BY <1>1, <1>2, <1>3, PTL DEF Spec
============================================================================
