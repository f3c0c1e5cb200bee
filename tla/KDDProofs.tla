----------------------------- MODULE KDDProofs ------------------------------
(***************************************************************************)
(* The Kubernetes datastore's two-step deletion implements the store with  *)
(* compare-and-delete, for any number of clients, keys and values.         *)
(***************************************************************************)
EXTENDS KDDBlockStore, TLAPS

(* The invariant holds of the empty datastore.                             *)
LEMMA InitDeletion == Init => DeletionInv
  BY DEF Init, DeletionInv, TypeOK, ObjectsOK, ClientsOK, DeletersMarked, CopiesTrue, Objects, Results, Calls

(* The API's calls keep the objects well formed.                           *)
LEMMA CreateTypes ==
  ASSUME ObjectsOK, NEW c \in Clients, NEW k \in Keys, NEW v \in Values, ApiCreate(c, k, v)
  PROVE  ObjectsOK'
<1>1. [val |-> v, deleted |-> FALSE] \in Objects /\ Absent \notin Objects
  BY AbsentIsNoObject DEF Objects
<1> QED
  BY <1>1, Zenon DEF ObjectsOK, ApiCreate

(* As for CreateTypes.                                                     *)
LEMMA GetTypes ==
  ASSUME ObjectsOK, NEW c \in Clients, NEW k \in Keys, ApiGet(c, k) PROVE ObjectsOK'
  BY DEF ObjectsOK, ApiGet

(* As for CreateTypes.                                                     *)
LEMMA UpdateTypes ==
  ASSUME ObjectsOK, NEW c \in Clients, NEW k \in Keys, NEW o \in Objects, ApiUpdate(c, k, o)
  PROVE  ObjectsOK'
<1>1. Absent \notin Objects
  BY AbsentIsNoObject DEF Objects
<1> QED
  BY <1>1 DEF ObjectsOK, ApiUpdate

(* As for CreateTypes.                                                     *)
LEMMA DeleteTypes ==
  ASSUME ObjectsOK, NEW c \in Clients, NEW k \in Keys, ApiDelete(c, k) PROVE ObjectsOK'
  BY DEF ObjectsOK, ApiDelete

(* As for CreateTypes.                                                     *)
LEMMA SameTypes == ASSUME ObjectsOK, UNCHANGED objects PROVE ObjectsOK'
  BY DEF ObjectsOK, objects

(* Every step keeps the invariant.                                         *)
LEMMA NextDeletion == DeletionInv /\ [Next]_vars => DeletionInv'
<1> SUFFICES ASSUME DeletionInv, [Next]_vars PROVE DeletionInv'
  OBVIOUS
<1>1. CASE UNCHANGED vars
  BY <1>1 DEF vars, objects, DeletionInv, TypeOK, ObjectsOK, ClientsOK, DeletersMarked, CopiesTrue
<1>2. ASSUME NEW c \in Clients, NEW k \in Keys, Get(c, k) PROVE DeletionInv'
  <2>1. ObjectsOK'
    BY <1>2, GetTypes, SameTypes DEF DeletionInv, TypeOK, ClientsOK, Get, NotFound
  <2>2. ClientsOK'
    <3>1. CASE pc' = [pc EXCEPT ![c] = "mark"] /\ call' = [call EXCEPT ![c] = "Get"] /\ UNCHANGED res
      BY <1>2, <3>1 DEF Get, Begin, DeletionInv, TypeOK, ClientsOK, Results, Calls
    <3>2. CASE Answer(c, "ok") \/ Answer(c, "missing")
      BY <1>2, <3>2 DEF Get, Begin, Answer, DeletionInv, TypeOK, ClientsOK, Results, Calls
    <3> QED
      BY <1>2, <3>1, <3>2 DEF Get
  <2>3. DeletersMarked'
    BY <1>2 DEF Get, Begin, ApiGet, Live, Answer, NotFound, objects, DeletionInv, TypeOK, ObjectsOK, ClientsOK, DeletersMarked, CopiesTrue, Objects
  <2>4. CopiesTrue'
    <3>1. CASE ApiGet(c, k) /\ Live(k) /\ Answer(c, "ok")
      BY <1>2, <3>1, ZenonT(30) DEF Get, Begin, ApiGet, Live, Answer, DeletionInv, TypeOK, ObjectsOK, ClientsOK, CopiesTrue, Objects
    <3>2. CASE ApiGet(c, k) /\ pc' = [pc EXCEPT ![c] = "mark"] /\ UNCHANGED res
      BY <1>2, <3>2, Zenon DEF Get, Begin, ApiGet, DeletionInv, TypeOK, ObjectsOK, ClientsOK, CopiesTrue, Objects
    <3>3. CASE NotFound(k) /\ Answer(c, "missing")
      BY <1>2, <3>3, Zenon DEF Get, Begin, NotFound, Answer, objects, DeletionInv, TypeOK, ObjectsOK, ClientsOK, CopiesTrue, Objects
    <3> QED
      BY <1>2, <3>1, <3>2, <3>3 DEF Get
  <2> QED
    BY <2>1, <2>2, <2>3, <2>4 DEF DeletionInv, TypeOK
<1>3. ASSUME NEW c \in Clients, NEW k \in Keys, List(c, k) PROVE DeletionInv'
  <2>1. ObjectsOK'
    BY <1>3, GetTypes DEF DeletionInv, TypeOK, ClientsOK, List
  <2>2. ClientsOK'
    BY <1>3 DEF List, Begin, Answer, DeletionInv, TypeOK, ClientsOK, ObjectsOK, Objects, Results, Calls
  <2>3. DeletersMarked'
    BY <1>3 DEF List, Begin, ApiGet, Answer, DeletionInv, TypeOK, ObjectsOK, ClientsOK, DeletersMarked, CopiesTrue, Objects
  <2>4. CopiesTrue'
    BY <1>3 DEF List, Begin, ApiGet, Answer, DeletionInv, TypeOK, ObjectsOK, ClientsOK, CopiesTrue, Objects
  <2> QED
    BY <2>1, <2>2, <2>3, <2>4 DEF DeletionInv, TypeOK
<1>4. ASSUME NEW c \in Clients, NEW k \in Keys, NEW v \in Values, Create(c, k, v) PROVE DeletionInv'
  <2>1. ObjectsOK'
    BY <1>4, CreateTypes, SameTypes DEF DeletionInv, TypeOK, ClientsOK, Create
  <2>2. ClientsOK'
    BY <1>4 DEF Create, Begin, Answer, DeletionInv, TypeOK, ClientsOK, ObjectsOK, Objects, Results, Calls
  <2>3. DeletersMarked'
    BY <1>4 DEF Create, Begin, ApiCreate, Answer, objects, DeletionInv, TypeOK, ObjectsOK, ClientsOK, DeletersMarked, CopiesTrue, Objects
  <2>4. CopiesTrue'
    <3>1. CASE ApiCreate(c, k, v) /\ Answer(c, "ok")
      BY <1>4, <3>1, Zenon DEF Create, Begin, ApiCreate, Answer, DeletionInv, TypeOK, ObjectsOK, ClientsOK, CopiesTrue, Objects
    <3>2. CASE UNCHANGED objects /\ Answer(c, "exists")
      BY <1>4, <3>2, Zenon DEF Create, Begin, Answer, objects, DeletionInv, TypeOK, ObjectsOK, ClientsOK, CopiesTrue, Objects
    <3> QED
      BY <1>4, <3>1, <3>2 DEF Create
  <2> QED
    BY <2>1, <2>2, <2>3, <2>4 DEF DeletionInv, TypeOK
<1>5. ASSUME NEW c \in Clients, NEW v \in Values, Update(c, v) PROVE DeletionInv'
  <2>0. [val |-> v, deleted |-> marked[c]] \in Objects
    BY DEF DeletionInv, TypeOK, ClientsOK, Objects
  <2>1. ObjectsOK'
    BY <1>5, <2>0, UpdateTypes, SameTypes DEF DeletionInv, TypeOK, ClientsOK, Update, Conflict, NotFound
  <2>2. ClientsOK'
    BY <1>5, SMTT(30) DEF Update, Begin, Answer, Conflict, NotFound, DeletionInv, TypeOK, ClientsOK, ObjectsOK, Objects, Results, Calls
  <2>3. DeletersMarked'
    BY <1>5 DEF Update, Begin, ApiUpdate, Answer, Conflict, NotFound, objects, DeletionInv, TypeOK, ObjectsOK, ClientsOK, DeletersMarked, CopiesTrue, Objects
  <2>4. CopiesTrue'
    BY <1>5 DEF Update, Begin, ApiUpdate, Answer, Conflict, NotFound, objects, DeletionInv, TypeOK, ObjectsOK, ClientsOK, CopiesTrue, Objects
  <2> QED
    BY <2>1, <2>2, <2>3, <2>4 DEF DeletionInv, TypeOK
<1>6. ASSUME NEW c \in Clients, BeginDeleteKVP(c) PROVE DeletionInv'
  <2>1. ObjectsOK'
    BY <1>6, SameTypes DEF DeletionInv, TypeOK, ClientsOK, BeginDeleteKVP
  <2>2. ClientsOK'
    BY <1>6 DEF BeginDeleteKVP, Begin, DeletionInv, TypeOK, ClientsOK, ObjectsOK, Objects, Results, Calls
  <2>3. DeletersMarked'
    BY <1>6 DEF BeginDeleteKVP, Begin, objects, DeletionInv, TypeOK, ObjectsOK, ClientsOK, DeletersMarked, CopiesTrue, Objects
  <2>4. CopiesTrue'
    BY <1>6 DEF BeginDeleteKVP, Begin, objects, DeletionInv, TypeOK, ObjectsOK, ClientsOK, CopiesTrue, Objects
  <2> QED
    BY <2>1, <2>2, <2>3, <2>4 DEF DeletionInv, TypeOK
<1>7. ASSUME NEW c \in Clients, Mark(c) PROVE DeletionInv'
  <2>0. api[key[c]] # Absent => [val |-> api[key[c]].val, deleted |-> TRUE] \in Objects
    BY DEF DeletionInv, TypeOK, ObjectsOK, ClientsOK, Objects
  <2>1. ObjectsOK'
    BY <1>7, <2>0, UpdateTypes, SameTypes, Zenon DEF DeletionInv, TypeOK, ClientsOK, Mark, Conflict, NotFound, ApiUpdate
  <2>2. ClientsOK'
    BY <1>7 DEF Mark, Answer, DeletionInv, TypeOK, ClientsOK, Results, Calls
  <2>3. DeletersMarked'
    <3>1. CASE ApiUpdate(c, key[c], [val |-> api[key[c]].val, deleted |-> TRUE]) /\ pc' = [pc EXCEPT ![c] = "get"]
      BY <1>7, <3>1 DEF Mark, ApiUpdate, DeletionInv, TypeOK, ObjectsOK, ClientsOK, DeletersMarked
    <3>2. CASE UNCHANGED objects /\ pc' = [pc EXCEPT ![c] = "idle"]
      BY <1>7, <3>2 DEF Mark, objects, DeletionInv, TypeOK, ClientsOK, DeletersMarked
    <3> QED
      BY <1>7, <3>1, <3>2 DEF Mark, Answer, Conflict, NotFound
  <2>4. CopiesTrue'
    BY <1>7 DEF Mark, ApiUpdate, Answer, Conflict, NotFound, objects, DeletionInv, TypeOK, ObjectsOK, ClientsOK, CopiesTrue, Objects
  <2> QED
    BY <2>1, <2>2, <2>3, <2>4 DEF DeletionInv, TypeOK
<1>8. ASSUME NEW c \in Clients, GetBeforeDelete(c) PROVE DeletionInv'
  <2>1. ObjectsOK'
    BY <1>8, SameTypes DEF DeletionInv, TypeOK, ClientsOK, GetBeforeDelete
  <2>2. ClientsOK'
    BY <1>8, SMTT(30) DEF GetBeforeDelete, Answer, DeletionInv, TypeOK, ClientsOK, ObjectsOK, Objects, Results, Calls
  <2>3. DeletersMarked'
    BY <1>8 DEF GetBeforeDelete, Answer, objects, DeletionInv, TypeOK, ObjectsOK, ClientsOK, DeletersMarked, CopiesTrue, Objects
  <2>4. CopiesTrue'
    BY <1>8 DEF GetBeforeDelete, Answer, objects, DeletionInv, TypeOK, ObjectsOK, ClientsOK, CopiesTrue, Objects
  <2> QED
    BY <2>1, <2>2, <2>3, <2>4 DEF DeletionInv, TypeOK
<1>9. ASSUME NEW c \in Clients, Delete(c) PROVE DeletionInv'
  <2>1. ObjectsOK'
    BY <1>9, DeleteTypes, SameTypes DEF DeletionInv, TypeOK, ClientsOK, Delete, OtherUID, NotFound
  <2>2. ClientsOK'
    BY <1>9, SMTT(30) DEF Delete, Answer, OtherUID, NotFound, DeletionInv, TypeOK, ClientsOK, ObjectsOK, Objects, Results, Calls
  <2>3. DeletersMarked'
    <3>1. CASE ApiDelete(c, key[c])
      BY <1>9, <3>1 DEF Delete, ApiDelete, Answer, DeletionInv, TypeOK, ObjectsOK, ClientsOK, DeletersMarked
    <3>2. CASE UNCHANGED objects
      BY <1>9, <3>2 DEF Delete, Answer, objects, DeletionInv, TypeOK, ClientsOK, DeletersMarked
    <3> QED
      BY <1>9, <3>1, <3>2 DEF Delete, OtherUID, NotFound
  <2>4. CopiesTrue'
    BY <1>9, SMTT(30) DEF Delete, ApiDelete, Answer, OtherUID, NotFound, objects, DeletionInv, TypeOK, ObjectsOK, ClientsOK, CopiesTrue, Objects
  <2> QED
    BY <2>1, <2>2, <2>3, <2>4 DEF DeletionInv, TypeOK
<1>10. ASSUME NEW c \in Clients, Crash(c) PROVE DeletionInv'
  <2>1. ObjectsOK'
    BY <1>10 DEF DeletionInv, TypeOK, ObjectsOK, Crash
  <2>2. ClientsOK'
    BY <1>10 DEF Crash, DeletionInv, TypeOK, ClientsOK, ObjectsOK, Objects, Results, Calls
  <2>3. DeletersMarked'
    BY <1>10 DEF Crash, DeletionInv, TypeOK, ObjectsOK, ClientsOK, DeletersMarked, CopiesTrue, Objects
  <2>4. CopiesTrue'
    BY <1>10 DEF Crash, DeletionInv, TypeOK, ObjectsOK, ClientsOK, CopiesTrue, Objects
  <2> QED
    BY <2>1, <2>2, <2>3, <2>4 DEF DeletionInv, TypeOK
<1> QED
  BY <1>1, <1>2, <1>3, <1>4, <1>5, <1>6, <1>7, <1>8, <1>9, <1>10 DEF Next

(* In every reachable state: a deletion under way, whose object is still   *)
(* there, has it marked.                                                   *)
THEOREM DeletionSafe == Spec => []DeletionInv
  BY InitDeletion, NextDeletion, PTL DEF Spec

-----------------------------------------------------------------------------
(* What the API's calls look like to the clients.                          *)

(* A call that changes no object changes nothing they see.                 *)
LEMMA SeenSame == UNCHANGED objects => UNCHANGED <<rowsSeen, currentSeen>>
  BY DEF objects, rowsSeen, currentSeen, Live

(* A creation of an object is the creation of the row.                     *)
LEMMA SeenCreate ==
  ASSUME ObjectsOK, NEW c \in Clients, NEW k \in Keys, NEW v \in Values, ApiCreate(c, k, v)
  PROVE  Store!Create(c, k, v)
<1>0. [val |-> v, deleted |-> FALSE] \in [val : Values, deleted : BOOLEAN]
  OBVIOUS
<1>1. [val |-> v, deleted |-> FALSE] # Absent
  BY <1>0, AbsentIsNoObject, Zenon
<1> QED
  BY <1>1, Zenon DEF ObjectsOK, ApiCreate, Store!Create, rowsSeen, currentSeen, Live

(* A read of a live object is a read of the row; of a marked one, nothing. *)
LEMMA SeenGet ==
  ASSUME ObjectsOK, NEW c \in Clients, NEW k \in Keys, ApiGet(c, k)
  PROVE  IF Live(k) THEN Store!Get(c, k) ELSE UNCHANGED <<rowsSeen, currentSeen>>
<1>1. CASE Live(k)
  <2>1. api[k].val # Absent
    BY <1>1, AbsentIsNoObject DEF ObjectsOK, Objects, Live
  <2> QED
    BY <1>1, <2>1, Zenon DEF ObjectsOK, ApiGet, Store!Get, rowsSeen, currentSeen, Live
<1>2. CASE ~Live(k)
  BY <1>2 DEF ObjectsOK, ApiGet, rowsSeen, currentSeen, Live
<1> QED
  BY <1>1, <1>2

(* A write of a live object is an update of the row, or its deletion when  *)
(* it sets the mark; a write that leaves a marked object marked, nothing.  *)
LEMMA SeenUpdate ==
  ASSUME ObjectsOK, NEW c \in Clients, NEW k \in Keys, NEW v \in Values, NEW d \in BOOLEAN,
         ApiUpdate(c, k, [val |-> v, deleted |-> d])
  PROVE  /\ Live(k) /\ ~d => Store!Update(c, k, v)
         /\ Live(k) /\ d => Store!Delete(c, k)
         /\ ~Live(k) /\ d => UNCHANGED <<rowsSeen, currentSeen>>
<1>0. [val |-> v, deleted |-> d] # Absent
  BY AbsentIsNoObject
<1>1. ASSUME Live(k) PROVE rowsSeen[k] # Absent /\ c \in currentSeen[k]
  BY <1>1, AbsentIsNoObject DEF ObjectsOK, Objects, Live, rowsSeen, currentSeen, ApiUpdate
<1>2. ASSUME Live(k), ~d PROVE Store!Update(c, k, v)
  BY <1>0, <1>1, <1>2, Zenon DEF ObjectsOK, ApiUpdate, Store!Update, rowsSeen, currentSeen, Live
<1>3. ASSUME Live(k), d PROVE Store!Delete(c, k)
  BY <1>0, <1>1, <1>3, Zenon DEF ObjectsOK, ApiUpdate, Store!Delete, rowsSeen, currentSeen, Live
<1>4. ASSUME ~Live(k), d PROVE UNCHANGED <<rowsSeen, currentSeen>>
  BY <1>0, <1>4 DEF ObjectsOK, ApiUpdate, rowsSeen, currentSeen, Live
<1> QED
  BY <1>2, <1>3, <1>4

(* The deletion of a marked object is not seen at all.                     *)
LEMMA SeenDelete ==
  ASSUME ObjectsOK, NEW c \in Clients, NEW k \in Keys, ApiDelete(c, k), ~Live(k)
  PROVE  UNCHANGED <<rowsSeen, currentSeen>>
  BY DEF ObjectsOK, ApiDelete, rowsSeen, currentSeen, Live

(* The empty API server is an empty store.                                 *)
LEMMA InitSeen == Init => Store!StoreInit
  BY DEF Init, Store!StoreInit, rowsSeen, currentSeen, Live

(* Every step of a client is a step of the store, or nothing.              *)
LEMMA NextSeen == DeletionInv /\ [Next]_vars => [Store!StoreNext]_<<rowsSeen, currentSeen>>
<1> SUFFICES ASSUME DeletionInv, [Next]_vars PROVE Store!StoreNext \/ UNCHANGED <<rowsSeen, currentSeen>>
  OBVIOUS
<1>0. ObjectsOK /\ ClientsOK
  BY DEF DeletionInv, TypeOK
<1>1. CASE UNCHANGED vars
  BY <1>1, SeenSame DEF vars
<1>2. ASSUME NEW c \in Clients, NEW k \in Keys, Get(c, k) \/ List(c, k)
      PROVE  Store!StoreNext \/ UNCHANGED <<rowsSeen, currentSeen>>
  BY <1>0, <1>2, SeenGet, SeenSame, Zenon DEF Get, List, NotFound, Store!StoreNext
<1>3. ASSUME NEW c \in Clients, NEW k \in Keys, NEW v \in Values, Create(c, k, v)
      PROVE  Store!StoreNext \/ UNCHANGED <<rowsSeen, currentSeen>>
  BY <1>0, <1>3, SeenCreate, SeenSame DEF Create, Store!StoreNext
<1>4. ASSUME NEW c \in Clients, NEW v \in Values, Update(c, v)
      PROVE  Store!StoreNext \/ UNCHANGED <<rowsSeen, currentSeen>>
  <2>1. CASE ApiUpdate(c, key[c], [val |-> v, deleted |-> marked[c]])
    <3>1. key[c] \in Keys /\ marked[c] \in BOOLEAN
      BY <1>0 DEF ClientsOK
    <3>2. ~Live(key[c]) => marked[c]
      BY <1>0, <1>4, <2>1 DEF DeletionInv, CopiesTrue, Update, Begin, ApiUpdate, Live
    <3> QED
      BY <1>0, <2>1, <3>1, <3>2, SeenUpdate DEF Store!StoreNext
  <2>2. CASE UNCHANGED objects
    BY <2>2, SeenSame
  <2> QED
    BY <1>4, <2>1, <2>2 DEF Update, Conflict, NotFound
<1>5. ASSUME NEW c \in Clients, BeginDeleteKVP(c) \/ GetBeforeDelete(c)
      PROVE  UNCHANGED <<rowsSeen, currentSeen>>
  BY <1>5, SeenSame DEF BeginDeleteKVP, GetBeforeDelete
<1>6. ASSUME NEW c \in Clients, Mark(c)
      PROVE  Store!StoreNext \/ UNCHANGED <<rowsSeen, currentSeen>>
  <2>1. CASE ApiUpdate(c, key[c], [val |-> api[key[c]].val, deleted |-> TRUE])
    <3>1. key[c] \in Keys /\ api[key[c]] \in Objects
      BY <1>0, <2>1 DEF ClientsOK, ObjectsOK, ApiUpdate
    <3>3. api[key[c]].val \in Values
      BY <3>1 DEF Objects
    <3>5. Store!Delete(c, key[c]) \/ UNCHANGED <<rowsSeen, currentSeen>>
      BY <1>0, <2>1, <3>1, <3>3, SeenUpdate, Zenon
    <3> QED
      BY <3>1, <3>5 DEF Store!StoreNext
  <2>2. CASE UNCHANGED objects
    BY <2>2, SeenSame
  <2> QED
    BY <1>6, <2>1, <2>2 DEF Mark, Conflict, NotFound
<1>7. ASSUME NEW c \in Clients, Delete(c)
      PROVE  UNCHANGED <<rowsSeen, currentSeen>>
  <2>1. CASE ApiDelete(c, key[c])
    <3>1. key[c] \in Keys /\ ~Live(key[c])
      BY <1>0, <1>7, <2>1 DEF DeletionInv, DeletersMarked, ClientsOK, Delete, ApiDelete, Live
    <3> QED
      BY <1>0, <2>1, <3>1, SeenDelete
  <2>2. CASE UNCHANGED objects
    BY <2>2, SeenSame
  <2> QED
    BY <1>7, <2>1, <2>2 DEF Delete, OtherUID, NotFound
<1>8. ASSUME NEW c \in Clients, Crash(c) PROVE Store!StoreNext
  <2>1. Store!Forget(c) /\ UNCHANGED rowsSeen
    BY <1>0, <1>8 DEF ObjectsOK, Crash, Store!Forget, rowsSeen, currentSeen, Live
  <2> QED
    BY <2>1 DEF Store!StoreNext
<1> QED
  BY <1>1, <1>2, <1>3, <1>4, <1>5, <1>6, <1>7, <1>8 DEF Next

(* The Kubernetes datastore keeps the promise of CASStore, on which the    *)
(* whole IPAM library rests: marking a row is its deletion, and everything *)
(* after it, by whichever client, changes nothing a client can see.        *)
THEOREM KubernetesImplementsCASStore == Spec => ImplementsCASStore
  BY InitDeletion, NextDeletion, InitSeen, NextSeen, PTL DEF Spec, ImplementsCASStore, Store!StoreSpec, Store!storeVars

(* A step never turns a marked object into a live one.                     *)
LEMMA StaysMarked ==
  ASSUME DeletionInv, [Next]_vars, NEW k \in Keys, api[k] # Absent, ~Live(k)
  PROVE  api'[k] = Absent \/ api'[k].deleted
<1>0. ObjectsOK /\ ClientsOK /\ api[k].deleted
  BY DEF DeletionInv, TypeOK, Live
<1>1. CASE UNCHANGED api
  BY <1>0, <1>1
<1>2. ASSUME NEW c \in Clients, NEW l \in Keys, NEW v \in Values, ApiCreate(c, l, v)
      PROVE  api'[k] = Absent \/ api'[k].deleted
  BY <1>0, <1>2 DEF ApiCreate, ObjectsOK
<1>3. ASSUME NEW c \in Clients, NEW v \in Values, Update(c, v)
      PROVE  api'[k] = Absent \/ api'[k].deleted
  <2>1. CASE ApiUpdate(c, key[c], [val |-> v, deleted |-> marked[c]])
    <3>1. key[c] = k => marked[c]
      BY <1>0, <1>3, <2>1 DEF DeletionInv, CopiesTrue, Update, Begin, ApiUpdate
    <3> QED
      BY <1>0, <2>1, <3>1 DEF ApiUpdate, ObjectsOK
  <2> QED
    BY <1>1, <1>3, <2>1 DEF Update, Conflict, NotFound, objects
<1>4. ASSUME NEW c \in Clients, Mark(c)
      PROVE  api'[k] = Absent \/ api'[k].deleted
  <2>1. CASE ApiUpdate(c, key[c], [val |-> api[key[c]].val, deleted |-> TRUE])
    <3>1. key[c] \in Keys /\ api[key[c]] \in Objects
      BY <1>0, <2>1 DEF ClientsOK, ObjectsOK, ApiUpdate
    <3> QED
      BY <1>0, <2>1, <3>1 DEF ApiUpdate, ObjectsOK
  <2> QED
    BY <1>1, <1>4, <2>1 DEF Mark, Conflict, NotFound, objects
<1>5. ASSUME NEW c \in Clients, ApiDelete(c, key[c])
      PROVE  api'[k] = Absent \/ api'[k].deleted
  BY <1>0, <1>5 DEF ApiDelete, ObjectsOK
<1> QED
  <2>1. ASSUME NEW c \in Clients, NEW l \in Keys, Get(c, l) \/ List(c, l) PROVE UNCHANGED api
    BY <2>1, Zenon DEF Get, List, ApiGet, NotFound, objects
  <2>2. ASSUME NEW c \in Clients, NEW l \in Keys, NEW v \in Values, Create(c, l, v)
        PROVE  api'[k] = Absent \/ api'[k].deleted
    BY <1>1, <1>2, <2>2 DEF Create, objects
  <2>3. ASSUME NEW c \in Clients, BeginDeleteKVP(c) \/ GetBeforeDelete(c) \/ Crash(c)
        PROVE  UNCHANGED api
    BY <2>3 DEF BeginDeleteKVP, GetBeforeDelete, Crash, objects
  <2>4. ASSUME NEW c \in Clients, Delete(c)
        PROVE  api'[k] = Absent \/ api'[k].deleted
    BY <1>1, <1>5, <2>4 DEF Delete, OtherUID, NotFound, objects
  <2>5. UNCHANGED vars => UNCHANGED api
    BY DEF vars, objects
  <2> QED
    BY <1>1, <1>3, <1>4, <2>1, <2>2, <2>3, <2>4, <2>5 DEF Next

(* A row that was marked never comes back to life: MarkedForGood.          *)
THEOREM MarkIsFinal == Spec => MarkedForGood
<1>1. DeletionInv /\ [Next]_vars
        => [\A k \in Keys : api[k] # Absent /\ ~Live(k) => api'[k] = Absent \/ api'[k].deleted]_vars
  BY StaysMarked
<1> QED
  BY <1>1, InitDeletion, NextDeletion, PTL DEF Spec, MarkedForGood

=============================================================================
