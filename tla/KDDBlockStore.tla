--------------------------- MODULE KDDBlockStore ----------------------------
(***************************************************************************)
(* The rows of the IPAM in the Kubernetes datastore                        *)
(* (libcalico-go/lib/backend/k8s/resources/ipam_block.go; the clients for  *)
(* block affinities and handles do the same).                              *)
(*                                                                         *)
(* The Kubernetes API compares the revision of an update, but a delete can *)
(* only name the UID of the object.  DeleteKVP therefore marks the row as  *)
(* deleted with a compare-and-swap update first, and deletes the object    *)
(* second; a Get that meets a marked row finishes the deletion before it   *)
(* answers that there is no such row.                                      *)
(***************************************************************************)
EXTENDS Naturals, FiniteSets

CONSTANTS Keys, Values, Clients, Absent

ASSUME AbsentIsNoObject == Absent \notin [val : Values, deleted : BOOLEAN] /\ Absent \notin Values

Objects == [val : Values, deleted : BOOLEAN]

VARIABLES
  api,          \* the Kubernetes API: key -> object, or Absent
  sameRev,      \* key -> the clients whose copy has the object's resourceVersion
  sameUID,      \* key -> the clients whose copy has the object's UID
  pc,           \* client -> the API call it makes next
  call,         \* client -> the operation that makes it
  key, marked,  \* client -> the key it works on; its copy has Deleted set
  res           \* client -> the answer to its last operation

objects == <<api, sameRev, sameUID>>
vars == <<objects, pc, call, key, marked, res>>

Calls == {"none", "Get", "DeleteKVP"}
Results == {"none", "ok", "exists", "missing", "conflict"}

ObjectsOK ==
  /\ api \in [Keys -> Objects \cup {Absent}]
  /\ sameRev \in [Keys -> SUBSET Clients] /\ sameUID \in [Keys -> SUBSET Clients]
  /\ \A k \in Keys : sameRev[k] \subseteq sameUID[k] /\ (api[k] = Absent => sameUID[k] = {})

ClientsOK ==
  /\ pc \in [Clients -> {"idle", "mark", "get", "delete"}] /\ call \in [Clients -> Calls]
  /\ key \in [Clients -> Keys] /\ res \in [Clients -> Results]
  /\ marked \in [Clients -> BOOLEAN]

(* Every variable has its type, and only a client with the object's UID    *)
(* can have its revision.                                                  *)
TypeOK == ObjectsOK /\ ClientsOK

Init ==
  /\ api = [k \in Keys |-> Absent]
  /\ sameRev = [k \in Keys |-> {}] /\ sameUID = [k \in Keys |-> {}]
  /\ pc = [c \in Clients |-> "idle"] /\ call = [c \in Clients |-> "none"]
  /\ key \in [Clients -> Keys]
  /\ res = [c \in Clients |-> "none"]
  /\ marked = [c \in Clients |-> FALSE]

Live(k) == api[k] # Absent /\ ~api[k].deleted

-----------------------------------------------------------------------------
(* The Kubernetes API: what customResourceClient's calls do to an object.  *)

ApiCreate(c, k, v) ==
  /\ api[k] = Absent
  /\ api' = [api EXCEPT ![k] = [val |-> v, deleted |-> FALSE]]
  /\ sameRev' = [sameRev EXCEPT ![k] = {c}] /\ sameUID' = [sameUID EXCEPT ![k] = {c}]

ApiGet(c, k) ==
  /\ api[k] # Absent
  /\ sameRev' = [sameRev EXCEPT ![k] = @ \cup {c}] /\ sameUID' = [sameUID EXCEPT ![k] = @ \cup {c}]
  /\ UNCHANGED api

ApiUpdate(c, k, o) ==
  /\ api[k] # Absent /\ c \in sameRev[k]
  /\ api' = [api EXCEPT ![k] = o]
  /\ sameRev' = [sameRev EXCEPT ![k] = {c}]
  /\ UNCHANGED sameUID

\* Mutant: the delete does not name the UID.
ApiDeleteByName(c, k) ==
  /\ api[k] # Absent
  /\ api' = [api EXCEPT ![k] = Absent]
  /\ sameRev' = [sameRev EXCEPT ![k] = {}] /\ sameUID' = [sameUID EXCEPT ![k] = {}]

ApiDelete(c, k) ==
  /\ api[k] # Absent /\ c \in sameUID[k]
  /\ api' = [api EXCEPT ![k] = Absent]
  /\ sameRev' = [sameRev EXCEPT ![k] = {}] /\ sameUID' = [sameUID EXCEPT ![k] = {}]

NotFound(k) == api[k] = Absent /\ UNCHANGED objects
Conflict(c, k) == api[k] # Absent /\ c \notin sameRev[k] /\ UNCHANGED objects
OtherUID(c, k) == api[k] # Absent /\ c \notin sameUID[k] /\ UNCHANGED objects

-----------------------------------------------------------------------------
(* ipamBlockClient.                                                        *)

Answer(c, r) ==
  /\ pc' = [pc EXCEPT ![c] = "idle"] /\ call' = [call EXCEPT ![c] = "none"]
  /\ res' = [res EXCEPT ![c] = r]

(* A new operation of c on k; m says whether the copy it ends with, if     *)
(* any, has Deleted set.                                                   *)
Begin(c, k, m) ==
  /\ pc[c] = "idle"
  /\ key' = [key EXCEPT ![c] = k] /\ marked' = [marked EXCEPT ![c] = m]

Create(c, k, v) ==
  /\ Begin(c, k, FALSE)
  /\ \/ ApiCreate(c, k, v) /\ Answer(c, "ok")
     \/ api[k] # Absent /\ UNCHANGED objects /\ Answer(c, "exists")

(* A marked row is not shown: the client goes on to finish its deletion.   *)
Get(c, k) ==
  /\ Begin(c, k, FALSE)
  /\ \/ ApiGet(c, k) /\ Live(k) /\ Answer(c, "ok")
     \/ /\ ApiGet(c, k) /\ ~Live(k)
        /\ pc' = [pc EXCEPT ![c] = "mark"] /\ call' = [call EXCEPT ![c] = "Get"] /\ UNCHANGED res
     \/ NotFound(k) /\ Answer(c, "missing")

(* List, and Watch, show marked rows too.                                  *)
List(c, k) ==
  /\ api[k] # Absent /\ Begin(c, k, api[k].deleted)
  /\ ApiGet(c, k) /\ Answer(c, "ok")

\* Mutant: a write of a listed copy clears Deleted.
UpdateUnmarks(c, v) ==
  /\ res[c] = "ok" /\ Begin(c, key[c], FALSE)
  /\ \/ ApiUpdate(c, key[c], [val |-> v, deleted |-> FALSE]) /\ Answer(c, "ok")
     \/ Conflict(c, key[c]) /\ Answer(c, "conflict")
     \/ NotFound(key[c]) /\ Answer(c, "missing")

(* With a copy the client has got from an earlier call; Deleted is written *)
(* back as it was read.                                                    *)
Update(c, v) ==
  /\ res[c] = "ok" /\ Begin(c, key[c], marked[c])
  /\ \/ ApiUpdate(c, key[c], [val |-> v, deleted |-> marked[c]]) /\ Answer(c, "ok")
     \/ Conflict(c, key[c]) /\ Answer(c, "conflict")
     \/ NotFound(key[c]) /\ Answer(c, "missing")

BeginDeleteKVP(c) ==
  /\ res[c] = "ok" /\ Begin(c, key[c], marked[c])
  /\ pc' = [pc EXCEPT ![c] = "mark"] /\ call' = [call EXCEPT ![c] = "DeleteKVP"]
  /\ UNCHANGED <<objects, res>>

(* First half of DeleteKVP.  What else it writes is never read: the row    *)
(* keeps its value here.                                                   *)
Mark(c) ==
  /\ pc[c] = "mark"
  /\ \/ /\ ApiUpdate(c, key[c], [val |-> api[key[c]].val, deleted |-> TRUE])
        /\ pc' = [pc EXCEPT ![c] = "get"] /\ UNCHANGED <<call, res>>
     \/ Conflict(c, key[c]) /\ Answer(c, "conflict")
     \/ NotFound(key[c]) /\ Answer(c, "missing")
  /\ UNCHANGED <<key, marked>>

(* Second half: customResourceClient.Delete reads the object, whatever its *)
(* state, and then deletes the one with the UID of the copy.               *)
GetBeforeDelete(c) ==
  /\ pc[c] = "get"
  /\ \/ api[key[c]] # Absent /\ pc' = [pc EXCEPT ![c] = "delete"] /\ UNCHANGED <<call, res>>
     \/ api[key[c]] = Absent /\ Answer(c, "missing")
  /\ UNCHANGED <<objects, key, marked>>

Delete(c) ==
  /\ pc[c] = "delete"
  /\ \/ ApiDelete(c, key[c]) /\ Answer(c, IF call[c] = "Get" THEN "missing" ELSE "ok")
     \/ OtherUID(c, key[c]) /\ Answer(c, "conflict")
     \/ NotFound(key[c]) /\ Answer(c, "missing")
  /\ UNCHANGED <<key, marked>>

(* A client may die at any time, and start again without any copy.         *)
Crash(c) ==
  /\ pc' = [pc EXCEPT ![c] = "idle"] /\ call' = [call EXCEPT ![c] = "none"]
  /\ res' = [res EXCEPT ![c] = "none"]
  /\ sameRev' = [k \in Keys |-> sameRev[k] \ {c}] /\ sameUID' = [k \in Keys |-> sameUID[k] \ {c}]
  /\ UNCHANGED <<api, key, marked>>

Next ==
  \E c \in Clients :
    \/ \E k \in Keys : Get(c, k) \/ List(c, k) \/ \E v \in Values : Create(c, k, v)
    \/ \E v \in Values : Update(c, v)
    \/ BeginDeleteKVP(c) \/ Mark(c) \/ GetBeforeDelete(c) \/ Delete(c) \/ Crash(c)

Spec == Init /\ [][Next]_vars

-----------------------------------------------------------------------------
(* Properties.                                                             *)

(* A client between the two halves of a deletion, whose object is still    *)
(* there, will delete a marked row.                                        *)
DeletersMarked ==
  \A c \in Clients :
    pc[c] \in {"get", "delete"} /\ c \in sameUID[key[c]] => api[key[c]].deleted

(* A copy that is good for a write says whether the row is marked.         *)
CopiesTrue ==
  \A c \in Clients :
    pc[c] = "idle" /\ res[c] = "ok" /\ c \in sameRev[key[c]] => marked[c] = api[key[c]].deleted

(* Why the second half of DeleteKVP, which compares only the UID, cannot   *)
(* remove a row that is in use: whoever holds the UID of an object it      *)
(* marked finds the object marked still, because every copy that could be  *)
(* written over it carries the mark.                                       *)
DeletionInv == TypeOK /\ DeletersMarked /\ CopiesTrue

rowsSeen == [k \in Keys |-> IF Live(k) THEN api[k].val ELSE Absent]
currentSeen == [k \in Keys |-> IF Live(k) THEN sameRev[k] ELSE {}]

Store == INSTANCE CASStore WITH rows <- rowsSeen, current <- currentSeen

(* The two halves of DeleteKVP, the Gets that help, and the clients that   *)
(* die between them look to every client like the store with               *)
(* compare-and-delete that the IPAM library was written for: the deletion  *)
(* happens when the row is marked, and the second half never removes a row *)
(* created since.                                                          *)
ImplementsCASStore == Store!StoreSpec

(* A marked row never comes back: it stays marked, whoever writes it with  *)
(* a copy from a list, until the object is removed.                        *)
MarkedForGood ==
  [][\A k \in Keys : api[k] # Absent /\ ~Live(k) => api'[k] = Absent \/ api'[k].deleted]_vars

=============================================================================
