------------------------------ MODULE CASStore ------------------------------
(***************************************************************************)
(* What every client of the datastore relies on: rows that are created if  *)
(* absent, read, and updated or deleted by compare-and-swap on the row's   *)
(* revision (libcalico-go/lib/backend/etcdv3/etcdv3.go; the Kubernetes     *)
(* backend promises the same, see KDDBlockStore).                          *)
(*                                                                         *)
(* A revision is only ever compared for equality with the revision the     *)
(* row has now, so instead of numbers the module keeps, for each row, the  *)
(* set of clients whose last copy of it is at the current revision.  A     *)
(* read or a successful write puts the client into the set; a write        *)
(* throws everybody else out of it.                                        *)
(***************************************************************************)
CONSTANTS Keys, Values, Clients, Absent

VARIABLES rows,     \* the datastore: key -> value, or Absent
          current   \* key -> the clients whose copy is at the row's ModRevision

storeVars == <<rows, current>>

StoreTypeOK ==
  /\ rows \in [Keys -> Values \cup {Absent}]
  /\ current \in [Keys -> SUBSET Clients]

StoreInit ==
  /\ rows = [k \in Keys |-> Absent]
  /\ current = [k \in Keys |-> {}]

-----------------------------------------------------------------------------
(* Successful operations.                                                  *)

Create(c, k, v) ==
  /\ rows[k] = Absent
  /\ rows' = [rows EXCEPT ![k] = v]
  /\ current' = [current EXCEPT ![k] = {c}]

Get(c, k) ==
  /\ rows[k] # Absent
  /\ current' = [current EXCEPT ![k] = @ \cup {c}]
  /\ UNCHANGED rows

Update(c, k, v) ==
  /\ rows[k] # Absent
  /\ c \in current[k]
  /\ rows' = [rows EXCEPT ![k] = v]
  /\ current' = [current EXCEPT ![k] = {c}]

Delete(c, k) ==
  /\ rows[k] # Absent
  /\ c \in current[k]
  /\ rows' = [rows EXCEPT ![k] = Absent]
  /\ current' = [current EXCEPT ![k] = {}]

-----------------------------------------------------------------------------
(* Failed operations: the error tells the client which of the two it was.  *)

AlreadyExists(k) ==
  /\ rows[k] # Absent
  /\ UNCHANGED storeVars

DoesNotExist(k) ==
  /\ rows[k] = Absent
  /\ UNCHANGED storeVars

UpdateConflict(c, k) ==
  /\ rows[k] # Absent
  /\ c \notin current[k]
  /\ UNCHANGED storeVars

(* A client that returns, or dies, forgets every copy it holds.            *)
Forget(c) == current' = [k \in Keys |-> current[k] \ {c}]

-----------------------------------------------------------------------------
(* What a client may see of a store that keeps the promise.                *)

StoreNext ==
  \E c \in Clients :
    \/ Forget(c) /\ UNCHANGED rows
    \/ \E k \in Keys :
         \/ Get(c, k) \/ Delete(c, k)
         \/ \E v \in Values : Create(c, k, v) \/ Update(c, k, v)

StoreSpec == StoreInit /\ [][StoreNext]_storeVars

=============================================================================
