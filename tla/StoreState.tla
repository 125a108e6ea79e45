------------------------------ MODULE StoreState ------------------------------
(***************************************************************************)
(* The state that both implementations of Store (internal/store) have: the *)
(* content and where each of the clients that use transactions is.         *)
(***************************************************************************)
CONSTANTS Clients, Keys, Values, Unset, Kept

ASSUME MarkersAssumption ==
  /\ Unset \notin Values
  /\ Kept \notin Values
  /\ Unset # Kept

VARIABLES
  data,  \* the content of the store
  pc,    \* the transaction of each client: idle, copy, tx, committed
  writes \* history: what the transaction of each client has written

KV == INSTANCE KVStore

(* copy: the lock of the transactions is held, the content not yet copied.  *)
(* committed: the deferred Rollback is still to come.                       *)
Pcs == {"idle", "copy", "tx", "committed"}

Goto(c, s) == pc' = [pc EXCEPT ![c] = s]
Open(c) == pc[c] = "tx"
Forget(c) == writes' = [writes EXCEPT ![c] = KV!NoWrites]

(* A Put writes a value, a Delete writes Unset.                             *)
Written == Values \cup {Unset}
=============================================================================
