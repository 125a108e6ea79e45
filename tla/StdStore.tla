------------------------------- MODULE StdStore -------------------------------
(***************************************************************************)
(* The in-memory store (internal/store/stdstore.go).  A transaction works  *)
(* on a copy of the whole content, and its commit replaces the content by  *)
(* that copy: only the mutex txmut, held from begin to end, keeps a commit *)
(* from undoing another one.  Put and Delete of the store are transactions *)
(* of one write.  The mutex mut guards the map itself; Transfer holds it   *)
(* while it writes to another store, and keeps it when such a write fails. *)
(***************************************************************************)
EXTENDS StoreState

VARIABLES
  txmut,    \* the set of clients that hold txmut
  copy,     \* stdTransaction.data of each client
  transfer, \* Transfer: idle, running (mut is held), done or failed
  todo,     \* the keys Transfer has not copied yet
  target    \* the content of the store Transfer writes to

stdVars == <<txmut, copy, transfer, todo, target>>

(* Every variable has a value of its type.                                  *)
StdTypeOK ==
  /\ data \in KV!Content
  /\ pc \in [Clients -> Pcs]
  /\ txmut \subseteq Clients
  /\ copy \in [Clients -> KV!Content]
  /\ writes \in [Clients -> KV!Buffers]
  /\ transfer \in {"idle", "running", "done", "failed"}
  /\ todo \subseteq Keys
  /\ target \in KV!Content

StdInit ==
  /\ data = KV!Empty
  /\ pc = [c \in Clients |-> "idle"]
  /\ txmut = {}
  /\ copy = [c \in Clients |-> KV!Empty]
  /\ writes = [c \in Clients |-> KV!NoWrites]
  /\ transfer = "idle"
  /\ todo = {}
  /\ target = KV!Empty

(* mut can be locked: only Transfer keeps it from one step to the next.     *)
MutFree == transfer \in {"idle", "done"}

-----------------------------------------------------------------------------
(* Mutant: a transaction begins without the lock of the transactions.       *)
StdBeginUnlocked(c) ==
  /\ pc[c] = "idle"
  /\ txmut' = txmut \cup {c}
  /\ Goto(c, "copy")
  /\ UNCHANGED <<data, copy, writes, transfer, todo, target>>

(* BeginTransaction locks txmut ...                                         *)
StdBegin(c) ==
  /\ pc[c] = "idle"
  /\ txmut = {}
  /\ txmut' = {c}
  /\ Goto(c, "copy")
  /\ UNCHANGED <<data, copy, writes, transfer, todo, target>>

(* ... and copies the content under mut.                                    *)
StdCopy(c) ==
  /\ pc[c] = "copy"
  /\ MutFree
  /\ copy' = [copy EXCEPT ![c] = data]
  /\ Goto(c, "tx")
  /\ UNCHANGED <<data, txmut, writes, transfer, todo, target>>

(* Put and Delete of a transaction.                                         *)
StdWrite(c, k, v) ==
  /\ Open(c)
  /\ copy' = [copy EXCEPT ![c][k] = v]
  /\ writes' = [writes EXCEPT ![c][k] = v]
  /\ UNCHANGED <<data, pc, txmut, transfer, todo, target>>

(* The copy of a transaction that has ended is never looked at again.       *)
End(c) ==
  /\ copy' = [copy EXCEPT ![c] = KV!Empty]
  /\ Forget(c)

(* Commit: the copy becomes the content, txmut is released, and the         *)
(* transaction forgets its store.                                           *)
StdCommit(c) ==
  /\ Open(c)
  /\ MutFree
  /\ data' = copy[c]
  /\ End(c)
  /\ txmut' = {}
  /\ Goto(c, "committed")
  /\ UNCHANGED <<transfer, todo, target>>

(* Mutant: Rollback unlocks txmut after a commit, too.                      *)
StdRollbackAlways(c) ==
  /\ pc[c] \in {"tx", "committed"}
  /\ End(c)
  /\ txmut' = {}
  /\ Goto(c, "idle")
  /\ UNCHANGED <<data, transfer, todo, target>>

(* Rollback of an open transaction releases txmut, whoever holds it; the    *)
(* deferred one after a commit finds no store and does nothing.             *)
StdRollback(c) ==
  /\ pc[c] \in {"tx", "committed"}
  /\ End(c)
  /\ txmut' = IF Open(c) THEN {} ELSE txmut
  /\ Goto(c, "idle")
  /\ UNCHANGED <<data, transfer, todo, target>>

(* Get and Iterator of the store and of a transaction.                      *)
StdIterator == {k \in Keys : data[k] # Unset}
StdTxGet(c, k) == copy[c][k]
StdTxIterator(c) == {k \in Keys : copy[c][k] # Unset}

-----------------------------------------------------------------------------
(* Transfer locks mut, copies key after key, and unlocks it at the end.     *)
TransferBegins ==
  /\ transfer = "idle"
  /\ transfer' = "running"
  /\ todo' = StdIterator
  /\ UNCHANGED <<data, pc, txmut, copy, writes, target>>

TransferKey(k) ==
  /\ transfer = "running"
  /\ k \in todo
  /\ target' = [target EXCEPT ![k] = data[k]]
  /\ todo' = todo \ {k}
  /\ UNCHANGED <<data, pc, txmut, copy, writes, transfer>>

(* A Put to the other store fails: Transfer returns and mut stays locked.   *)
TransferFails ==
  /\ transfer = "running"
  /\ todo # {}
  /\ transfer' = "failed"
  /\ UNCHANGED <<data, pc, txmut, copy, writes, todo, target>>

TransferEnds ==
  /\ transfer = "running"
  /\ todo = {}
  /\ transfer' = "done"
  /\ UNCHANGED <<data, pc, txmut, copy, writes, todo, target>>

TransferStep ==
  \/ TransferBegins
  \/ \E k \in Keys : TransferKey(k)
  \/ TransferFails
  \/ TransferEnds

StdClientStep(c) ==
  \/ StdBegin(c)
  \/ StdCopy(c)
  \/ \E k \in Keys, v \in Written : StdWrite(c, k, v)
  \/ StdCommit(c)
  \/ StdRollback(c)

StdNext == TransferStep \/ \E c \in Clients : StdClientStep(c)
=============================================================================
