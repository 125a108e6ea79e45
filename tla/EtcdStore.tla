------------------------------ MODULE EtcdStore ------------------------------
(***************************************************************************)
(* The store in etcd (internal/store/etcdstore.go).  A transaction collects *)
(* the puts and the deletes in two buffers and sends them as one etcd      *)
(* transaction.  Its lock is a key of etcd that lives as long as the lease *)
(* of the client's session: when the lease expires another client gets the *)
(* lock, and the commit of the first one does not notice.  Put and Delete  *)
(* of the store take no lock at all.                                       *)
(***************************************************************************)
EXTENDS StoreState

VARIABLES
  lock,   \* the client whose lock key is in etcd, as a set
  lost,   \* the clients whose lease expired during their transaction
  insert, \* dataInsert of each client: values, Kept where there is none
  delete  \* dataDelete of each client

etcdVars == <<lock, lost, insert, delete>>

(* What the commit of client c sends: a deleted key that was put again is   *)
(* a put.                                                                   *)
EtcdOps(c) ==
  [k \in Keys |-> IF insert[c][k] = Kept /\ k \in delete[c]
                    THEN Unset ELSE insert[c][k]]

(* Every variable has a value of its type.                                  *)
EtcdTypeOK ==
  /\ data \in KV!Content
  /\ pc \in [Clients -> Pcs \ {"copy"}]
  /\ writes \in [Clients -> KV!Buffers]
  /\ lock \subseteq Clients
  /\ lost \subseteq Clients
  /\ insert \in [Clients -> [Keys -> Values \cup {Kept}]]
  /\ delete \in [Clients -> SUBSET Keys]

EtcdInit ==
  /\ data = KV!Empty
  /\ pc = [c \in Clients |-> "idle"]
  /\ writes = [c \in Clients |-> KV!NoWrites]
  /\ lock = {}
  /\ lost = {}
  /\ insert = [c \in Clients |-> KV!NoWrites]
  /\ delete = [c \in Clients |-> {}]

-----------------------------------------------------------------------------
(* BeginTransaction: a session, its lock, empty buffers.                    *)
EtcdBegin(c) ==
  /\ pc[c] = "idle"
  /\ lock = {}
  /\ lock' = {c}
  /\ Goto(c, "tx")
  /\ UNCHANGED <<data, writes, lost, insert, delete>>

EtcdTxPut(c, k, v) ==
  /\ Open(c)
  /\ insert' = [insert EXCEPT ![c][k] = v]
  /\ writes' = [writes EXCEPT ![c][k] = v]
  /\ UNCHANGED <<data, pc, lock, lost, delete>>

EtcdTxDelete(c, k) ==
  /\ Open(c)
  /\ insert' = [insert EXCEPT ![c][k] = Kept]
  /\ delete' = [delete EXCEPT ![c] = @ \cup {k}]
  /\ writes' = [writes EXCEPT ![c][k] = Unset]
  /\ UNCHANGED <<data, pc, lock, lost>>

(* Mutant: whatever lock there is, is released.                             *)
ReleaseAny(c) ==
  /\ lock' = {}
  /\ lost' = lost \ {c}
  /\ insert' = [insert EXCEPT ![c] = KV!NoWrites]
  /\ delete' = [delete EXCEPT ![c] = {}]
  /\ Forget(c)

(* The session is closed and the lock key deleted: a lock that another      *)
(* client has got in the meantime is under another key.                     *)
Release(c) ==
  /\ lock' = lock \ {c}
  /\ lost' = lost \ {c}
  /\ insert' = [insert EXCEPT ![c] = KV!NoWrites]
  /\ delete' = [delete EXCEPT ![c] = {}]
  /\ Forget(c)

(* Commit: the etcd transaction, then the release of the lock.              *)
EtcdCommit(c) ==
  /\ Open(c)
  /\ data' = KV!Apply(data, EtcdOps(c))
  /\ Release(c)
  /\ Goto(c, "committed")

(* The etcd transaction takes effect and its answer is lost: Commit returns *)
(* an error, and the transaction stays open.                                *)
EtcdCommitUnanswered(c) ==
  /\ Open(c)
  /\ data' = KV!Apply(data, EtcdOps(c))
  /\ UNCHANGED <<pc, writes, lock, lost, insert, delete>>

(* Rollback: the deferred one after a commit does nothing.                  *)
EtcdRollback(c) ==
  /\ pc[c] \in {"tx", "committed"}
  /\ IF Open(c) THEN Release(c) ELSE UNCHANGED <<writes, lock, lost, insert, delete>>
  /\ Goto(c, "idle")
  /\ UNCHANGED data

(* Put and Delete of the store: one request to etcd, with no lock.          *)
EtcdPlainWrite(k, v) ==
  /\ data' = [data EXCEPT ![k] = v]
  /\ UNCHANGED <<pc, writes, lock, lost, insert, delete>>

(* The lease of the session of c expires, and etcd removes its lock key.    *)
LeaseExpires(c) ==
  /\ c \in lock
  /\ lock' = lock \ {c}
  /\ lost' = lost \cup {c}
  /\ UNCHANGED <<data, pc, writes, insert, delete>>

-----------------------------------------------------------------------------
(* Get and Iterator of the store and of a transaction.  The iterator of a   *)
(* transaction names a key twice when it is in the store and put again.     *)
EtcdIterator == {k \in Keys : data[k] # Unset}
EtcdTxGet(c, k) ==
  IF insert[c][k] # Kept THEN insert[c][k]
  ELSE IF k \in delete[c] THEN Unset ELSE data[k]
EtcdTxIterator(c) ==
  {k \in EtcdIterator : k \notin delete[c]} \cup {k \in Keys : insert[c][k] # Kept}

EtcdClientStep(c) ==
  \/ EtcdBegin(c)
  \/ \E k \in Keys, v \in Values : EtcdTxPut(c, k, v)
  \/ \E k \in Keys : EtcdTxDelete(c, k)
  \/ EtcdCommit(c)
  \/ EtcdCommitUnanswered(c)
  \/ EtcdRollback(c)
  \/ LeaseExpires(c)

EtcdNext ==
  \/ \E c \in Clients : EtcdClientStep(c)
  \/ \E k \in Keys, v \in Written : EtcdPlainWrite(k, v)
=============================================================================
