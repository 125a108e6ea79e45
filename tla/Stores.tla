-------------------------------- MODULE Stores --------------------------------
(***************************************************************************)
(* A program uses one of the two stores (internal/store) through the       *)
(* interface Store, from several goroutines or processes at once, and      *)
(* lists a family of keys with GetAllPublicKeys, GetAllChallenges or       *)
(* GetAllKeys (internal/storewrapper/storewrapper.go): the keys with the   *)
(* prefix of the family first, then one Get for each of them.              *)
(***************************************************************************)
EXTENDS StdStore, EtcdStore

CONSTANT Listed \* the keys with the prefix of the family

ASSUME ListedAssumption == Listed \subseteq Keys

VARIABLES
  kind,            \* the implementation in use: std or etcd
  reader,          \* the listing: idle, listing, done, failed or panicked
  pending, result, \* the keys it has still to get, and what it has got
  steady, shown    \* history: Listed keys that were set all along, and the
                   \* keys with their values that were set at some time

readerVars == <<reader, pending, result>>
vars == <<data, pc, writes, stdVars, etcdVars, kind, readerVars, steady, shown>>

Pairs(d) == {<<k, d[k]>> : k \in {k \in Keys : d[k] # Unset}}
StoreIterator == IF kind = "std" THEN StdIterator ELSE EtcdIterator
TxGet(c, k) == IF kind = "std" THEN StdTxGet(c, k) ELSE EtcdTxGet(c, k)
TxIterator(c) == IF kind = "std" THEN StdTxIterator(c) ELSE EtcdTxIterator(c)

Init ==
  /\ kind \in {"std", "etcd"}
  /\ StdInit
  /\ EtcdInit
  /\ reader = "idle"
  /\ pending = {}
  /\ result = KV!Empty
  /\ steady = {}
  /\ shown = {}

-----------------------------------------------------------------------------
(* A request to the store returns.                                          *)
Reachable == kind = "std" => MutFree

ListKeys ==
  /\ reader = "idle"
  /\ Reachable
  /\ reader' = "listing"
  /\ pending' = StoreIterator \cap Listed
  /\ steady' = StoreIterator \cap Listed
  /\ shown' = Pairs(data)
  /\ UNCHANGED <<data, pc, writes, stdVars, etcdVars, kind, result>>

(* Mutant: a key that is gone is listed with no value.                      *)
ListGetGone(k) ==
  /\ reader = "listing"
  /\ k \in pending
  /\ Reachable
  /\ result' = [result EXCEPT ![k] = data[k]]
  /\ pending' = IF data[k] = Unset THEN {} ELSE pending \ {k}
  /\ UNCHANGED <<data, pc, writes, stdVars, etcdVars, kind, reader, steady, shown>>

(* The Get of one key: when the key is gone the whole listing fails.        *)
ListGet(k) ==
  /\ reader = "listing"
  /\ k \in pending
  /\ Reachable
  /\ IF data[k] = Unset
       THEN reader' = "failed" /\ UNCHANGED <<pending, result>>
       ELSE /\ result' = [result EXCEPT ![k] = data[k]]
            /\ pending' = pending \ {k}
            /\ UNCHANGED reader
  /\ UNCHANGED <<data, pc, writes, stdVars, etcdVars, kind, steady, shown>>

ListDone ==
  /\ reader = "listing"
  /\ pending = {}
  /\ reader' = "done"
  /\ UNCHANGED <<data, pc, writes, stdVars, etcdVars, kind, pending, result, steady, shown>>

(* etcd cannot be reached.  Get returns the error; Iterator reads the       *)
(* answer it has not got before it looks at the error.                      *)
ListError ==
  /\ kind = "etcd"
  /\ \/ reader = "idle" /\ reader' = "panicked"
     \/ reader = "listing" /\ pending # {} /\ reader' = "failed"
  /\ UNCHANGED <<data, pc, writes, stdVars, etcdVars, kind, pending, result, steady, shown>>

ReaderStep == ListKeys \/ (\E k \in Keys : ListGet(k)) \/ ListDone \/ ListError

(* A step of the store in use; the history follows its content.             *)
StoreStep ==
  /\ \/ kind = "std" /\ StdNext /\ UNCHANGED etcdVars
     \/ kind = "etcd" /\ EtcdNext /\ UNCHANGED stdVars
  /\ IF reader = "listing"
       THEN /\ steady' = {k \in steady : data'[k] # Unset}
            /\ shown' = shown \cup Pairs(data')
       ELSE UNCHANGED <<steady, shown>>
  /\ UNCHANGED <<kind, readerVars>>

Next == StoreStep \/ ReaderStep

Spec == Init /\ [][Next]_vars

-----------------------------------------------------------------------------
(* An open transaction of either store reads the content as it is now under *)
(* its own writes (Get of stdTransaction and of EtcdTransaction), and its   *)
(* iterator names exactly the keys that its Get finds.                      *)
TxReads ==
  \A c \in Clients : Open(c) =>
    /\ \A k \in Keys : TxGet(c, k) =
         (IF writes[c][k] = Kept THEN data[k] ELSE writes[c][k])
    /\ TxIterator(c) = {k \in Keys : TxGet(c, k) # Unset}

(* A transaction of the in-memory store is open only while its client, and  *)
(* nobody else, holds txmut, and its copy is the current content of the     *)
(* store under its own writes.  This is what makes replacing the whole      *)
(* content by the copy a correct commit.  A Transfer has written, of the    *)
(* content as it still is, the keys it is done with.                        *)
StdInv ==
  kind = "std" =>
    /\ StdTypeOK
    /\ \A c \in Clients : pc[c] \in {"copy", "tx"} <=> txmut = {c}
    /\ \A c \in Clients : Open(c) => copy[c] = KV!Apply(data, writes[c])
    /\ \A c \in Clients : ~Open(c) => writes[c] = KV!NoWrites
    /\ TxReads
    /\ transfer \in {"running", "failed"} =>
         \A k \in Keys : k \notin todo => target[k] = data[k]

(* Two transactions on etcd are open at once only if the lease of one of    *)
(* them has expired; a transaction whose lease lives holds the lock.  The   *)
(* two buffers together are what the client asked to write.                 *)
EtcdInv ==
  kind = "etcd" =>
    /\ EtcdTypeOK
    /\ \A c \in Clients : (Open(c) /\ c \notin lost) <=> lock = {c}
    /\ \A c \in lost : Open(c)
    /\ \A c, d \in Clients : (Open(c) /\ Open(d) /\ c # d) => (c \in lost \/ d \in lost)
    /\ \A c \in Clients : EtcdOps(c) = writes[c]
    /\ \A c \in Clients : ~Open(c) => writes[c] = KV!NoWrites
    /\ TxReads

(* Each store implements KVStore: a commit (commit in stdstore.go, Commit   *)
(* in etcdstore.go) applies exactly the writes of its transaction to the    *)
(* content at that time, and undoes no other write, whatever the other      *)
(* clients do.  Every write of the in-memory store belongs to a transaction. *)
Implements ==
  KV!Init /\ [][IF kind = "std" THEN KV!TxNext ELSE KV!Next]_<<data, writes>>

(* A listing (GetAllPublicKeys, GetAllChallenges) that succeeds has every   *)
(* key that was set all along, with a value it had at some time of the      *)
(* listing; it fails only for a key deleted under it or an error of etcd.   *)
ListingFaithful ==
  /\ reader = "done" =>
       /\ \A k \in steady : result[k] # Unset
       /\ \A k \in Keys : result[k] # Unset => <<k, result[k]>> \in shown
  /\ (reader = "failed" /\ kind = "std") => pending \ steady # {}
=============================================================================
