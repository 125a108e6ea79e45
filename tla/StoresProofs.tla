----------------------------- MODULE StoresProofs -----------------------------
(***************************************************************************)
(* Proofs about Stores: for any clients, keys and values, each of the two  *)
(* stores implements KVStore, and a listing is made of what was there.     *)
(***************************************************************************)
EXTENDS Stores, TLAPS

(* StdInv without TxReads, which follows from it; a Transfer begins with an *)
(* empty target.                                                            *)
StdIInv ==
  /\ StdTypeOK
  /\ \A c \in Clients : pc[c] \in {"copy", "tx"} <=> txmut = {c}
  /\ \A c \in Clients : Open(c) => copy[c] = KV!Apply(data, writes[c])
  /\ \A c \in Clients : ~Open(c) => writes[c] = KV!NoWrites
  /\ transfer = "idle" => target = KV!Empty
  /\ transfer \in {"running", "failed"} =>
       \A k \in Keys : k \notin todo => target[k] = data[k]

(* EtcdInv without TxReads; the lock has one holder.                        *)
EtcdIInv ==
  /\ EtcdTypeOK
  /\ \A c \in lock : lock = {c}
  /\ \A c \in Clients : (Open(c) /\ c \notin lost) <=> lock = {c}
  /\ \A c \in lost : Open(c)
  /\ \A c \in Clients : EtcdOps(c) = writes[c]
  /\ \A c \in Clients : ~Open(c) => writes[c] = KV!NoWrites

(* The listing: what it has got was there, and what has been there all      *)
(* along it has got or will get.                                            *)
ListIInv ==
  /\ data \in KV!Content
  /\ result \in KV!Content
  /\ pending \subseteq Keys
  /\ steady \subseteq Keys
  /\ reader \in {"idle", "panicked"} => result = KV!Empty
  /\ reader = "listing" =>
       /\ \A k \in steady : data[k] # Unset /\ (k \in pending \/ result[k] # Unset)
       /\ Pairs(data) \subseteq shown
  /\ reader \in {"listing", "done"} =>
       \A k \in Keys : result[k] # Unset => <<k, result[k]>> \in shown
  /\ ListingFaithful

IInv ==
  /\ kind \in {"std", "etcd"}
  /\ kind = "std" => StdIInv
  /\ kind = "etcd" => EtcdIInv
  /\ ListIInv

-----------------------------------------------------------------------------
(* Nothing written changes nothing, and a write to a transaction shows in   *)
(* what Apply makes of it (the map copies of stdstore.go).                  *)
LEMMA ApplyFacts ==
  ASSUME NEW d \in KV!Content
  PROVE  /\ KV!Apply(d, KV!NoWrites) = d
         /\ \A w \in KV!Buffers, k \in Keys, v \in Written :
              KV!Apply(d, [w EXCEPT ![k] = v]) = [KV!Apply(d, w) EXCEPT ![k] = v]
         /\ \A w \in KV!Buffers : KV!Apply(d, w) \in KV!Content
<1>1. KV!Apply(d, KV!NoWrites) = d
  BY DEF KV!Content, KV!Apply, KV!NoWrites
<1>2. ASSUME NEW w \in KV!Buffers, NEW k \in Keys, NEW v \in Written
      PROVE  KV!Apply(d, [w EXCEPT ![k] = v]) = [KV!Apply(d, w) EXCEPT ![k] = v]
  BY <1>2, MarkersAssumption DEF KV!Content, KV!Buffers, KV!Apply, Written
<1>3. ASSUME NEW w \in KV!Buffers PROVE KV!Apply(d, w) \in KV!Content
  BY <1>3 DEF KV!Content, KV!Buffers, KV!Apply
<1> QED
  BY <1>1, <1>2, <1>3

(* The initial state of either store satisfies the invariant.               *)
LEMMA InitIInv == Init => IInv
<1> SUFFICES ASSUME Init PROVE IInv
  OBVIOUS
<1>1. StdIInv
  BY DEF Init, StdInit, StdIInv, StdTypeOK, Pcs, Open, KV!Content, KV!Buffers,
         KV!Empty, KV!NoWrites
<1>2. EtcdIInv
  BY MarkersAssumption
  DEF Init, EtcdInit, EtcdIInv, EtcdTypeOK, Pcs, Open, EtcdOps, KV!Content,
      KV!Buffers, KV!Empty, KV!NoWrites
<1>3. ListIInv
  BY DEF Init, StdInit, ListIInv, ListingFaithful, Pairs, KV!Content, KV!Empty
<1> QED
  BY <1>1, <1>2, <1>3 DEF Init, IInv

(* Every step of the in-memory store keeps its invariant.                   *)
LEMMA StdStepIInv == StdIInv /\ StdNext => StdIInv'
<1> SUFFICES ASSUME StdIInv, StdNext PROVE StdIInv'
  OBVIOUS
<1> USE DEF StdIInv, StdTypeOK, Pcs, Open, Goto
<1>1. ASSUME NEW c \in Clients, StdBegin(c) PROVE StdIInv'
  BY <1>1 DEF StdBegin
<1>2. ASSUME NEW c \in Clients, StdCopy(c) PROVE StdIInv'
  BY <1>2, ApplyFacts DEF StdCopy
<1>3. ASSUME NEW c \in Clients, NEW k \in Keys, NEW v \in Written, StdWrite(c, k, v)
      PROVE  StdIInv'
  <2>1. writes' \in [Clients -> KV!Buffers] /\ copy' \in [Clients -> KV!Content]
    BY <1>3 DEF StdWrite, Written, KV!Buffers, KV!Content
  <2>2. ASSUME NEW d \in Clients, Open(d)' PROVE copy'[d] = KV!Apply(data, writes'[d])
    <3>1. CASE d = c
      <4>1. copy'[c] = [copy[c] EXCEPT ![k] = v] /\ writes'[c] = [writes[c] EXCEPT ![k] = v]
        BY <1>3 DEF StdWrite
      <4>2. copy[c] = KV!Apply(data, writes[c]) /\ data \in KV!Content /\ writes[c] \in KV!Buffers
        BY <1>3 DEF StdWrite
      <4> QED
        BY <3>1, <4>1, <4>2, ApplyFacts
    <3>2. CASE d # c
      BY <1>3, <2>2, <3>2 DEF StdWrite
    <3> QED
      BY <3>1, <3>2
  <2> QED
    BY <1>3, <2>1, <2>2 DEF StdWrite, KV!Apply
<1>4. ASSUME NEW c \in Clients, StdCommit(c) PROVE StdIInv'
  <2>1. KV!NoWrites \in KV!Buffers /\ KV!Empty \in KV!Content
    BY DEF KV!NoWrites, KV!Buffers, KV!Empty, KV!Content
  <2> QED
    BY <1>4, <2>1 DEF StdCommit, End, Forget, MutFree
<1>5. ASSUME NEW c \in Clients, StdRollback(c) PROVE StdIInv'
  <2>1. KV!NoWrites \in KV!Buffers /\ KV!Empty \in KV!Content
    BY DEF KV!NoWrites, KV!Buffers, KV!Empty, KV!Content
  <2> QED
    BY <1>5, <2>1 DEF StdRollback, End, Forget
<1>6. CASE TransferBegins
  BY <1>6 DEF TransferBegins, StdIterator, KV!Empty
<1>7. ASSUME NEW k \in Keys, TransferKey(k) PROVE StdIInv'
  BY <1>7 DEF TransferKey, KV!Content
<1>8. CASE TransferFails \/ TransferEnds
  BY <1>8 DEF TransferFails, TransferEnds
<1> QED
  BY <1>1, <1>2, <1>3, <1>4, <1>5, <1>6, <1>7, <1>8 DEF StdNext, StdClientStep, TransferStep

(* Every step of the store in etcd keeps its invariant, an expired lease    *)
(* and a lost answer included.                                              *)
LEMMA EtcdStepIInv == EtcdIInv /\ EtcdNext => EtcdIInv'
<1> SUFFICES ASSUME EtcdIInv, EtcdNext PROVE EtcdIInv'
  OBVIOUS
<1> USE DEF EtcdIInv, EtcdTypeOK, Pcs, Open, Goto
<1>1. ASSUME NEW c \in Clients, EtcdBegin(c) PROVE EtcdIInv'
  BY <1>1 DEF EtcdBegin, EtcdOps
<1>2. ASSUME NEW c \in Clients, NEW k \in Keys, NEW v \in Values, EtcdTxPut(c, k, v)
      PROVE  EtcdIInv'
  <2>1. writes' \in [Clients -> KV!Buffers] /\ insert' \in [Clients -> [Keys -> Values \cup {Kept}]]
    BY <1>2 DEF EtcdTxPut, KV!Buffers
  <2>2. ASSUME NEW d \in Clients PROVE EtcdOps(d)' = writes'[d]
    <3>1. CASE d # c
      BY <1>2, <3>1 DEF EtcdTxPut, EtcdOps
    <3>2. CASE d = c
      <4>1. ASSUME NEW j \in Keys
            PROVE  (IF insert'[c][j] = Kept /\ j \in delete'[c] THEN Unset ELSE insert'[c][j])
                   = writes'[c][j]
        <5>1. (IF insert[c][j] = Kept /\ j \in delete[c] THEN Unset ELSE insert[c][j])
              = writes[c][j]
          BY DEF EtcdOps
        <5>2. /\ insert'[c][j] = IF j = k THEN v ELSE insert[c][j]
              /\ writes'[c][j] = IF j = k THEN v ELSE writes[c][j]
              /\ delete'[c] = delete[c]
          BY <1>2 DEF EtcdTxPut, KV!Buffers
        <5> QED
          BY <5>1, <5>2, MarkersAssumption
      <4>2. writes'[c] = [j \in Keys |-> writes'[c][j]]
        BY <2>1 DEF KV!Buffers
      <4> QED
        BY <3>2, <4>1, <4>2 DEF EtcdOps
    <3> QED
      BY <3>1, <3>2
  <2> QED
    BY <1>2, <2>1, <2>2 DEF EtcdTxPut
<1>3. ASSUME NEW c \in Clients, NEW k \in Keys, EtcdTxDelete(c, k) PROVE EtcdIInv'
  <2>1. /\ writes' \in [Clients -> KV!Buffers]
        /\ insert' \in [Clients -> [Keys -> Values \cup {Kept}]]
        /\ delete' \in [Clients -> SUBSET Keys]
    BY <1>3 DEF EtcdTxDelete, KV!Buffers
  <2>2. ASSUME NEW d \in Clients PROVE EtcdOps(d)' = writes'[d]
    <3>1. CASE d # c
      BY <1>3, <3>1 DEF EtcdTxDelete, EtcdOps
    <3>2. CASE d = c
      <4>1. ASSUME NEW j \in Keys
            PROVE  (IF insert'[c][j] = Kept /\ j \in delete'[c] THEN Unset ELSE insert'[c][j])
                   = writes'[c][j]
        <5>1. (IF insert[c][j] = Kept /\ j \in delete[c] THEN Unset ELSE insert[c][j])
              = writes[c][j]
          BY DEF EtcdOps
        <5>2. /\ insert'[c][j] = IF j = k THEN Kept ELSE insert[c][j]
              /\ writes'[c][j] = IF j = k THEN Unset ELSE writes[c][j]
              /\ j \in delete'[c] <=> j = k \/ j \in delete[c]
          BY <1>3 DEF EtcdTxDelete, KV!Buffers
        <5> QED
          BY <5>1, <5>2, MarkersAssumption
      <4>2. writes'[c] = [j \in Keys |-> writes'[c][j]]
        BY <2>1 DEF KV!Buffers
      <4> QED
        BY <3>2, <4>1, <4>2 DEF EtcdOps
    <3> QED
      BY <3>1, <3>2
  <2> QED
    BY <1>3, <2>1, <2>2 DEF EtcdTxDelete
<1>4. ASSUME NEW c \in Clients PROVE EtcdOps(c) \in KV!Buffers
  BY <1>4
<1>buffers. ASSUME NEW c \in Clients, Release(c)
      PROVE  /\ writes' \in [Clients -> KV!Buffers]
             /\ insert' \in [Clients -> [Keys -> Values \cup {Kept}]]
             /\ delete' \in [Clients -> SUBSET Keys]
             /\ \A d \in Clients : EtcdOps(d)' = writes'[d]
             /\ writes' = [writes EXCEPT ![c] = KV!NoWrites]
             /\ lock' = lock \ {c} /\ lost' = lost \ {c}
  <2>1. KV!NoWrites \in KV!Buffers /\ KV!NoWrites \in [Keys -> Values \cup {Kept}]
    BY DEF KV!NoWrites, KV!Buffers
  <2>2. ASSUME NEW d \in Clients PROVE EtcdOps(d)' = writes'[d]
    BY <1>buffers DEF Release, Forget, EtcdOps, KV!NoWrites
  <2> QED
    BY <1>buffers, <2>1, <2>2 DEF Release, Forget
<1>release. ASSUME NEW c \in Clients, NEW s \in {"idle", "committed"}, Release(c), Open(c),
             pc' = [pc EXCEPT ![c] = s], data' \in KV!Content
       PROVE EtcdIInv'
  <2>1. \A d \in Clients : Open(d)' <=> d # c /\ Open(d)
    BY <1>release
  <2>2. \A d \in lock' : lock' = {d}
    BY <1>buffers, <1>release
  <2>3. \A d \in Clients : lock' = {d} <=> d # c /\ lock = {d}
    BY <1>buffers, <1>release
  <2>4. \A d \in Clients : (Open(d)' /\ d \notin lost') <=> lock' = {d}
    BY <1>buffers, <1>release, <2>1, <2>3
  <2>5. \A d \in lost' : Open(d)'
    BY <1>buffers, <1>release, <2>1
  <2>6. \A d \in Clients : ~Open(d)' => writes'[d] = KV!NoWrites
    BY <1>buffers, <1>release, <2>1
  <2>7. EtcdTypeOK'
    BY <1>buffers, <1>release
  <2> QED
    BY <1>buffers, <1>release, <2>2, <2>4, <2>5, <2>6, <2>7
<1>6. ASSUME NEW c \in Clients, EtcdCommit(c) PROVE EtcdIInv'
  <2>1. Release(c) /\ data' \in KV!Content
    BY <1>4, <1>6, ApplyFacts DEF EtcdCommit
  <2> QED
    BY <1>release, <1>6, <2>1 DEF EtcdCommit
<1>7. ASSUME NEW c \in Clients, EtcdCommitUnanswered(c) PROVE EtcdIInv'
  BY <1>4, <1>7, ApplyFacts DEF EtcdCommitUnanswered, EtcdOps
<1>8. ASSUME NEW c \in Clients, EtcdRollback(c) PROVE EtcdIInv'
  <2>1. CASE Open(c)
    <3>1. Release(c) /\ pc' = [pc EXCEPT ![c] = "idle"] /\ data' = data
      BY <1>8, <2>1 DEF EtcdRollback
    <3> QED
      BY <1>release, <2>1, <3>1
  <2>2. CASE ~Open(c)
    BY <1>8, <2>2 DEF EtcdRollback, EtcdOps
  <2> QED
    BY <2>1, <2>2
<1>9. ASSUME NEW c \in Clients, LeaseExpires(c) PROVE EtcdIInv'
  BY <1>9 DEF LeaseExpires, EtcdOps
<1>10. ASSUME NEW k \in Keys, NEW v \in Written, EtcdPlainWrite(k, v) PROVE EtcdIInv'
  BY <1>10 DEF EtcdPlainWrite, EtcdOps, Written, KV!Content
<1> QED
  BY <1>1, <1>2, <1>3, <1>6, <1>7, <1>8, <1>9, <1>10 DEF EtcdNext, EtcdClientStep

(* Every step keeps the invariant of the listing.                           *)
LEMMA ListStepIInv == IInv /\ Next /\ data' \in KV!Content => ListIInv'
<1> SUFFICES ASSUME IInv, Next, data' \in KV!Content PROVE ListIInv'
  OBVIOUS
<1> USE DEF IInv, ListIInv
<1>1. CASE StoreStep
  <2>1. CASE reader = "listing"
    BY <1>1, <2>1 DEF StoreStep, ListingFaithful, readerVars, Pairs
  <2>2. CASE reader # "listing"
    BY <1>1, <2>2 DEF StoreStep, ListingFaithful, readerVars
  <2> QED
    BY <2>1, <2>2
<1>2. CASE ListKeys
  <2>1. StoreIterator = {k \in Keys : data[k] # Unset}
    BY DEF StoreIterator, StdIterator, EtcdIterator
  <2> QED
    BY <1>2, <2>1 DEF ListKeys, ListingFaithful, Pairs, KV!Empty
<1>3. ASSUME NEW k \in Keys, ListGet(k) PROVE ListIInv'
  <2>1. CASE data[k] = Unset
    BY <1>3, <2>1 DEF ListGet, ListingFaithful
  <2>2. CASE data[k] # Unset
    <3>1. <<k, data[k]>> \in shown
      BY <1>3, <2>2 DEF ListGet, Pairs
    <3> QED
      BY <1>3, <2>2, <3>1 DEF ListGet, ListingFaithful, KV!Content
  <2> QED
    BY <2>1, <2>2
<1>4. CASE ListDone
  BY <1>4 DEF ListDone, ListingFaithful
<1>5. CASE ListError
  BY <1>5 DEF ListError, ListingFaithful
<1> QED
  BY <1>1, <1>2, <1>3, <1>4, <1>5 DEF Next, ReaderStep

(* Every step of the program keeps the invariant.                           *)
LEMMA StepIInv == IInv /\ [Next]_vars => IInv'
<1> SUFFICES ASSUME IInv, [Next]_vars PROVE IInv'
  OBVIOUS
<1>1. CASE UNCHANGED vars
  BY <1>1 DEF vars, readerVars, stdVars, etcdVars, IInv, StdIInv, StdTypeOK, EtcdIInv,
     EtcdTypeOK, ListIInv, ListingFaithful, Pairs, Open, EtcdOps
<1>2. CASE ReaderStep
  <2>1. UNCHANGED <<data, pc, writes, stdVars, etcdVars, kind>>
    BY <1>2 DEF ReaderStep, ListKeys, ListGet, ListDone, ListError
  <2>2. StdIInv => StdIInv'
    BY <2>1 DEF StdIInv, StdTypeOK, stdVars, Open
  <2>3. EtcdIInv => EtcdIInv'
    BY <2>1 DEF EtcdIInv, EtcdTypeOK, etcdVars, Open, EtcdOps
  <2>4. ListIInv'
    BY <1>2, <2>1, ListStepIInv DEF IInv, ListIInv, Next
  <2> QED
    BY <2>1, <2>2, <2>3, <2>4 DEF IInv
<1>3. CASE StoreStep
  <2>1. kind' = kind /\ kind \in {"std", "etcd"}
    BY <1>3 DEF StoreStep, IInv
  <2>2. CASE kind = "std"
    <3>1. StdIInv'
      BY <1>3, <2>2, StdStepIInv DEF StoreStep, IInv
    <3> QED
      BY <1>3, <2>1, <2>2, <3>1, ListStepIInv DEF IInv, StdIInv, StdTypeOK, Next
  <2>3. CASE kind = "etcd"
    <3>1. EtcdIInv'
      BY <1>3, <2>3, EtcdStepIInv DEF StoreStep, IInv
    <3> QED
      BY <1>3, <2>1, <2>3, <3>1, ListStepIInv DEF IInv, EtcdIInv, EtcdTypeOK, Next
  <2> QED
    BY <2>1, <2>2, <2>3
<1> QED
  BY <1>1, <1>2, <1>3 DEF Next

(* The invariant of the two stores and of the listing holds always.         *)
THEOREM Invariance == Spec => []IInv
<1>1. Init => IInv
  BY InitIInv
<1>2. IInv /\ [Next]_vars => IInv'
  BY StepIInv
<1> QED
  BY <1>1, <1>2, PTL DEF Spec
(* The in-memory store (stdstore.go): one transaction at a time, its copy   *)
(* the content under its writes, and what its reads return.                 *)
THEOREM StdCorrect == Spec => []StdInv
<1>1. IInv => StdInv
  <2> SUFFICES ASSUME IInv, kind = "std" PROVE StdInv
    BY DEF StdInv
  <2>1. ASSUME NEW c \in Clients, Open(c), NEW k \in Keys
        PROVE  copy[c][k] = IF writes[c][k] = Kept THEN data[k] ELSE writes[c][k]
    BY <2>1 DEF IInv, StdIInv, KV!Apply
  <2>2. TxReads
    BY <2>1 DEF TxReads, TxGet, TxIterator, StdTxGet, StdTxIterator
  <2> QED
    BY <2>2 DEF StdInv, IInv, StdIInv
<1> QED
  BY <1>1, Invariance, PTL

(* The store in etcd (etcdstore.go): who holds the lock, what a commit will *)
(* send, and what the reads of a transaction return.                        *)
THEOREM EtcdCorrect == Spec => []EtcdInv
<1>1. IInv => EtcdInv
  <2> SUFFICES ASSUME IInv, kind = "etcd" PROVE EtcdInv
    BY DEF EtcdInv
  <2>1. ASSUME NEW c \in Clients, NEW k \in Keys
        PROVE  /\ EtcdTxGet(c, k) = IF writes[c][k] = Kept THEN data[k] ELSE writes[c][k]
               /\ k \in EtcdTxIterator(c) <=> EtcdTxGet(c, k) # Unset
    <3>1. writes[c][k] = IF insert[c][k] = Kept /\ k \in delete[c]
                           THEN Unset ELSE insert[c][k]
      BY DEF IInv, EtcdIInv, EtcdOps
    <3>2. insert[c][k] \in Values \cup {Kept}
      BY DEF IInv, EtcdIInv, EtcdTypeOK
    <3> QED
      BY <3>1, <3>2, MarkersAssumption DEF EtcdTxGet, EtcdTxIterator, EtcdIterator
  <2>2. TxReads
    <3>1. \A c \in Clients : EtcdTxIterator(c) \subseteq Keys
      BY DEF EtcdTxIterator, EtcdIterator
    <3> QED
      BY <2>1, <3>1 DEF TxReads, TxGet, TxIterator
  <2>3. ASSUME NEW c \in Clients, NEW d \in Clients, Open(c), Open(d), c # d
        PROVE  c \in lost \/ d \in lost
    BY <2>3 DEF IInv, EtcdIInv
  <2> QED
    BY <2>2, <2>3 DEF EtcdInv, IInv, EtcdIInv
<1> QED
  BY <1>1, Invariance, PTL

(* A listing that succeeds has every key that was set all along, and only   *)
(* values that were there (the GetAll operations of storewrapper.go).       *)
THEOREM Listing == Spec => []ListingFaithful
<1>1. IInv => ListingFaithful
  BY DEF IInv, ListIInv
<1> QED
  BY <1>1, Invariance, PTL

(* Both stores implement KVStore: a commit applies exactly the writes of    *)
(* its transaction to the content at that time.                             *)
THEOREM Refinement == Spec => Implements
<1> DEFINE Abstract == IF kind = "std" THEN KV!TxNext ELSE KV!Next
<1>1. Init => KV!Init
  BY DEF Init, StdInit, KV!Init
<1>2. IInv /\ [Next]_vars => [Abstract]_<<data, writes>>
  <2> SUFFICES ASSUME IInv, [Next]_vars
               PROVE  Abstract \/ UNCHANGED <<data, writes>>
    OBVIOUS
  <2>1. CASE UNCHANGED vars
    BY <2>1 DEF vars
  <2>2. CASE ReaderStep
    BY <2>2 DEF ReaderStep, ListKeys, ListGet, ListDone, ListError
  <2>3. CASE kind = "std" /\ StdNext
    <3>1. ASSUME NEW c \in Clients, StdBegin(c) \/ StdCopy(c) PROVE UNCHANGED <<data, writes>>
      BY <3>1 DEF StdBegin, StdCopy
    <3>2. ASSUME NEW c \in Clients, NEW k \in Keys, NEW v \in Written, StdWrite(c, k, v)
          PROVE  KV!TxNext
      BY <3>2 DEF StdWrite, Written, KV!TxNext, KV!Write
    <3>3. ASSUME NEW c \in Clients, StdCommit(c) PROVE KV!TxNext
      <4>1. KV!Commit(c)
        BY <2>3, <3>3 DEF IInv, StdIInv, StdCommit, End, Forget, KV!Commit
      <4> QED
        BY <4>1 DEF KV!TxNext
    <3>4. ASSUME NEW c \in Clients, StdRollback(c) PROVE KV!TxNext
      BY <3>4 DEF StdRollback, End, Forget, KV!TxNext, KV!Rollback
    <3>5. CASE TransferStep
      BY <3>5 DEF TransferStep, TransferBegins, TransferKey, TransferFails, TransferEnds
    <3> QED
      BY <2>3, <3>1, <3>2, <3>3, <3>4, <3>5 DEF StdNext, StdClientStep
  <2>4. CASE kind = "etcd" /\ EtcdNext
    <3>1. ASSUME NEW c \in Clients, EtcdBegin(c) \/ LeaseExpires(c)
          PROVE  UNCHANGED <<data, writes>>
      BY <3>1 DEF EtcdBegin, LeaseExpires
    <3>2. ASSUME NEW c \in Clients, NEW k \in Keys, NEW v \in Values, EtcdTxPut(c, k, v)
          PROVE  KV!TxNext
      BY <3>2 DEF EtcdTxPut, KV!TxNext, KV!Write
    <3>3. ASSUME NEW c \in Clients, NEW k \in Keys, EtcdTxDelete(c, k) PROVE KV!TxNext
      BY <3>3 DEF EtcdTxDelete, KV!TxNext, KV!Write
    <3>4. ASSUME NEW c \in Clients, EtcdCommit(c) PROVE KV!TxNext
      <4>1. KV!Commit(c)
        BY <2>4, <3>4 DEF IInv, EtcdIInv, EtcdCommit, Release, Forget, KV!Commit
      <4> QED
        BY <4>1 DEF KV!TxNext
    <3>5. ASSUME NEW c \in Clients, EtcdCommitUnanswered(c) PROVE KV!Next
      <4>1. KV!CommitUnanswered(c)
        BY <2>4, <3>5 DEF IInv, EtcdIInv, EtcdCommitUnanswered, KV!CommitUnanswered
      <4> QED
        BY <4>1 DEF KV!Next
    <3>6. ASSUME NEW c \in Clients, EtcdRollback(c)
          PROVE  KV!TxNext \/ UNCHANGED <<data, writes>>
      BY <3>6 DEF EtcdRollback, Release, Forget, KV!TxNext, KV!Rollback
    <3>7. ASSUME NEW k \in Keys, NEW v \in Written, EtcdPlainWrite(k, v) PROVE KV!Next
      BY <3>7 DEF EtcdPlainWrite, Written, KV!Next, KV!PlainWrite
    <3> QED
      BY <2>4, <3>1, <3>2, <3>3, <3>4, <3>5, <3>6, <3>7
      DEF EtcdNext, EtcdClientStep, KV!Next
  <2> QED
    BY <2>1, <2>2, <2>3, <2>4 DEF Next, StoreStep
<1> QED
  BY <1>1, <1>2, Invariance, PTL DEF Spec, Implements
=============================================================================
