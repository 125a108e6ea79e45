-------------------------- MODULE RegistrationProofs --------------------------
(***************************************************************************)
(* The safety properties of Registration for any users, logins and keys.   *)
(* IInv is inductive (InitIInv, StepIInv): a login handles only a key made *)
(* for its user, so whoever writes an index entry writes what any other    *)
(* login would have to write for that key.                                 *)
(***************************************************************************)
EXTENDS Registration, TLAPS

(* The empty store, with no login begun, satisfies the invariant.          *)
LEMMA InitIInv == Init => IInv
  BY NoKeyAssumption, NoUserAssumption
  DEF Init, IInv, TypeOK, Steps, LoginKeyOwned, IndicesAgree, DeliveredKeyWorks,
      IndexedIsRegistered, RegistrationCompletes

(* Every step of a login, a crash and a public key login preserve the      *)
(* invariant.                                                              *)
LEMMA StepIInv == IInv /\ [Next]_vars => IInv'
<1> SUFFICES ASSUME IInv, [Next]_vars PROVE IInv'
  OBVIOUS
<1> USE NoKeyAssumption, NoUserAssumption
<1> USE DEF IInv, TypeOK, Steps, LoginKeyOwned, IndicesAgree, DeliveredKeyWorks,
      IndexedIsRegistered, RegistrationCompletes, store, locals, history, Goto
<1>1. ASSUME NEW l \in Logins, NEW u \in Users, LdapSearch(l, u) PROVE IInv'
  BY <1>1 DEF LdapSearch
<1>2. ASSUME NEW l \in Logins, Refused(l) PROVE IInv'
  BY <1>2 DEF Refused
<1>3. ASSUME NEW l \in Logins, UuidLookup(l) PROVE IInv'
  BY <1>3 DEF UuidLookup
<1>4. ASSUME NEW l \in Logins, NEW k \in Keys, CreateSSHKeypair(l, k) PROVE IInv'
  BY <1>4 DEF CreateSSHKeypair
<1>5. ASSUME NEW l \in Logins, NEW o \in PutOutcomes, PutDataIdxByUuid(l, o) PROVE IInv'
  BY <1>5 DEF PutDataIdxByUuid, AfterPut, PutOutcomes
<1>6. ASSUME NEW l \in Logins, NEW o \in PutOutcomes, PutDataIdxByPubKey(l, o) PROVE IInv'
  BY <1>6 DEF PutDataIdxByPubKey, AfterPut, PutOutcomes
<1>7. ASSUME NEW l \in Logins, NEW w \in BOOLEAN, WriteFileToContainer(l, w) PROVE IInv'
  BY <1>7 DEF WriteFileToContainer
<1>8. ASSUME NEW l \in Logins, Crash(l) PROVE IInv'
  BY <1>8 DEF Crash
<1>9. ASSUME NEW k \in Keys, PublicKeyLogin(k) PROVE IInv'
  BY <1>9 DEF PublicKeyLogin
<1>10. CASE UNCHANGED vars
  BY <1>10 DEF vars
<1> QED
  BY <1>1, <1>2, <1>3, <1>4, <1>5, <1>6, <1>7, <1>8, <1>9, <1>10
  DEF Next, LoginStep

(* The inductive invariant holds in every reachable state.                 *)
THEOREM Invariance == Spec => []IInv
<1>1. Init => IInv
  BY InitIInv
<1>2. IInv /\ [Next]_vars => IInv'
  BY StepIInv
<1> QED
  BY <1>1, <1>2, PTL DEF Spec

(* A key opens only the sessions of the user it was generated for.         *)
THEOREM Identity == Spec => []PubKeyLoginIdentity
<1>1. IInv => PubKeyLoginIdentity
  <2> SUFFICES ASSUME IInv, NEW s \in sessions PROVE owner[s[1]] = s[2]
    BY DEF PubKeyLoginIdentity
  <2>1. s[1] \in Keys /\ s[2] \in Users /\ byPubKey[s[1]] = s[2]
    BY DEF IInv, TypeOK, IndicesAgree
  <2> QED
    BY <2>1, NoUserAssumption DEF IInv, IndicesAgree
<1> QED
  BY <1>1, Invariance, PTL

(* The key in a container is one the server accepts for that user.         *)
THEOREM Delivery == Spec => []DeliveredKeyWorks
<1>1. IInv => DeliveredKeyWorks
  BY DEF IInv
<1> QED
  BY <1>1, Invariance, PTL

(* An interrupted registration never leaves a key without a user, and      *)
(* every other registration is completed.                                  *)
THEOREM Completion == Spec => [](IndexedIsRegistered /\ RegistrationCompletes)
<1>1. IInv => IndexedIsRegistered /\ RegistrationCompletes
  BY DEF IInv
<1> QED
  BY <1>1, Invariance, PTL

-----------------------------------------------------------------------------
(* What the store and the sessions never do.                                *)

(* An entry of the public key index is there for good and keeps its user;   *)
(* a user who is registered stays so.                                       *)
IndexKept ==
  /\ \A k \in Keys : byPubKey[k] # NoUser => byPubKey'[k] = byPubKey[k]
  /\ \A u \in Users : byUuid[u] # NoKey => byUuid'[u] # NoKey

(* No login, of whatever user, on whatever replica, interrupted or not,     *)
(* takes a key away from its user or gives it to another: a key that has    *)
(* opened a session will always open one of the same user.  The Puts do not *)
(* compare with what is there, so this rests on who handles which key.      *)
THEOREM KeysKept == Spec => [][IndexKept]_vars
<1>1. IInv /\ [Next]_vars => IndexKept
  <2> SUFFICES ASSUME IInv, [Next]_vars PROVE IndexKept
    OBVIOUS
  <2> USE NoKeyAssumption, NoUserAssumption
  <2> USE DEF IInv, TypeOK, LoginKeyOwned, IndicesAgree, IndexKept, store
  <2>1. ASSUME NEW l \in Logins, NEW o \in PutOutcomes, PutDataIdxByUuid(l, o)
        PROVE  IndexKept
    BY <2>1 DEF PutDataIdxByUuid
  <2>2. ASSUME NEW l \in Logins, NEW o \in PutOutcomes, PutDataIdxByPubKey(l, o)
        PROVE  IndexKept
    <3>1. key[l] \in Keys /\ owner[key[l]] = user[l] /\ user[l] \in Users
      BY <2>2 DEF PutDataIdxByPubKey
    <3>2. byPubKey[key[l]] \in {NoUser, user[l]}
      BY <3>1
    <3> QED
      BY <2>2, <3>1, <3>2 DEF PutDataIdxByPubKey
  <2>3. ASSUME NEW l \in Logins,
               \/ \E u \in Users : LdapSearch(l, u)
               \/ Refused(l) \/ UuidLookup(l) \/ Crash(l)
               \/ \E k \in Keys : CreateSSHKeypair(l, k)
               \/ \E written \in BOOLEAN : WriteFileToContainer(l, written)
        PROVE  IndexKept
    BY <2>3 DEF LdapSearch, Refused, UuidLookup, Crash, CreateSSHKeypair,
                WriteFileToContainer
  <2>4. ASSUME NEW k \in Keys, PublicKeyLogin(k) PROVE IndexKept
    BY <2>4 DEF PublicKeyLogin
  <2>5. CASE UNCHANGED vars
    BY <2>5 DEF vars
  <2> QED
    BY <2>1, <2>2, <2>3, <2>4, <2>5 DEF Next, LoginStep
<1> QED
  BY <1>1, Invariance, PTL DEF Spec
-----------------------------------------------------------------------------
(***************************************************************************)
(* The two indices are one store (KVStore), as PutDataIdxByUuid and        *)
(* PutDataIdxByPubKey keep them: an entry under a key of its own for each  *)
(* user and for each public key.                                           *)
(***************************************************************************)
StoreKeys == ({"uuid"} \X Users) \cup ({"pubKey"} \X Keys)
Missing == [user |-> NoUser, key |-> NoKey]
Record(u, k) == IF u = NoUser \/ k = NoKey THEN Missing ELSE [user |-> u, key |-> k]

Entries ==
  [e \in StoreKeys |-> IF e[1] = "uuid" THEN Record(e[2], byUuid[e[2]])
                                        ELSE Record(byPubKey[e[2]], e[2])]

KV == INSTANCE KVStore WITH
        Clients <- {}, Keys <- StoreKeys, Values <- [user : Users, key : Keys],
        Unset <- Missing, Kept <- NoUser, data <- Entries, writes <- [c \in {} |-> NoUser]

(* All that authentication does to the store, over all logins, is to put    *)
(* one record at a time: no step changes two entries, none takes one out,   *)
(* and so the store needs no transaction for it, only what Implements says  *)
(* of a plain write.                                                        *)
THEOREM OnlyPuts ==
  Spec => KV!Init /\ [][\E e \in StoreKeys, v \in [user : Users, key : Keys] :
                          KV!PlainWrite(e, v)]_Entries
<1>1. Init => KV!Init
  BY NoKeyAssumption, NoUserAssumption
  DEF Init, KV!Init, KV!Empty, KV!NoWrites, Entries, Record, StoreKeys
<1>2. IInv /\ [Next]_vars =>
        [\E e \in StoreKeys, v \in [user : Users, key : Keys] : KV!PlainWrite(e, v)]_Entries
  <2> SUFFICES ASSUME IInv, [Next]_vars
               PROVE  \/ \E e \in StoreKeys, v \in [user : Users, key : Keys] :
                           KV!PlainWrite(e, v)
                      \/ Entries' = Entries
    OBVIOUS
  <2> USE NoKeyAssumption, NoUserAssumption
  <2>1. ASSUME UNCHANGED store PROVE Entries' = Entries
    BY <2>1 DEF store, Entries
  <2>2. ASSUME NEW l \in Logins, NEW o \in PutOutcomes, PutDataIdxByUuid(l, o), o.applied
        PROVE  KV!PlainWrite(<<"uuid", user[l]>>, [user |-> user[l], key |-> key[l]])
    <3>1. user[l] \in Users /\ key[l] \in Keys
      BY <2>2 DEF IInv, TypeOK, LoginKeyOwned, PutDataIdxByUuid
    <3>2. byUuid' = [byUuid EXCEPT ![user[l]] = key[l]] /\ byPubKey' = byPubKey
      BY <2>2 DEF PutDataIdxByUuid
    <3>3. byUuid \in [Users -> Keys \cup {NoKey}]
      BY DEF IInv, TypeOK
    <3>4. <<"uuid", user[l]>> \in StoreKeys
      BY <3>1 DEF StoreKeys
    <3>5. ASSUME NEW e \in StoreKeys
          PROVE  Entries'[e] = [Entries EXCEPT ![<<"uuid", user[l]>>] = [user |-> user[l], key |-> key[l]]][e]
      <4>1. CASE e = <<"uuid", user[l]>>
        BY <3>1, <3>2, <3>3, <3>4, <4>1 DEF Entries, Record
      <4>2. CASE e # <<"uuid", user[l]>>
        BY <3>1, <3>2, <3>3, <4>2 DEF Entries, StoreKeys
      <4> QED
        BY <4>1, <4>2
    <3> QED
      BY <3>5 DEF KV!PlainWrite, Entries
  <2>3. ASSUME NEW l \in Logins, NEW o \in PutOutcomes, PutDataIdxByPubKey(l, o), o.applied
        PROVE  KV!PlainWrite(<<"pubKey", key[l]>>, [user |-> user[l], key |-> key[l]])
    <3>1. user[l] \in Users /\ key[l] \in Keys
      BY <2>3 DEF IInv, TypeOK, LoginKeyOwned, PutDataIdxByPubKey
    <3>2. byPubKey' = [byPubKey EXCEPT ![key[l]] = user[l]] /\ byUuid' = byUuid
      BY <2>3 DEF PutDataIdxByPubKey
    <3>3. byPubKey \in [Keys -> Users \cup {NoUser}]
      BY DEF IInv, TypeOK
    <3>4. <<"pubKey", key[l]>> \in StoreKeys
      BY <3>1 DEF StoreKeys
    <3>5. ASSUME NEW e \in StoreKeys
          PROVE  Entries'[e] = [Entries EXCEPT ![<<"pubKey", key[l]>>] = [user |-> user[l], key |-> key[l]]][e]
      <4>1. CASE e = <<"pubKey", key[l]>>
        BY <3>1, <3>2, <3>3, <3>4, <4>1 DEF Entries, Record
      <4>2. CASE e # <<"pubKey", key[l]>>
        BY <3>1, <3>2, <3>3, <4>2 DEF Entries, StoreKeys
      <4> QED
        BY <4>1, <4>2
    <3> QED
      BY <3>5 DEF KV!PlainWrite, Entries
  <2>4. ASSUME NEW l \in Logins, NEW o \in PutOutcomes,
               PutDataIdxByUuid(l, o) \/ PutDataIdxByPubKey(l, o)
        PROVE  \/ \E e \in StoreKeys, v \in [user : Users, key : Keys] :
                    KV!PlainWrite(e, v)
               \/ Entries' = Entries
    <3>1. CASE ~o.applied
      BY <2>1, <2>4, <3>1 DEF PutDataIdxByUuid, PutDataIdxByPubKey, store
    <3>2. CASE o.applied
      <4>1. user[l] \in Users /\ key[l] \in Keys
        BY <2>4 DEF IInv, TypeOK, LoginKeyOwned, PutDataIdxByUuid, PutDataIdxByPubKey
      <4>2. /\ <<"uuid", user[l]>> \in StoreKeys /\ <<"pubKey", key[l]>> \in StoreKeys
            /\ [user |-> user[l], key |-> key[l]] \in [user : Users, key : Keys]
        BY <4>1 DEF StoreKeys
      <4> QED
        BY <2>2, <2>3, <2>4, <3>2, <4>2
    <3> QED
      BY <3>1, <3>2
  <2>5. CASE \/ \E l \in Logins :
                  \/ \E u \in Users : LdapSearch(l, u)
                  \/ Refused(l) \/ UuidLookup(l) \/ Crash(l)
                  \/ \E k \in Keys : CreateSSHKeypair(l, k)
                  \/ \E written \in BOOLEAN : WriteFileToContainer(l, written)
             \/ \E k \in Keys : PublicKeyLogin(k)
             \/ UNCHANGED vars
    <3>1. UNCHANGED store
      BY <2>5 DEF LdapSearch, Refused, UuidLookup, Crash, CreateSSHKeypair,
                  WriteFileToContainer, PublicKeyLogin, vars
    <3> QED
      BY <2>1, <3>1
  <2> QED
    BY <2>4, <2>5 DEF Next, LoginStep
<1> QED
  BY <1>1, <1>2, Invariance, PTL DEF Spec
=============================================================================
