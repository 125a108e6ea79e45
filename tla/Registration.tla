---------------------------- MODULE Registration -----------------------------
(***************************************************************************)
(* How a user comes to have an ssh key: the authentication callbacks of    *)
(* ssh/server.go, the two indices they keep in the shared etcd store, and  *)
(* writeFileToContainer, which delivers the private key to the user's      *)
(* container after a password login.                                       *)
(*                                                                         *)
(* A login is one run of PasswordCallback with the connection it opens.    *)
(* Logins run concurrently, on one or several replicas of the ssh server,  *)
(* and share only the store and the container.  A key stands for a key     *)
(* pair; NoKey is the empty string that userData.PrivKey holds when no     *)
(* pair was created.  A login may be lost at any point, by a crash of its  *)
(* replica or of its connection, and a Put that reports an error may or    *)
(* may not have reached etcd.                                              *)
(***************************************************************************)
CONSTANTS Users, Logins, Keys, NoKey, NoUser

ASSUME NoKeyAssumption == NoKey \notin Keys
ASSUME NoUserAssumption == NoUser \notin Users

VARIABLES
  byUuid,      \* uuid index: the key pair stored with a user, or NoKey
  byPubKey,    \* public key index: the user stored with a key, or NoUser
  keyFile,     \* the key in /root/.ssh/delegatio_priv_key of each container
  step,        \* program counter of each login
  user, key,   \* userData.Uuid and userData.PrivKey of each login
  owner,       \* history: the user each key pair was generated for
  interrupted, \* history: users one of whose registrations did not finish
  sessions     \* history: the <<key, user>> public key logins accepted

store == <<byUuid, byPubKey>>
locals == <<step, user, key>>
history == <<owner, interrupted, sessions>>
vars == <<store, keyFile, locals, history>>

Steps == {"idle", "lookup", "keygen", "putUuid", "putPubKey", "permitted", "ended"}

(* Every variable has a value of its type.                                  *)
TypeOK ==
  /\ byUuid \in [Users -> Keys \cup {NoKey}]
  /\ byPubKey \in [Keys -> Users \cup {NoUser}]
  /\ keyFile \in [Users -> Keys \cup {NoKey}]
  /\ step \in [Logins -> Steps]
  /\ user \in [Logins -> Users \cup {NoUser}]
  /\ key \in [Logins -> Keys \cup {NoKey}]
  /\ owner \in [Keys -> Users \cup {NoUser}]
  /\ interrupted \subseteq Users
  /\ sessions \subseteq Keys \X Users

Init ==
  /\ byUuid = [u \in Users |-> NoKey]
  /\ byPubKey = [k \in Keys |-> NoUser]
  /\ keyFile = [u \in Users |-> NoKey]
  /\ step = [l \in Logins |-> "idle"]
  /\ user = [l \in Logins |-> NoUser]
  /\ key = [l \in Logins |-> NoKey]
  /\ owner = [k \in Keys |-> NoUser]
  /\ interrupted = {}
  /\ sessions = {}

Goto(l, s) == step' = [step EXCEPT ![l] = s]

-----------------------------------------------------------------------------
(* PasswordCallback.                                                        *)

(* The directory confirms the password and names the user; the record it    *)
(* returns has neither key set.                                             *)
LdapSearch(l, u) ==
  /\ step[l] = "idle"
  /\ user' = [user EXCEPT ![l] = u]
  /\ Goto(l, "lookup")
  /\ UNCHANGED <<store, keyFile, key, history>>

(* An error of the directory, of the lookup or of the key generation: the   *)
(* callback returns it and nothing has been stored.                         *)
Refused(l) ==
  /\ step[l] \in {"idle", "lookup", "keygen"}
  /\ Goto(l, "ended")
  /\ UNCHANGED <<store, keyFile, user, key, history>>

(* UuidExists.  A user who is found is let in with the record of the        *)
(* directory, whose PrivKey is empty; the stored pair is not read.          *)
UuidLookup(l) ==
  /\ step[l] = "lookup"
  /\ Goto(l, IF byUuid[user[l]] = NoKey THEN "keygen" ELSE "permitted")
  /\ UNCHANGED <<store, keyFile, user, key, history>>

(* Mutant: every login is handed a pair that was generated before.          *)
CreateSSHKeypairReused(l, k) ==
  /\ step[l] = "keygen"
  /\ key' = [key EXCEPT ![l] = k]
  /\ owner' = [owner EXCEPT ![k] = user[l]]
  /\ Goto(l, "putUuid")
  /\ UNCHANGED <<store, keyFile, user, interrupted, sessions>>

(* CreateSSHKeypair returns a pair no one has had before.                   *)
CreateSSHKeypair(l, k) ==
  /\ step[l] = "keygen"
  /\ owner[k] = NoUser
  /\ key' = [key EXCEPT ![l] = k]
  /\ owner' = [owner EXCEPT ![k] = user[l]]
  /\ Goto(l, "putUuid")
  /\ UNCHANGED <<store, keyFile, user, interrupted, sessions>>

(* What a Put did and reported; a reported success was applied.             *)
PutOutcomes == {o \in [applied : BOOLEAN, ok : BOOLEAN] : o.ok => o.applied}

(* After a Put the callback goes on, or returns the error; half says that   *)
(* the error leaves the user in the uuid index only.                        *)
AfterPut(l, o, next, half) ==
  /\ Goto(l, IF o.ok THEN next ELSE "ended")
  /\ interrupted' = IF half /\ ~o.ok THEN interrupted \cup {user[l]} ELSE interrupted

(* Mutant: the callback returns right after the first Put.                  *)
PutDataIdxByUuidOnly(l, o) ==
  /\ step[l] = "putUuid"
  /\ byUuid' = IF o.applied THEN [byUuid EXCEPT ![user[l]] = key[l]] ELSE byUuid
  /\ AfterPut(l, o, "permitted", o.applied)
  /\ UNCHANGED <<byPubKey, keyFile, user, key, owner, sessions>>

PutDataIdxByUuid(l, o) ==
  /\ step[l] = "putUuid"
  /\ byUuid' = IF o.applied THEN [byUuid EXCEPT ![user[l]] = key[l]] ELSE byUuid
  /\ AfterPut(l, o, "putPubKey", o.applied)
  /\ UNCHANGED <<byPubKey, keyFile, user, key, owner, sessions>>

(* Mutant: the error of the second Put is dropped.                          *)
PutDataIdxByPubKeyUnchecked(l, o) ==
  /\ step[l] = "putPubKey"
  /\ byPubKey' = IF o.applied THEN [byPubKey EXCEPT ![key[l]] = user[l]] ELSE byPubKey
  /\ AfterPut(l, [o EXCEPT !.ok = TRUE], "permitted", ~o.applied)
  /\ UNCHANGED <<byUuid, keyFile, user, key, owner, sessions>>

PutDataIdxByPubKey(l, o) ==
  /\ step[l] = "putPubKey"
  /\ byPubKey' = IF o.applied THEN [byPubKey EXCEPT ![key[l]] = user[l]] ELSE byPubKey
  /\ AfterPut(l, o, "permitted", ~o.applied)
  /\ UNCHANGED <<byUuid, keyFile, user, key, owner, sessions>>

-----------------------------------------------------------------------------
(* The connection of a permitted password login writes its PrivKey to the   *)
(* container, over what is there, whether or not it is empty.  The write    *)
(* may fail; the error is dropped.                                          *)
WriteFileToContainer(l, written) ==
  /\ step[l] = "permitted"
  /\ keyFile' = IF written THEN [keyFile EXCEPT ![user[l]] = key[l]] ELSE keyFile
  /\ Goto(l, "ended")
  /\ UNCHANGED <<store, user, key, history>>

(* The replica or the connection is lost in the middle of a login.          *)
Crash(l) ==
  /\ step[l] \in {"lookup", "keygen", "putUuid", "putPubKey", "permitted"}
  /\ Goto(l, "ended")
  /\ interrupted' = IF step[l] = "putPubKey" THEN interrupted \cup {user[l]}
                                             ELSE interrupted
  /\ UNCHANGED <<store, keyFile, user, key, owner, sessions>>

(* PublicKeyCallback: a key is accepted when the public key index has it,   *)
(* and the session is that of the user stored there.                        *)
PublicKeyLogin(k) ==
  /\ byPubKey[k] # NoUser
  /\ sessions' = sessions \cup {<<k, byPubKey[k]>>}
  /\ UNCHANGED <<store, keyFile, locals, owner, interrupted>>

-----------------------------------------------------------------------------
LoginStep(l) ==
  \/ \E u \in Users : LdapSearch(l, u)
  \/ Refused(l)
  \/ UuidLookup(l)
  \/ \E k \in Keys : CreateSSHKeypair(l, k)
  \/ \E o \in PutOutcomes : PutDataIdxByUuid(l, o) \/ PutDataIdxByPubKey(l, o)
  \/ \E written \in BOOLEAN : WriteFileToContainer(l, written)
  \/ Crash(l)

Next ==
  \/ \E l \in Logins : LoginStep(l)
  \/ \E k \in Keys : PublicKeyLogin(k)

Spec == Init /\ [][Next]_vars

-----------------------------------------------------------------------------
(* A public key login always opens the session of the user for whom the     *)
(* key pair was generated, whatever logins raced or were interrupted.       *)
PubKeyLoginIdentity == \A s \in sessions : owner[s[1]] = s[2]

(* The key a user finds in the container is accepted by the server, and as  *)
(* that user: it was indexed before it was delivered, and no later login    *)
(* of anyone takes it out of the index.                                     *)
DeliveredKeyWorks ==
  \A u \in Users : keyFile[u] # NoKey => byPubKey[keyFile[u]] = u

(* Nobody can log in with a key before the user is registered: an           *)
(* interrupted registration leaves a user without a key, never a key        *)
(* without a user.                                                          *)
IndexedIsRegistered ==
  \A k \in Keys : byPubKey[k] # NoUser => byUuid[byPubKey[k]] # NoKey

(* The pair stored with a registered user is in the public key index, or a  *)
(* login is about to put it there, unless a registration of that user was   *)
(* interrupted between the two Puts; nothing repairs the index after that.  *)
RegistrationCompletes ==
  \A u \in Users \ interrupted :
    byUuid[u] # NoKey =>
      \/ byPubKey[byUuid[u]] = u
      \/ \E l \in Logins : step[l] = "putPubKey" /\ user[l] = u /\ key[l] = byUuid[u]

-----------------------------------------------------------------------------
(* The inductive invariant.                                                 *)

(* A login only handles keys that were generated for its user.              *)
LoginKeyOwned ==
  \A l \in Logins :
    /\ step[l] # "idle" /\ step[l] # "ended" => user[l] \in Users
    /\ key[l] # NoKey => user[l] \in Users /\ owner[key[l]] = user[l]
    /\ step[l] \in {"idle", "lookup", "keygen"} => key[l] = NoKey
    /\ step[l] \in {"putUuid", "putPubKey"} => key[l] # NoKey
    /\ step[l] = "putPubKey" => byUuid[user[l]] # NoKey
    /\ step[l] = "permitted" /\ key[l] # NoKey => byPubKey[key[l]] = user[l]

(* Both indices relate a key to the user it was generated for.              *)
IndicesAgree ==
  /\ \A u \in Users : byUuid[u] # NoKey => owner[byUuid[u]] = u
  /\ \A k \in Keys : byPubKey[k] # NoUser => owner[k] = byPubKey[k]
  /\ \A s \in sessions : byPubKey[s[1]] = s[2]

(* Every login, every index entry, every delivered key and every session    *)
(* agree on whose key it is.                                                *)
IInv ==
  /\ TypeOK
  /\ LoginKeyOwned
  /\ IndicesAgree
  /\ DeliveredKeyWorks
  /\ IndexedIsRegistered
  /\ RegistrationCompletes
=============================================================================
