------------------------------- MODULE KVStore -------------------------------
(***************************************************************************)
(* What internal/store/store.go promises of a Store: a map from keys to    *)
(* values and transactions that buffer their writes.  A commit applies     *)
(* exactly the writes of its transaction, all of them in one step, to      *)
(* whatever the store holds at that time; nothing else is undone by it.    *)
(* A key that is not in the map has the value Unset, and a key that a      *)
(* transaction has not written has the value Kept in its buffer.           *)
(***************************************************************************)
CONSTANTS Clients, Keys, Values, Unset, Kept

VARIABLES data, writes

Content == [Keys -> Values \cup {Unset}]
Buffers == [Keys -> Values \cup {Unset, Kept}]
NoWrites == [k \in Keys |-> Kept]
Empty == [k \in Keys |-> Unset]

(* The content d under the writes w.                                        *)
Apply(d, w) == [k \in Keys |-> IF w[k] = Kept THEN d[k] ELSE w[k]]

Init ==
  /\ data = Empty
  /\ writes = [c \in Clients |-> NoWrites]

(* Put and Delete of a transaction.                                         *)
Write(c, k, v) ==
  /\ writes' = [writes EXCEPT ![c][k] = v]
  /\ UNCHANGED data

Commit(c) ==
  /\ data' = Apply(data, writes[c])
  /\ writes' = [writes EXCEPT ![c] = NoWrites]

Rollback(c) ==
  /\ writes' = [writes EXCEPT ![c] = NoWrites]
  /\ UNCHANGED data

(* A store all of whose writes belong to a transaction.                     *)
TxNext ==
  \E c \in Clients :
    \/ \E k \in Keys, v \in Values \cup {Unset} : Write(c, k, v)
    \/ Commit(c)
    \/ Rollback(c)

(* Put and Delete of the store itself.                                      *)
PlainWrite(k, v) ==
  /\ data' = [data EXCEPT ![k] = v]
  /\ UNCHANGED writes

(* The commit takes effect and its caller is told that it failed.           *)
CommitUnanswered(c) ==
  /\ data' = Apply(data, writes[c])
  /\ UNCHANGED writes

Next ==
  \/ TxNext
  \/ \E k \in Keys, v \in Values \cup {Unset} : PlainWrite(k, v)
  \/ \E c \in Clients : CommitUnanswered(c)

TxSpec == Init /\ [][TxNext]_<<data, writes>>
Spec == Init /\ [][Next]_<<data, writes>>
=============================================================================
