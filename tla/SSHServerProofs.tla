--------------------------- MODULE SSHServerProofs ----------------------------
(***************************************************************************)
(* The safety properties of SSHServer for any finite set of connections.   *)
(* The control part of IInv (Registered, LastOne) and the counting part    *)
(* (CounterExact, and with it the range of the counter) are carried        *)
(* through every action separately: the first is first-order, the second   *)
(* rests on the theorems about cardinalities.                              *)
(***************************************************************************)
EXTENDS SSHServer, FiniteSetTheorems, TLAPS

(* The part of the type invariant that is not about the counter.           *)
Typed ==
  /\ start \in {"serving", "cancelled", "closed", "waiting", "woken",
                "exited", "panicked"}
  /\ accept \in {"accept", "add", "count", "spawn", "gone"}
  /\ inHand \in Conns \cup {NoConn}
  /\ conn \in [Conns -> {"none", "backlog", "accepted", "returning", "counted",
                         "gone", "refused"} \cup Busy]
  /\ handleConnWG \subseteq Conns

Control == Typed /\ Registered /\ LastOne

(* The control part is inductive on its own.                               *)
LEMMA ControlInductive ==
  /\ Init => Control
  /\ Control /\ [Next]_vars => Control'
<1> USE NoConnAssumption
<1> USE DEF Control, Typed, Registered, LastOne, Live, Busy
<1>1. Init => Control
  BY DEF Init
<1>2. ASSUME Control, [Next]_vars PROVE Control'
  <2> USE <1>2
  <2> USE DEF ListenerOpen, Exited
  <2>1. ASSUME NEW c \in Conns, Connect(c) PROVE Control'
    BY <2>1 DEF Connect
  <2>2. ASSUME NEW c \in Conns, Accept(c) PROVE Control'
    BY <2>2 DEF Accept
  <2>3. CASE AcceptClosed
    BY <2>3 DEF AcceptClosed
  <2>4. CASE Add
    BY <2>4 DEF Add
  <2>5. CASE Count
    BY <2>5 DEF Count
  <2>6. CASE Spawn
    BY <2>6 DEF Spawn
  <2>7. ASSUME NEW c \in Conns, Authenticated(c) \/ FallsSilent(c) \/ Resumes(c) \/ Return(c)
        PROVE  Control'
    BY <2>7 DEF Authenticated, FallsSilent, Resumes, Return
  <2>8. ASSUME NEW c \in Conns, Done(c) PROVE Control'
    BY <2>8 DEF Done
  <2>9. ASSUME NEW c \in Conns, Uncount(c) PROVE Control'
    BY <2>9 DEF Uncount
  <2>10. CASE Signal
    BY <2>10 DEF Signal
  <2>11. CASE CloseListener
    BY <2>11 DEF CloseListener
  <2>12. CASE Wait
    BY <2>12 DEF Wait
  <2>13. CASE WaitReturns
    BY <2>13 DEF WaitReturns
  <2>14. CASE UNCHANGED vars
    BY <2>14 DEF vars
  <2> QED
    BY <2>1, <2>2, <2>3, <2>4, <2>5, <2>6, <2>7, <2>8, <2>9, <2>10, <2>11, <2>12,
       <2>13, <2>14
    DEF Next, AcceptLoop, ConnStep, StartStep
<1> QED
  BY <1>1, <1>2

(* Counted is a finite set, no larger than Conns.                          *)
LEMMA CountedFinite ==
  /\ IsFiniteSet(Counted)
  /\ Cardinality(Counted) \in Nat
  /\ Cardinality(Counted) <= Cardinality(Conns)
<1>1. Counted \subseteq Conns
  BY DEF Counted
<1> QED
  BY <1>1, FiniteAssumption, FS_Subset, FS_CardinalityType

(* Only Count and Uncount change Counted, each by one connection.          *)
LEMMA CountedStep ==
  ASSUME Control, [Next]_vars, CounterExact
  PROVE  CounterExact'
<1> USE DEF Control, Typed, Registered, Busy
<1>0. /\ IsFiniteSet(Counted) /\ Cardinality(Counted) \in Nat
      /\ currentConnections = Cardinality(Counted)
  BY CountedFinite DEF CounterExact
<1>1. CASE Count
  <2>1. inHand \in Conns /\ inHand \notin Counted
    BY <1>1, NoConnAssumption DEF Count, Counted
  <2>2. Counted' = Counted \cup {inHand}
    BY <1>1, <2>1 DEF Count, Counted
  <2>3. Cardinality(Counted') = Cardinality(Counted) + 1
    BY <1>0, <2>1, <2>2, FS_AddElement
  <2> QED
    BY <1>0, <1>1, <2>3 DEF Count, CounterExact
<1>2. ASSUME NEW c \in Conns, Uncount(c) PROVE CounterExact'
  <2>1. c \in Counted
    BY <1>2 DEF Uncount, Counted
  <2>2. Counted' = Counted \ {c}
    BY <1>2 DEF Uncount, Counted
  <2>3. Cardinality(Counted') = Cardinality(Counted) - 1
    BY <1>0, <2>1, <2>2, FS_RemoveElement
  <2> QED
    BY <1>0, <1>2, <2>3 DEF Uncount, CounterExact
<1>3. ASSUME Counted' = Counted, currentConnections' = currentConnections
      PROVE  CounterExact'
  BY <1>0, <1>3 DEF CounterExact
<1>4. ASSUME NEW c \in Conns, Connect(c) \/ Accept(c) PROVE CounterExact'
  BY <1>3, <1>4 DEF Connect, Accept, Counted
<1>5. CASE AcceptClosed \/ Add
  BY <1>3, <1>5 DEF AcceptClosed, Add, Counted
<1>6. CASE Spawn
  BY <1>3, <1>6, NoConnAssumption DEF Spawn, Counted
<1>7. ASSUME NEW c \in Conns, Authenticated(c) \/ FallsSilent(c) \/ Resumes(c)
                             \/ Return(c) \/ Done(c)
      PROVE  CounterExact'
  BY <1>3, <1>7 DEF Authenticated, FallsSilent, Resumes, Return, Done, Counted
<1>8. CASE Signal \/ StartStep
  BY <1>3, <1>8 DEF Signal, StartStep, CloseListener, Wait, WaitReturns, Counted
<1>9. CASE UNCHANGED vars
  BY <1>3, <1>9 DEF vars, Counted
<1> QED
  BY <1>1, <1>2, <1>4, <1>5, <1>6, <1>7, <1>8, <1>9 DEF Next, AcceptLoop, ConnStep

(* The inductive invariant holds in every reachable state.                 *)
THEOREM Invariance == Spec => []IInv
<1>1. Init => Control /\ CounterExact
  <2>1. Init => Counted = {}
    BY DEF Init, Counted, Busy
  <2> QED
    BY <2>1, ControlInductive, FS_EmptySet DEF Init, CounterExact
<1>2. (Control /\ CounterExact) /\ [Next]_vars => (Control /\ CounterExact)'
  BY ControlInductive, CountedStep
<1>3. Control /\ CounterExact => IInv
  <2>1. Cardinality(Conns) \in Nat
    BY FiniteAssumption, FS_CardinalityType
  <2>2. CounterExact => currentConnections \in 0 .. Cardinality(Conns)
    BY <2>1, CountedFinite DEF CounterExact
  <2> QED
    BY <2>2 DEF Control, Typed, IInv, TypeOK
<1> QED
  BY <1>1, <1>2, <1>3, PTL DEF Spec

(* Shutdown cuts off at most one connection, however many there are.       *)
THEOREM CutOff == Spec => []AtMostOneCutOff
<1>1. IInv => AtMostOneCutOff
  BY DEF IInv, LastOne, AtMostOneCutOff, Exited
<1> QED
  BY <1>1, Invariance, PTL

(* The logged number of connections is exact and never negative.           *)
THEOREM Counter == Spec => [](TypeOK /\ CounterExact)
<1>1. IInv => TypeOK /\ CounterExact
  BY DEF IInv
<1> QED
  BY <1>1, Invariance, PTL

-----------------------------------------------------------------------------
(***************************************************************************)
(* What ShutdownTerminates rests on, for any finite number of connections: *)
(* but for clients that fall silent and resume it cannot run for ever, and *)
(* after a signal, with answering clients, it cannot stop                  *)
(* before Start has returned.                                              *)
(***************************************************************************)

(* How far a connection, Start and the accept loop have come.               *)
ConnRank(s) ==
  CASE s = "none" -> 0 [] s = "backlog" -> 1 [] s = "accepted" -> 2
    [] s = "handshake" -> 3 [] s = "handling" -> 4 [] s = "silent" -> 4
    [] s = "returning" -> 5
    [] s = "counted" -> 6 [] s = "gone" -> 7 [] s = "refused" -> 8

StartRank(s) ==
  CASE s = "serving" -> 0 [] s = "cancelled" -> 1 [] s = "closed" -> 2
    [] s = "waiting" -> 3 [] s = "woken" -> 4 [] s = "exited" -> 5
    [] s = "panicked" -> 6

AcceptRank(s) ==
  CASE s = "accept" -> 0 [] s = "add" -> 1 [] s = "count" -> 2 [] s = "spawn" -> 3
    [] s = "gone" -> 4

(* No connection and no part of Start goes back, and a step that advances   *)
(* neither of them advances the accept loop, which begins anew only with    *)
(* the connection it has handed over.                                       *)
Advances ==
  /\ \A c \in Conns : ConnRank(conn[c]) <= ConnRank(conn'[c])
  /\ StartRank(start) <= StartRank(start')
  /\ \/ \E c \in Conns : ConnRank(conn[c]) < ConnRank(conn'[c])
     \/ StartRank(start) < StartRank(start')
     \/ AcceptRank(accept) < AcceptRank(accept')

(* A client falls silent or resumes.                                        *)
ClientChanges == \E c \in Conns : FallsSilent(c) \/ Resumes(c)

(* Every step of the process takes a connection, Start or the accept loop   *)
(* forward, unless a client falls silent or resumes: no connection is       *)
(* handled twice, and a wait that has ended is not begun again.             *)
THEOREM ProcessRunsDown == Spec => [][Advances \/ ClientChanges]_vars
<1>1. IInv /\ [Next]_vars => [Advances \/ ClientChanges]_vars
  <2> SUFFICES ASSUME IInv, Next, ~ClientChanges PROVE Advances
    OBVIOUS
  <2> USE NoConnAssumption
  <2> USE DEF IInv, TypeOK, Registered, Busy, Advances, ConnRank, StartRank, AcceptRank
  <2>1. ASSUME NEW c \in Conns, Connect(c) \/ Accept(c) PROVE Advances
    BY <2>1 DEF Connect, Accept
  <2>2. CASE AcceptClosed \/ Add \/ Count
    BY <2>2 DEF AcceptClosed, Add, Count
  <2>3. CASE Spawn
    <3>1. inHand \in Conns /\ conn[inHand] = "accepted"
      BY <2>3 DEF Spawn
    <3> QED
      BY <2>3, <3>1 DEF Spawn
  <2>4. ASSUME NEW c \in Conns, Authenticated(c) \/ Return(c) \/ Uncount(c) PROVE Advances
    BY <2>4 DEF Authenticated, Return, Uncount
  <2>5. ASSUME NEW c \in Conns, Done(c) PROVE Advances
    BY <2>5 DEF Done
  <2>6. CASE Signal \/ StartStep
    BY <2>6 DEF Signal, StartStep, CloseListener, Wait, WaitReturns
  <2> QED
    BY <2>1, <2>2, <2>3, <2>4, <2>5, <2>6 DEF Next, AcceptLoop, ConnStep, ClientChanges
<1> QED
  BY <1>1, Invariance, PTL DEF Spec

(* A blocked Wait has something to wait for.                                *)
WaitIsNeeded == start = "waiting" => handleConnWG # {}

(* The Done that empties the group always finds and wakes the waiter, and   *)
(* Wait does not block on an empty group.                                   *)
LEMMA NoLostWakeup == Spec => []WaitIsNeeded
<1>1. Init => WaitIsNeeded
  BY DEF Init, WaitIsNeeded
<1>2. WaitIsNeeded /\ [Next]_vars => WaitIsNeeded'
  <2> SUFFICES ASSUME WaitIsNeeded, [Next]_vars PROVE WaitIsNeeded'
    OBVIOUS
  <2> USE DEF WaitIsNeeded
  <2>1. ASSUME NEW c \in Conns, Connect(c) \/ Accept(c) PROVE WaitIsNeeded'
    BY <2>1 DEF Connect, Accept
  <2>2. CASE AcceptClosed \/ Add \/ Count \/ Spawn
    BY <2>2 DEF AcceptClosed, Add, Count, Spawn
  <2>3. ASSUME NEW c \in Conns, Authenticated(c) \/ FallsSilent(c) \/ Resumes(c)
                               \/ Return(c) \/ Uncount(c)
        PROVE  WaitIsNeeded'
    BY <2>3 DEF Authenticated, FallsSilent, Resumes, Return, Uncount
  <2>4. ASSUME NEW c \in Conns, Done(c) PROVE WaitIsNeeded'
    BY <2>4 DEF Done
  <2>5. CASE Signal \/ StartStep
    BY <2>5 DEF Signal, StartStep, CloseListener, Wait, WaitReturns
  <2>6. CASE UNCHANGED vars
    BY <2>6 DEF vars
  <2> QED
    BY <2>1, <2>2, <2>3, <2>4, <2>5, <2>6 DEF Next, AcceptLoop, ConnStep
<1> QED
  BY <1>1, <1>2, PTL DEF Spec

(* The process is ending, and no client holds it up in the handshake or by  *)
(* its silence.                                                             *)
ShuttingDown ==
  /\ ContextDone
  /\ ~Exited
  /\ \A c \in Conns : conn[c] \notin {"handshake", "silent"}

(* Start can go on, or someone it waits for can: a connection with an       *)
(* answering client whose session is told to end, one whose deferred        *)
(* function runs, or the accept loop with a connection it has just added.   *)
ShutdownCanMove ==
  \/ start \in {"cancelled", "closed", "woken"}
  \/ \E c \in handleConnWG :
       conn[c] \in {"handling", "returning"} \/ (inHand = c /\ accept \in {"count", "spawn"})

(* After a signal Start never waits in vain: only a client that stays in    *)
(* the handshake, or silent, can keep the process from ending.              *)
THEOREM ShutdownNeverStuck == Spec => [](ShuttingDown => ShutdownCanMove)
<1>1. IInv /\ WaitIsNeeded => (ShuttingDown => ShutdownCanMove)
  BY DEF IInv, TypeOK, Registered, Busy, WaitIsNeeded, ContextDone, Exited, ShuttingDown,
         ShutdownCanMove
<1> QED
  BY <1>1, Invariance, NoLostWakeup, PTL
=============================================================================
