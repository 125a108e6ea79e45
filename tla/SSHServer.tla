------------------------------ MODULE SSHServer ------------------------------
(***************************************************************************)
(* The ssh server process: Start (ssh/server.go) with its accept loop, the *)
(* goroutine of every connection, and the shutdown that the signal handler *)
(* of ssh/main.go begins.                                                  *)
(*                                                                         *)
(* What a connection does once it is authenticated is SSHConnection; here  *)
(* it is "handling" until HandleGlobalConnection returns, or "silent"      *)
(* while its client answers nothing, which keeps it from returning.  The   *)
(* accept loop and Start run concurrently, so a connection may be taken    *)
(* from the listener just before Start closes it and be registered         *)
(* afterwards.                                                             *)
(* sync.WaitGroup is modelled to that detail: a blocked Wait is woken by   *)
(* the Done that empties the group, and panics if the group has been used  *)
(* again by the time it runs.                                              *)
(***************************************************************************)
EXTENDS Integers, FiniteSets

CONSTANTS Conns,     \* the TCP connections clients make
          NoConn

ASSUME NoConnAssumption == NoConn \notin Conns
ASSUME FiniteAssumption == IsFiniteSet(Conns)

VARIABLES
  start,      \* program counter of Start
  accept,     \* program counter of the accept loop
  inHand,     \* the connection the accept loop is registering, or NoConn
  conn,       \* what has become of each connection
  handleConnWG,        \* the connections the wait group counts
  currentConnections   \* the counter that periodicLogs reports

vars == <<start, accept, inHand, conn, handleConnWG, currentConnections>>

(* The listener is open until Start is past its Close.                      *)
ListenerOpen == start \in {"serving", "cancelled"}
ContextDone == start # "serving"

(* The process has ended: Start returned, or a goroutine panicked.          *)
Exited == start \in {"exited", "panicked"}

(* The states of validateAndProcessConnection before its deferred function. *)
Busy == {"handshake", "handling", "silent"}

(* A connection with a goroutine, or one that is about to get it.           *)
Live(c) == conn[c] \in {"accepted", "returning"} \cup Busy

(* Every variable has a value of its type; the counter in particular never  *)
(* becomes negative.                                                        *)
TypeOK ==
  /\ start \in {"serving", "cancelled", "closed", "waiting", "woken",
                "exited", "panicked"}
  /\ accept \in {"accept", "add", "count", "spawn", "gone"}
  /\ inHand \in Conns \cup {NoConn}
  /\ conn \in [Conns -> {"none", "backlog", "accepted", "returning", "counted",
                         "gone", "refused"} \cup Busy]
  /\ handleConnWG \subseteq Conns
  /\ currentConnections \in 0 .. Cardinality(Conns)

Init ==
  /\ start = "serving"
  /\ accept = "accept"
  /\ inHand = NoConn
  /\ conn = [c \in Conns |-> "none"]
  /\ handleConnWG = {}
  /\ currentConnections = 0

-----------------------------------------------------------------------------
(* A client connects; the kernel completes the TCP handshake.               *)
Connect(c) ==
  /\ ListenerOpen
  /\ conn[c] = "none"
  /\ conn' = [conn EXCEPT ![c] = "backlog"]
  /\ UNCHANGED <<start, accept, inHand, handleConnWG, currentConnections>>

(* The accept loop, statement by statement: Accept, handleConnWG.Add(1),    *)
(* the counter, go validateAndProcessConnection.                            *)
Accept(c) ==
  /\ ~Exited
  /\ accept = "accept"
  /\ ListenerOpen
  /\ conn[c] = "backlog"
  /\ accept' = "add"
  /\ inHand' = c
  /\ conn' = [conn EXCEPT ![c] = "accepted"]
  /\ UNCHANGED <<start, handleConnWG, currentConnections>>

AcceptClosed ==
  /\ ~Exited
  /\ accept = "accept"
  /\ ~ListenerOpen
  /\ accept' = "gone"
  /\ UNCHANGED <<start, inHand, conn, handleConnWG, currentConnections>>

(* Mutant: the connection is not added to the wait group.                   *)
AddMissing ==
  /\ ~Exited
  /\ accept = "add"
  /\ accept' = "count"
  /\ UNCHANGED <<start, inHand, conn, handleConnWG, currentConnections>>

Add ==
  /\ ~Exited
  /\ accept = "add"
  /\ accept' = "count"
  /\ handleConnWG' = handleConnWG \cup {inHand}
  /\ UNCHANGED <<start, inHand, conn, currentConnections>>

Count ==
  /\ ~Exited
  /\ accept = "count"
  /\ accept' = "spawn"
  /\ currentConnections' = currentConnections + 1
  /\ UNCHANGED <<start, inHand, conn, handleConnWG>>

Spawn ==
  /\ ~Exited
  /\ accept = "spawn"
  /\ accept' = "accept"
  /\ inHand' = NoConn
  /\ conn' = [conn EXCEPT ![inHand] = "handshake"]
  /\ UNCHANGED <<start, handleConnWG, currentConnections>>

-----------------------------------------------------------------------------
(* validateAndProcessConnection.                                            *)

(* ssh.NewServerConn authenticates the client.                              *)
Authenticated(c) ==
  /\ ~Exited
  /\ conn[c] = "handshake"
  /\ conn' = [conn EXCEPT ![c] = "handling"]
  /\ UNCHANGED <<start, accept, inHand, handleConnWG, currentConnections>>

(* The client of a session answers nothing any more, or again: the          *)
(* SendRequest of keepAlive (connection.go) has no timeout.                 *)
FallsSilent(c) ==
  /\ ~Exited
  /\ conn[c] = "handling"
  /\ conn' = [conn EXCEPT ![c] = "silent"]
  /\ UNCHANGED <<start, accept, inHand, handleConnWG, currentConnections>>

Resumes(c) ==
  /\ ~Exited
  /\ conn[c] = "silent"
  /\ conn' = [conn EXCEPT ![c] = "handling"]
  /\ UNCHANGED <<start, accept, inHand, handleConnWG, currentConnections>>

(* Mutant: the deferred function is skipped when the handshake fails.       *)
ReturnSkipsDefer(c) ==
  /\ ~Exited
  /\ conn[c] \in Busy
  /\ conn' = [conn EXCEPT ![c] = IF @ = "handshake" THEN "gone" ELSE "returning"]
  /\ UNCHANGED <<start, accept, inHand, handleConnWG, currentConnections>>

(* The handshake fails, or HandleGlobalConnection returns: the deferred     *)
(* function runs.  It can return for a silent client, if the transport goes *)
(* or keepAlive is not waiting for an answer, but need not.                 *)
Return(c) ==
  /\ ~Exited
  /\ conn[c] \in Busy
  /\ conn' = [conn EXCEPT ![c] = "returning"]
  /\ UNCHANGED <<start, accept, inHand, handleConnWG, currentConnections>>

(* handleConnWG.Done(), which wakes a blocked Wait when it empties the      *)
(* group ...                                                                *)
Done(c) ==
  /\ ~Exited
  /\ conn[c] = "returning"
  /\ conn' = [conn EXCEPT ![c] = "counted"]
  /\ handleConnWG' = handleConnWG \ {c}
  /\ start' = IF start = "waiting" /\ handleConnWG' = {} THEN "woken" ELSE start
  /\ UNCHANGED <<accept, inHand, currentConnections>>

(* ... and the counter.                                                     *)
Uncount(c) ==
  /\ ~Exited
  /\ conn[c] = "counted"
  /\ conn' = [conn EXCEPT ![c] = "gone"]
  /\ currentConnections' = currentConnections - 1
  /\ UNCHANGED <<start, accept, inHand, handleConnWG>>

-----------------------------------------------------------------------------
(* Shutdown: the signal handler cancels the context; Start closes the       *)
(* listener, which resets what is still in the backlog, and waits.          *)

Signal ==
  /\ start = "serving"
  /\ start' = "cancelled"
  /\ UNCHANGED <<accept, inHand, conn, handleConnWG, currentConnections>>

CloseListener ==
  /\ start = "cancelled"
  /\ start' = "closed"
  /\ conn' = [c \in Conns |-> IF conn[c] = "backlog" THEN "refused" ELSE conn[c]]
  /\ UNCHANGED <<accept, inHand, handleConnWG, currentConnections>>

Wait ==
  /\ start = "closed"
  /\ start' = IF handleConnWG = {} THEN "exited" ELSE "waiting"
  /\ UNCHANGED <<accept, inHand, conn, handleConnWG, currentConnections>>

WaitReturns ==
  /\ start = "woken"
  /\ start' = IF handleConnWG = {} THEN "exited" ELSE "panicked"
  /\ UNCHANGED <<accept, inHand, conn, handleConnWG, currentConnections>>

-----------------------------------------------------------------------------
AcceptLoop == (\E c \in Conns : Accept(c)) \/ AcceptClosed \/ Add \/ Count \/ Spawn

ConnStep(c) == Authenticated(c) \/ Return(c) \/ Done(c) \/ Uncount(c)

StartStep == CloseListener \/ Wait \/ WaitReturns

Next ==
  \/ AcceptLoop
  \/ \E c \in Conns : Connect(c) \/ ConnStep(c) \/ FallsSilent(c) \/ Resumes(c)
  \/ Signal
  \/ StartStep

Spec == Init /\ [][Next]_vars

(* Goroutines that can run do.  A connection that is handled ends after the *)
(* context is cancelled (ShutdownReleases of SSHConnection).  Nothing makes *)
(* it end while its client is silent, and the handshake has neither a       *)
(* timeout nor a context.                                                   *)
Fairness ==
  /\ WF_vars(AcceptLoop)
  /\ WF_vars(StartStep)
  /\ \A c \in Conns :
       /\ WF_vars(Done(c) \/ Uncount(c))
       /\ WF_vars(ContextDone /\ conn[c] = "handling" /\ Return(c))

FairSpec == Spec /\ Fairness

-----------------------------------------------------------------------------
(* When the process exits at most one connection is cut off, the one the    *)
(* accept loop had taken from the listener before it was closed: Wait       *)
(* covers every connection that was registered before it returned.          *)
AtMostOneCutOff ==
  Exited => \A c, d \in Conns : Live(c) /\ Live(d) => c = d

(* The connections between the two updates of the counter.                  *)
Counted ==
  {c \in Conns :
     \/ conn[c] \in {"returning", "counted"} \cup Busy
     \/ inHand = c /\ accept = "spawn"}

(* The number periodicLogs reports is that of the connections between the   *)
(* two counter updates: no way out of a connection loses one.               *)
CounterExact == currentConnections = Cardinality(Counted)

(* After a signal the process ends, however many connections keep coming,   *)
(* provided no client stays in the handshake, and none whose connection is  *)
(* handled stays silent, for ever.                                          *)
ShutdownTerminates ==
  <>[](\A c \in Conns : conn[c] \notin {"handshake", "silent"})
    => (start = "cancelled" ~> Exited)

-----------------------------------------------------------------------------
(* The accept loop holds exactly the accepted connection, and the wait      *)
(* group counts every connection that has a goroutine.                      *)
Registered ==
  /\ accept \in {"accept", "gone"} <=> inHand = NoConn
  /\ \A c \in Conns :
       /\ conn[c] = "accepted" <=> inHand = c
       /\ c \in handleConnWG <=>
            \/ conn[c] \in {"returning"} \cup Busy
            \/ inHand = c /\ accept \in {"count", "spawn"}

(* From the moment Wait can return, at most one connection is alive.        *)
LastOne ==
  start \in {"woken", "exited", "panicked"} =>
    \A c, d \in Conns : Live(c) /\ Live(d) => c = d

(* The wait group, the counter and the accept loop agree on which           *)
(* connections exist; the invariant is inductive.                           *)
IInv == TypeOK /\ Registered /\ LastOne /\ CounterExact
=============================================================================
