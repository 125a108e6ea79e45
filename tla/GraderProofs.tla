----------------------------- MODULE GraderProofs -----------------------------
(***************************************************************************)
(* Proofs about Grader, for any set of requests and any number of inputs.  *)
(***************************************************************************)
EXTENDS Grader, TLAPS

(* What a request has done so far follows from where it is: nothing has     *)
(* passed before the loop over the inputs, a program is started only for an *)
(* input that is left, and a request has its reply exactly when it is over. *)
Stages ==
  \A r \in Requests :
    /\ step[r] \in {"idle", "nonce", "dial", "call", "create", "open", "list"} => passed[r] = 0
    /\ step[r] \in {"forked", "running", "held", "killed"} => passed[r] < Inputs
    /\ step[r] \in {"held", "killed"} => kind[r] = "detach"
    /\ step[r] \notin {"idle", "nonce", "done"} => solution[r] # "none"
    /\ reply[r] # "none" <=> step[r] = "done"
    /\ cause[r] # "none" <=> reply[r] = "error"

(* A child holds the files of other requests, which have been opened.       *)
Inheritance ==
  \A r \in Requests : \A q \in inherits[r] :
    q # r /\ step[q] \notin {"idle", "nonce", "dial", "call", "create"}

IInv == GraderInv /\ Stages /\ Inheritance

USE InputsAssumption

(* The invariant holds before any request was sent.                         *)
LEMMA InitIInv == Init => IInv
<1> SUFFICES ASSUME Init PROVE IInv
  OBVIOUS
<1>1. TypeOK
  BY DEF Init, TypeOK, Causes
<1> QED
  BY <1>1 DEF Init, IInv, GraderInv, Stages, Inheritance, Kinds

(* Every step of every request preserves it.                                *)
LEMMA StepIInv == IInv /\ [Next]_vars => IInv'
<1> SUFFICES ASSUME IInv, [Next]_vars PROVE IInv'
  OBVIOUS
<1> USE DEF IInv, GraderInv, TypeOK, Kinds, Causes, Stages, Inheritance, Goto, Reply
<1>1. ASSUME NEW r \in Requests, CreateNonce(r) PROVE IInv'
  BY <1>1 DEF CreateNonce
<1>2. ASSUME NEW r \in Requests, ReadSolution(r) PROVE IInv'
  BY <1>2 DEF ReadSolution
<1>3. ASSUME NEW r \in Requests, Dial(r) \/ CallGrader(r) PROVE IInv'
  BY <1>3 DEF Dial, CallGrader
<1>4. ASSUME NEW r \in Requests, SendFails(r) PROVE IInv'
  BY <1>4 DEF SendFails
<1>5. ASSUME NEW r \in Requests, OpenFile(r) PROVE IInv'
  BY <1>5 DEF OpenFile
<1>6. ASSUME NEW r \in Requests, CloseFile(r) PROVE IInv'
  BY <1>6 DEF CloseFile
<1>7. ASSUME NEW r \in Requests, ReadInputs(r) PROVE IInv'
  BY <1>7 DEF ReadInputs
<1>8. ASSUME NEW r \in Requests, DiskFails(r) PROVE IInv'
  BY <1>8 DEF DiskFails
<1>9. ASSUME NEW r \in Requests, Fork(r) PROVE IInv'
  BY <1>9 DEF Fork
<1>10. ASSUME NEW r \in Requests, Exec(r) PROVE IInv'
  <2>1. CASE \E q \in Requests : r \in inherits[q]
    BY <1>10, <2>1 DEF Exec
  <2>2. CASE (\A q \in Requests : r \notin inherits[q]) /\ solution[r] = "empty"
    BY <1>10, <2>2 DEF Exec
  <2>3. CASE (\A q \in Requests : r \notin inherits[q]) /\ solution[r] # "empty"
    BY <1>10, <2>3 DEF Exec
  <2> QED
    BY <2>1, <2>2, <2>3
<1>11. ASSUME NEW r \in Requests, step[r] \in {"running", "held"}, Compare(r),
              kind[r] # "crash", UNCHANGED <<kind, solution, inherits>>
       PROVE  IInv'
  BY <1>11 DEF Compare
<1>12. ASSUME NEW r \in Requests, Exit(r) PROVE IInv'
  <2>1. CASE kind[r] = "crash"
    BY <1>12, <2>1 DEF Exit
  <2>2. CASE kind[r] = "detach"
    BY <1>12, <2>2 DEF Exit
  <2>3. CASE kind[r] \notin {"crash", "detach"}
    BY <1>11, <1>12, <2>3 DEF Exit
  <2> QED
    BY <2>1, <2>2, <2>3
<1>13. ASSUME NEW r \in Requests, ChildEnds(r) PROVE IInv'
  <2>1. CASE Compare(r)
    BY <1>11, <1>13, <2>1 DEF ChildEnds
  <2>2. CASE Reply(r, "error", "timeout") /\ UNCHANGED passed
    BY <1>13, <2>2 DEF ChildEnds
  <2> QED
    BY <1>13, <2>1, <2>2 DEF ChildEnds
<1>14. ASSUME NEW r \in Requests, Timeout(r) PROVE IInv'
  BY <1>14 DEF Timeout
<1>15. ASSUME NEW r \in Requests, Grade(r) PROVE IInv'
  BY <1>15 DEF Grade
<1>16. CASE UNCHANGED vars
  BY <1>16 DEF vars
<1> QED
  BY <1>1, <1>2, <1>3, <1>4, <1>5, <1>6, <1>7, <1>8, <1>9, <1>10, <1>12, <1>13,
     <1>14, <1>15, <1>16 DEF Next, Send, Serve

(* The inductive invariant holds in every reachable state.                  *)
LEMMA Invariance == Spec => []IInv
<1>1. Init => IInv
  BY InitIInv
<1>2. IInv /\ [Next]_vars => IInv'
  BY StepIInv
<1> QED
  BY <1>1, <1>2, PTL DEF Spec

(* Points are given for what the program did, and a good program fails only *)
(* for a reason outside of it.                                              *)
THEOREM Grading == Spec => []GraderInv
<1>1. IInv => GraderInv
  BY DEF IInv
<1> QED
  BY <1>1, Invariance, PTL

-----------------------------------------------------------------------------
(* What RequestsEnd rests on, for any number of requests and inputs.        *)

(* The steps a request has left at most: four for every input that is left, *)
(* after those up to the loop.                                              *)
StepRank(s) ==
  CASE s = "idle" -> 12 [] s = "nonce" -> 11 [] s = "dial" -> 10 [] s = "call" -> 9
    [] s = "create" -> 8 [] s = "open" -> 7 [] s = "list" -> 6 [] s = "next" -> 5
    [] s = "forked" -> 4 [] s = "running" -> 3 [] s = "held" -> 2 [] s = "killed" -> 2
    [] s = "done" -> 0

Remaining(r) ==
  IF step[r] = "done" THEN 0 ELSE 4 * (Inputs - passed[r]) + StepRank(step[r])

(* A step is one of a single request, and leaves it less to do.             *)
RequestAdvances ==
  \E r \in Requests :
    /\ Remaining(r) \in Nat /\ Remaining(r)' \in Nat /\ Remaining(r)' < Remaining(r)
    /\ \A q \in Requests \ {r} : Remaining(q)' = Remaining(q)

(* A request takes a bounded number of steps to its reply, whatever the     *)
(* others do: neither the loop over the inputs nor a file that another      *)
(* request keeps busy makes the grader try again for ever.                  *)
THEOREM RequestsRunDown == Spec => [][RequestAdvances]_vars
<1>1. IInv /\ [Next]_vars => [RequestAdvances]_vars
  <2> SUFFICES ASSUME IInv, NEW r \in Requests, Send(r) \/ Serve(r) \/ Exit(r) \/ ChildEnds(r)
               PROVE  /\ Remaining(r) \in Nat /\ Remaining(r)' \in Nat
                      /\ Remaining(r)' < Remaining(r)
                      /\ \A q \in Requests \ {r} : Remaining(q)' = Remaining(q)
    BY DEF Next, RequestAdvances
  <2> USE DEF IInv, GraderInv, TypeOK, Stages, Goto, Reply, Remaining, StepRank
  <2>1. CASE CreateNonce(r) \/ ReadSolution(r) \/ Dial(r) \/ CallGrader(r) \/ SendFails(r)
    BY <2>1 DEF CreateNonce, ReadSolution, Dial, CallGrader, SendFails
  <2>2. CASE OpenFile(r) \/ CloseFile(r) \/ ReadInputs(r) \/ DiskFails(r)
    BY <2>2 DEF OpenFile, CloseFile, ReadInputs, DiskFails
  <2>3. CASE Fork(r) \/ Timeout(r) \/ Grade(r)
    <3>1. step[r] \in {"next", "running"} /\ passed' = passed
      BY <2>3 DEF Fork, Timeout, Grade
    <3>2. \/ Goto(r, "done")
          \/ step[r] = "next" /\ Goto(r, "forked")
          \/ step[r] = "running" /\ Goto(r, "killed")
      BY <2>3 DEF Fork, Timeout, Grade
    <3> QED
      BY <3>1, <3>2
  <2>4. CASE Exec(r)
    <3>1. step[r] = "forked" /\ passed' = passed
      BY <2>4 DEF Exec
    <3>2. Goto(r, "done") \/ Goto(r, "running")
      BY <2>4 DEF Exec
    <3> QED
      BY <3>1, <3>2
  <2>5. CASE Exit(r) \/ ChildEnds(r)
    <3>1. step[r] \in {"running", "held", "killed"}
      BY <2>5 DEF Exit, ChildEnds
    <3>2. \/ Goto(r, "done") /\ UNCHANGED passed
          \/ step[r] = "running" /\ Goto(r, "held") /\ UNCHANGED passed
          \/ Goto(r, "next") /\ passed' = [passed EXCEPT ![r] = @ + 1]
      BY <2>5 DEF Exit, ChildEnds, Compare
    <3> QED
      BY <3>1, <3>2
  <2> QED
    BY <2>1, <2>2, <2>3, <2>4, <2>5 DEF Send, Serve
<1> QED
  BY <1>1, Invariance, PTL DEF Spec

(* The conditions of the steps that the grader and its timer take by        *)
(* themselves, without a program that exits.                                *)
CanMove(r) ==
  \/ step[r] \in {"create", "open", "list", "forked", "running"}
  \/ step[r] = "next" /\ (passed[r] < Inputs \/ passed[r] = Inputs)

(* In the grader only a child that a program has left behind can keep a     *)
(* request waiting: everyone else's can always go on to its reply.          *)
THEOREM RequestsNeverStuck ==
  Spec => [](\A r \in Requests :
               step[r] \notin {"idle", "nonce", "dial", "call", "done"} /\ kind[r] # "detach"
                 => CanMove(r))
<1>1. IInv => \A r \in Requests :
                step[r] \notin {"idle", "nonce", "dial", "call", "done"} /\ kind[r] # "detach"
                  => CanMove(r)
  BY DEF IInv, GraderInv, TypeOK, Stages, CanMove
<1> QED
  BY <1>1, Invariance, PTL
===============================================================================
