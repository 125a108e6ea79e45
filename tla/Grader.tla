-------------------------------- MODULE Grader --------------------------------
(***************************************************************************)
(* Grading (grader): the tool of a user sends a solution to the grader,    *)
(* which writes it to a file, runs it on every input of the exercise and   *)
(* compares what it prints.  Requests are served concurrently, and they    *)
(* meet in the kernel: a process that is forked while the file of another  *)
(* request is open for writing holds that file until its own exec, and a   *)
(* file that somebody holds open for writing cannot be executed.           *)
(***************************************************************************)
EXTENDS Naturals

CONSTANTS
  Requests,
  Inputs \* bound: the number of input files of the exercise

ASSUME InputsAssumption == Inputs \in Nat

VARIABLES
  step,     \* where each request is
  kind,     \* what its program does: good, wrong (for the last input),
            \* crash, or detach (it leaves a child that keeps its output open)
  solution, \* what was sent: none, content, or empty
  inherits, \* the requests whose file the forked child of a request holds
  passed,   \* how many inputs the program has passed
  reply,    \* none, error, zero or full points
  cause     \* history: why there was an error

vars == <<step, kind, solution, inherits, passed, reply, cause>>

Kinds == {"good", "wrong", "crash", "detach"}
Causes == {"none", "client", "disk", "notExecutable", "busy", "crash", "timeout"}

TypeOK ==
  /\ step \in [Requests -> {"idle", "nonce", "dial", "call", "create", "open", "list",
                             "next", "forked", "running", "held", "killed", "done"}]
  /\ kind \in [Requests -> Kinds]
  /\ solution \in [Requests -> {"none", "content", "empty"}]
  /\ inherits \in [Requests -> SUBSET Requests]
  /\ passed \in [Requests -> 0..Inputs]
  /\ reply \in [Requests -> {"none", "error", "zero", "full"}]
  /\ cause \in [Requests -> Causes]

Init ==
  /\ step = [r \in Requests |-> "idle"]
  /\ kind \in [Requests -> Kinds]
  /\ solution = [r \in Requests |-> "none"]
  /\ inherits = [r \in Requests |-> {}]
  /\ passed = [r \in Requests |-> 0]
  /\ reply = [r \in Requests |-> "none"]
  /\ cause = [r \in Requests |-> "none"]

Goto(r, s) == step' = [step EXCEPT ![r] = s]

Reply(r, p, c) ==
  /\ Goto(r, "done")
  /\ reply' = [reply EXCEPT ![r] = p]
  /\ cause' = [cause EXCEPT ![r] = c]

-----------------------------------------------------------------------------
(* SendGradingRequest: a nonce file, the solution, the connection, the call. *)
CreateNonce(r) ==
  /\ step[r] = "idle"
  /\ Goto(r, "nonce")
  /\ UNCHANGED <<kind, solution, inherits, passed, reply, cause>>

(* A solution that cannot be read is sent as an empty one.                  *)
ReadSolution(r) ==
  /\ step[r] = "nonce"
  /\ \E s \in {"content", "empty"} : solution' = [solution EXCEPT ![r] = s]
  /\ Goto(r, "dial")
  /\ UNCHANGED <<kind, inherits, passed, reply, cause>>

(* The dial blocks until the grader is reached: it has no deadline, so that *)
(* there is no error but to wait.                                           *)
Dial(r) ==
  /\ step[r] = "dial"
  /\ Goto(r, "call")
  /\ UNCHANGED <<kind, solution, inherits, passed, reply, cause>>

CallGrader(r) ==
  /\ step[r] = "call"
  /\ Goto(r, "create")
  /\ UNCHANGED <<kind, solution, inherits, passed, reply, cause>>

(* The tool cannot connect to its store at the start (gradeapi.New) or      *)
(* create the nonce, or the connection breaks before the call.              *)
SendFails(r) ==
  /\ step[r] \in {"idle", "call"}
  /\ Reply(r, "error", "client")
  /\ UNCHANGED <<kind, solution, inherits, passed>>

-----------------------------------------------------------------------------
(* writeFileToDisk: the file is open for writing while it is written, made  *)
(* executable and synced.                                                   *)
OpenFile(r) ==
  /\ step[r] = "create"
  /\ Goto(r, "open")
  /\ UNCHANGED <<kind, solution, inherits, passed, reply, cause>>

CloseFile(r) ==
  /\ step[r] = "open"
  /\ Goto(r, "list")
  /\ UNCHANGED <<kind, solution, inherits, passed, reply, cause>>

(* GradeExerciseType1 reads the directory of the inputs.                    *)
ReadInputs(r) ==
  /\ step[r] = "list"
  /\ Goto(r, "next")
  /\ UNCHANGED <<kind, solution, inherits, passed, reply, cause>>

DiskFails(r) ==
  /\ step[r] \in {"create", "open", "list"}
  /\ Reply(r, "error", "disk")
  /\ UNCHANGED <<kind, solution, inherits, passed>>

(* executeCommand for the next input: fork ...                              *)
Fork(r) ==
  /\ step[r] = "next"
  /\ passed[r] < Inputs
  /\ inherits' = [inherits EXCEPT ![r] = {q \in Requests : step[q] = "open"}]
  /\ Goto(r, "forked")
  /\ UNCHANGED <<kind, solution, passed, reply, cause>>

(* ... and exec, which closes what the child has inherited.                 *)
Exec(r) ==
  /\ step[r] = "forked"
  /\ inherits' = [inherits EXCEPT ![r] = {}]
  /\ CASE \E q \in Requests : r \in inherits[q] -> Reply(r, "error", "busy")
       [] solution[r] = "empty" -> Reply(r, "error", "notExecutable")
       [] OTHER -> Goto(r, "running") /\ UNCHANGED <<reply, cause>>
  /\ UNCHANGED <<kind, solution, passed>>

(* The output is compared, and the loop goes on with the next input or ends *)
(* with the first that does not match.                                      *)
Compare(r) ==
  IF kind[r] = "wrong" /\ passed[r] + 1 = Inputs
    THEN Reply(r, "zero", "none") /\ UNCHANGED passed
    ELSE /\ passed' = [passed EXCEPT ![r] = @ + 1]
         /\ Goto(r, "next")
         /\ UNCHANGED <<reply, cause>>

(* The program exits.  Output returns only when nobody has the pipe open:   *)
(* a child left behind holds it.                                            *)
Exit(r) ==
  /\ step[r] = "running"
  /\ CASE kind[r] = "crash" -> Reply(r, "error", "crash") /\ UNCHANGED passed
       [] kind[r] = "detach" -> Goto(r, "held") /\ UNCHANGED <<passed, reply, cause>>
       [] OTHER -> Compare(r)
  /\ UNCHANGED <<kind, solution, inherits>>

(* Of a killed program the error is all that is left to return.             *)
ChildEnds(r) ==
  /\ \/ step[r] = "held" /\ Compare(r)
     \/ step[r] \in {"held", "killed"} /\ Reply(r, "error", "timeout") /\ UNCHANGED passed
  /\ UNCHANGED <<kind, solution, inherits>>

(* Mutant: a program that runs has no deadline.                             *)
TimeoutIdle(r) ==
  /\ step[r] = "next"
  /\ passed[r] < Inputs
  /\ Reply(r, "error", "timeout")
  /\ UNCHANGED <<kind, solution, inherits, passed>>

(* The time of one execution or of the request is over, or the user is      *)
(* gone: the program is not started, or it is killed.  Output also waits    *)
(* for the child a killed program may have left behind by then.             *)
Timeout(r) ==
  /\ step[r] = "running" \/ (step[r] = "next" /\ passed[r] < Inputs)
  /\ \/ Reply(r, "error", "timeout")
     \/ step[r] = "running" /\ kind[r] = "detach" /\ Goto(r, "killed") /\ UNCHANGED <<reply, cause>>
  /\ UNCHANGED <<kind, solution, inherits, passed>>

(* Mutant: the points are given after the first input that matches.         *)
GradeFirst(r) ==
  /\ step[r] = "next"
  /\ passed[r] > 0
  /\ Reply(r, "full", "none")
  /\ UNCHANGED <<kind, solution, inherits, passed>>

(* GradeExerciseType1 returns 100 points after the last input.              *)
Grade(r) ==
  /\ step[r] = "next"
  /\ passed[r] = Inputs
  /\ Reply(r, "full", "none")
  /\ UNCHANGED <<kind, solution, inherits, passed>>

(* The tool, up to the grader: it may never get there.                      *)
Send(r) ==
  CreateNonce(r) \/ ReadSolution(r) \/ Dial(r) \/ CallGrader(r) \/ SendFails(r)

(* The grader, which goes on by itself; a program need not exit, nor its    *)
(* children.                                                                *)
Serve(r) ==
  \/ OpenFile(r) \/ CloseFile(r) \/ ReadInputs(r) \/ DiskFails(r)
  \/ Fork(r) \/ Exec(r) \/ Timeout(r) \/ Grade(r)

Next == \E r \in Requests : Send(r) \/ Serve(r) \/ Exit(r) \/ ChildEnds(r)

Spec == Init /\ [][Next]_vars
FairSpec == Spec /\ \A r \in Requests : WF_vars(Serve(r))

-----------------------------------------------------------------------------
(* Full points are given only to a program that was sent, passed every      *)
(* input and is neither wrong nor crashing, provided that there is an       *)
(* input (without one anything passes); no points only to a wrong program;  *)
(* and an error of a good program that did arrive is one of the disk, of    *)
(* the time limits, or of a concurrent request (RequestGrading).            *)
GraderInv ==
  /\ TypeOK
  /\ \A r \in Requests :
       /\ reply[r] = "full" =>
            /\ passed[r] = Inputs
            /\ Inputs > 0 => solution[r] = "content" /\ kind[r] \notin {"wrong", "crash"}
       /\ reply[r] = "zero" => kind[r] = "wrong"
       /\ (reply[r] = "error" /\ kind[r] = "good" /\ solution[r] = "content") =>
            cause[r] \in {"client", "disk", "timeout", "busy"}
       /\ inherits[r] # {} => step[r] = "forked" /\ r \notin inherits[r]
       /\ cause[r] = "busy" => \E q \in Requests : q # r /\ step[q] # "idle"
       /\ step[r] \in {"running", "held", "killed"} => solution[r] = "content"
       /\ (passed[r] > 0 => solution[r] = "content" /\ kind[r] # "crash")
       /\ (kind[r] = "wrong" => (Inputs > 0 => passed[r] < Inputs))

(* Every request that has reached the grader is answered, whatever its      *)
(* program does and whatever the other requests do, unless it leaves a      *)
(* child behind that keeps its output open: the time limits kill only the   *)
(* program.  Before that the tool may wait for ever: its dial has no limit. *)
RequestsEnd ==
  \A r \in Requests :
    (step[r] \notin {"idle", "nonce", "dial", "call"} /\ kind[r] # "detach") ~> step[r] = "done"
=============================================================================
