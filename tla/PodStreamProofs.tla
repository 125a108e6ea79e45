--------------------------- MODULE PodStreamProofs ---------------------------
(***************************************************************************)
(* Proofs about the two kinds of stream into a pod that a channel may run: *)
(* ExecStream, for any capacity of the size queue and any amount of input, *)
(* output and window changes, and PortForward, for any amount of data.     *)
(***************************************************************************)
EXTENDS ExecStream, PortForward, TLAPS

USE PtyAssumption, CapacityAssumption, BoundsAssumption

(* The invariant holds of a call that is about to dial.                     *)
LEMMA InitIInv == Init => IInv
<1> SUFFICES ASSUME Init PROVE IInv
  OBVIOUS
<1>0. FlagsOK
  BY Zenon DEF Init, FlagsOK
<1>1. TypeOK
  BY <1>0 DEF Init, TypeOK, Codes
<1>2. ChunksInOrder
  BY DEF Init, ChunksInOrder
<1>3. AgentStages
  BY DEF Init, AgentStages
<1>4. ExitCodeLast
  BY DEF Init, ExitCodeLast
<1>5. ErrorOrigin
  BY DEF Init, ErrorOrigin, Codes
<1> QED
  BY <1>1, <1>2, <1>3, <1>4, <1>5 DEF IInv

(* Flags are Boolean; apart from the rest, for a prover that knows no       *)
(* arithmetic.                                                              *)
LEMMA StepFlags == FlagsOK /\ [Next]_vars => FlagsOK'
<1> SUFFICES ASSUME FlagsOK, [Next]_vars PROVE FlagsOK'
  OBVIOUS
<1> USE DEF FlagsOK, ctxVars, clientVars, agentVars
<1>1. CASE Dial \/ DialFails \/ Returns
  BY <1>1, Zenon DEF Dial, DialFails, Returns
<1>2. CASE Receiver \/ ReceiverWrites
  BY <1>2, Zenon DEF Receiver, ReceiverChecks, ReceiverOutput, ReceiverWrites,
                     ReceiverExitCode, ReceiverExits, ReceiverError, Fail
<1>3. CASE StdinReader \/ Sender
  BY <1>3, Zenon DEF StdinReader, ReadStdin, ReadEOF, SendStdin, Sender,
                     SenderCancelled, SenderEnds, Fail
<1>4. CASE SizePump \/ TermSize
  BY <1>4, Zenon DEF SizePump, PumpNext, PumpPut, TermSize, TermSizeCancelled,
                     TermSizeSends, Fail
<1>5. CASE AgentHandler
  BY <1>5, Zenon DEF AgentHandler, StartCommand, StartFails, CommandLost, Wait, Report
<1>6. CASE AgentLoop \/ CopyIn \/ CopyOutput
  BY <1>6, Zenon DEF AgentLoop, LoopReceives, LoopError, CopyIn, CopyInput,
                     CopyInputEnds, CopyOutput
<1>7. CASE Environment
  BY <1>7, Zenon DEF Environment, CommandWrites, CommandExits, ClientTypes,
                     ClientEndsStdin, Fill, CancelContext, NetworkFails
<1>8. CASE UNCHANGED vars
  BY <1>8, Zenon DEF vars
<1> QED
  BY <1>1, <1>2, <1>3, <1>4, <1>5, <1>6, <1>7, <1>8 DEF Next

(* Every step of either side or of the environment preserves the invariant. *)
LEMMA StepIInv == IInv /\ [Next]_vars => IInv'
<1> SUFFICES ASSUME IInv, [Next]_vars PROVE IInv'
  OBVIOUS
<1> USE DEF IInv, TypeOK, ChunksInOrder, AgentStages, ExitCodeLast, ErrorOrigin,
            Codes, Exited, StreamDown, ctxVars, callVars, rcvVars, sndVars,
            sizeVars, clientVars, agentVars, cmdVars
<1>0. FlagsOK'
  BY StepFlags
<1>1. CASE Dial
  BY <1>0, <1>1 DEF Dial
<1>2. CASE DialFails
  BY <1>0, <1>2 DEF DialFails
<1>3. CASE Returns
  BY <1>0, <1>3 DEF Returns
<1>4. CASE ReceiverChecks
  BY <1>0, <1>4 DEF ReceiverChecks, Fail, GroupDone
<1>5. CASE ReceiverOutput
  BY <1>0, <1>5 DEF ReceiverOutput
<1>6. CASE ReceiverExitCode
  BY <1>0, <1>6 DEF ReceiverExitCode
<1>7. CASE ReceiverExits
  BY <1>0, <1>7 DEF ReceiverExits, Fail
<1>8. CASE ReceiverError
  BY <1>0, <1>8 DEF ReceiverError, Fail
<1>9. CASE ReadStdin
  BY <1>0, <1>9 DEF ReadStdin
<1>10. CASE ReadEOF
  BY <1>0, <1>10 DEF ReadEOF
<1>11. CASE SendStdin
  BY <1>0, <1>11 DEF SendStdin, StreamEnded
<1>12. CASE Sender
  BY <1>0, <1>12 DEF Sender, SenderCancelled, SenderEnds, Fail, GroupDone
<1>13. CASE SizePump
  BY <1>0, <1>13 DEF SizePump, PumpNext, PumpPut
<1>14. CASE TermSize
  BY <1>0, <1>14 DEF TermSize, TermSizeCancelled, TermSizeSends, Fail, StreamEnded, GroupDone
<1>15. CASE StartCommand
  BY <1>0, <1>15 DEF StartCommand
<1>16. CASE StartFails
  BY <1>0, <1>16 DEF StartFails
<1>17. CASE CommandLost
  BY <1>0, <1>17 DEF CommandLost
<1>18. CASE Wait
  BY <1>0, <1>18 DEF Wait
<1>19. CASE Report
  BY <1>0, <1>19 DEF Report
<1>20. CASE LoopReceives
  BY <1>0, <1>20 DEF LoopReceives
<1>21. CASE LoopError
  BY <1>0, <1>21 DEF LoopError
<1>22. CASE CopyIn
  BY <1>0, <1>22 DEF CopyIn, CopyInput, CopyInputEnds
<1>23. CASE CopyOutput
  BY <1>0, <1>23 DEF CopyOutput
<1>24. CASE CommandWrites
  BY <1>0, <1>24 DEF CommandWrites
<1>25. CASE CommandExits
  BY <1>0, <1>25 DEF CommandExits
<1>26. CASE ClientTypes \/ ClientEndsStdin
  BY <1>0, <1>26 DEF ClientTypes, ClientEndsStdin
<1>27. CASE Fill
  BY <1>0, <1>27 DEF Fill
<1>28. CASE CancelContext \/ NetworkFails
  BY <1>0, <1>28 DEF CancelContext, NetworkFails
<1>29. CASE UNCHANGED vars
  BY <1>0, <1>29 DEF vars
<1>30. CASE ReceiverWrites
  BY <1>0, <1>30 DEF ReceiverWrites
<1> QED
  BY <1>1, <1>2, <1>3, <1>4, <1>5, <1>6, <1>7, <1>8, <1>9, <1>10, <1>11, <1>12,
     <1>13, <1>14, <1>15, <1>16, <1>17, <1>18, <1>19, <1>20, <1>21, <1>22,
     <1>23, <1>24, <1>25, <1>26, <1>27, <1>28, <1>29, <1>30
  DEF Next, Receiver, StdinReader, AgentHandler, AgentLoop, Environment

(* CreateExecInPodgRPC and ExecCommandStream keep the inductive invariant.  *)
THEOREM Invariance == Spec => []IInv
<1>1. Init => IInv
  BY InitIInv
<1>2. IInv /\ [Next]_vars => IInv'
  BY StepIInv
<1> QED
  BY <1>1, <1>2, PTL DEF Spec

(* In a session without a pty the exit code reaches the ssh server only     *)
(* after all output of the command has been written to the channel.         *)
THEOREM NoOutputLost == Spec => []OutputBeforeExit
<1>1. IInv => OutputBeforeExit
  BY DEF IInv, TypeOK, ExitCodeLast, OutputBeforeExit
<1> QED
  BY <1>1, Invariance, PTL

(* What CreateExecInPodgRPC returns is what happened.                       *)
THEOREM TrueResult == Spec => []ResultIsTrue
<1>1. IInv => ResultIsTrue
  BY DEF IInv, TypeOK, ExitCodeLast, ErrorOrigin, ResultIsTrue, Codes
<1> QED
  BY <1>1, Invariance, PTL

-----------------------------------------------------------------------------
(***************************************************************************)
(* What CallReturns and AgentReleases rest on: nobody waits for someone    *)
(* who is gone.  The invariant says which goroutines exist at each stage   *)
(* and that an end that one of them reports has been brought about.        *)
(***************************************************************************)
Wakeups ==
  /\ call = "dial" => /\ rcv = "off" /\ snd = "off" /\ trm = "off"
                      /\ rd = "off" /\ errChan = "none"
  /\ call = "running" => rcv # "off" /\ snd # "off" /\ trm # "off"
  /\ rcv = "done" => group
  /\ errChan = "error" => StreamDown \/ StreamEnded
  /\ handler = "returned" => exitMsg # "none" \/ StreamDown
  /\ Exited => handler \in {"wait", "report", "returned"}
  /\ handler = "wait" =>
       copyOut # "off" /\ copyIn # "off" /\ loop # "off" /\ cmd # "none"
  /\ handler \in {"off", "start"} =>
       copyOut = "off" /\ copyIn = "off" /\ loop = "off" /\ cmd = "none"
  /\ loop = "gone" => pipeClosed

(* A group that ends is cancelled, an end of the stream stays, and a loop   *)
(* that ends closes its pipe.                                               *)
LEMMA NobodyMissed == Spec => []Wakeups
<1>1. Init => Wakeups
  BY DEF Init, Wakeups, Exited, Codes
<1>2. IInv /\ Wakeups /\ [Next]_vars => Wakeups'
  <2> SUFFICES ASSUME IInv, Wakeups, [Next]_vars PROVE Wakeups'
    OBVIOUS
  <2> USE DEF IInv, TypeOK, FlagsOK, Wakeups, Codes, Exited, StreamDown, StreamEnded,
              ctxVars, callVars, rcvVars, sndVars, sizeVars, clientVars, agentVars, cmdVars
  <2>1. CASE Dial \/ DialFails \/ Returns
    BY <2>1 DEF Dial, DialFails, Returns, AgentStages
  <2>2. CASE Receiver \/ ReceiverWrites
    BY <2>2 DEF Receiver, ReceiverChecks, ReceiverOutput, ReceiverWrites, ReceiverExitCode,
                ReceiverExits, ReceiverError, Fail
  <2>3. CASE StdinReader
    BY <2>3 DEF StdinReader, ReadStdin, ReadEOF, SendStdin
  <2>4. CASE Sender
    BY <2>4 DEF Sender, SenderCancelled, SenderEnds, Fail
  <2>5. CASE SizePump \/ TermSize
    BY <2>5 DEF SizePump, PumpNext, PumpPut, TermSize, TermSizeCancelled, TermSizeSends, Fail
  <2>6. CASE StartCommand
    BY <2>6 DEF StartCommand
  <2>7. CASE StartFails \/ CommandLost
    BY <2>7 DEF StartFails, CommandLost
  <2>8. CASE Wait \/ Report
    BY <2>8 DEF Wait, Report, AgentStages
  <2>9. CASE AgentLoop
    BY <2>9 DEF AgentLoop, LoopReceives, LoopError
  <2>10. CASE CopyIn \/ CopyOutput
    BY <2>10 DEF CopyIn, CopyInput, CopyInputEnds, CopyOutput
  <2>11. CASE CommandWrites \/ CommandExits
    BY <2>11 DEF CommandWrites, CommandExits, AgentStages
  <2>12. CASE ClientTypes \/ ClientEndsStdin \/ Fill
    BY <2>12 DEF ClientTypes, ClientEndsStdin, Fill
  <2>13. CASE CancelContext \/ NetworkFails
    BY <2>13 DEF CancelContext, NetworkFails
  <2>14. CASE UNCHANGED vars
    BY <2>14 DEF vars
  <2> QED
    BY <2>1, <2>2, <2>3, <2>4, <2>5, <2>6, <2>7, <2>8, <2>9, <2>10, <2>11, <2>12,
       <2>13, <2>14
    DEF Next, AgentHandler, Environment
<1> QED
  BY <1>1, <1>2, Invariance, PTL DEF Spec

(* What CallReturns says ends the call.                                     *)
CallEnds == outer \/ errChan = "error" \/ (Exited /\ (tty \/ copyIn = "gone"))

(* The conditions of the steps that the call, or what it waits for on the   *)
(* side of the agent, can take next.                                        *)
ReceiverCanMove ==
  \/ rcv \in {"check", "exiting"}
  \/ /\ rcv = "recv"
     /\ delivered < copied \/ exitMsg # "none" \/ StreamDown \/ handler = "failed"

HandlerCanMove ==
  \/ handler \in {"start", "report"}
  \/ /\ handler = "wait" /\ Exited
     /\ tty \/ (copyIn = "gone" /\ (copied = produced \/ copyOut = "gone"))
  \/ handler = "wait" /\ copyOut = "read" /\ copied < produced

CallCanMove ==
  \/ call = "dial" /\ outer
  \/ call = "running" /\ rcv = "done" /\ snd = "done" /\ trm = "done"
  \/ ReceiverCanMove
  \/ snd = "select" /\ GroupDone
  \/ trm = "select" /\ GroupDone
  \/ HandlerCanMove

(* A call that is to end because it is cancelled, a Send has failed or the  *)
(* command has ended is stuck nowhere but in a write to the ssh channel,    *)
(* which waits for the client: otherwise receiver, sender or                *)
(* termSizeHandler can go on, or the agent can, which then tells the        *)
(* receiver.                                                                *)
THEOREM CallNeverStuck ==
  Spec => [](CallEnds /\ call # "returned" /\ rcv # "write" => CallCanMove)
<1>1. IInv /\ Wakeups => (CallEnds /\ call # "returned" /\ rcv # "write" => CallCanMove)
  <2> SUFFICES ASSUME IInv, Wakeups, CallEnds, call # "returned", rcv # "write"
               PROVE  CallCanMove
    OBVIOUS
  <2> USE DEF IInv, TypeOK, FlagsOK, Wakeups, CallEnds, CallCanMove
  <2>1. CASE call = "dial"
    BY <2>1 DEF AgentStages, Exited, StreamDown, StreamEnded
  <2>2. CASE call = "running" /\ rcv = "done"
    BY <2>2 DEF GroupDone
  <2>3. CASE call = "running" /\ rcv = "recv"
    <3>1. delivered < copied \/ delivered = copied
      BY DEF ChunksInOrder
    <3>2. CASE StreamDown \/ handler = "failed" \/ exitMsg # "none"
      BY <2>3, <3>1, <3>2 DEF ReceiverCanMove
    <3>3. CASE ~StreamDown /\ handler # "failed" /\ exitMsg = "none"
      <4>1. ~outer /\ ~StreamEnded
        BY <3>3 DEF StreamDown, StreamEnded
      <4>2. Exited /\ (tty \/ copyIn = "gone") /\ handler \in {"wait", "report"}
        BY <3>3, <4>1 DEF StreamEnded
      <4>3. copied < produced \/ copied = produced
        BY DEF ChunksInOrder
      <4> QED
        BY <4>2, <4>3 DEF HandlerCanMove
    <3> QED
      BY <3>2, <3>3
  <2>4. CASE call = "running" /\ rcv \in {"check", "exiting"}
    BY <2>4 DEF ReceiverCanMove
  <2> QED
    BY <2>1, <2>2, <2>3, <2>4
<1> QED
  BY <1>1, Invariance, NobodyMissed, PTL

(* The handler of the agent is at work for a call that has returned.        *)
Abandoned == ~tty /\ call = "returned" /\ handler \in {"start", "wait", "report"}

(* The steps of the agent, and the exit of a command whose stdin is closed. *)
AgentCanMove ==
  \/ HandlerCanMove
  \/ loop = "recv" /\ StreamDown
  \/ loop = "write" /\ copyIn = "read"
  \/ pipeClosed /\ copyIn = "read"
  \/ cmd = "running" /\ StdinClosed

(* Without a pty the handler of the agent does not outlive the call for     *)
(* want of anyone to tell it: its loop, its copies or the command can go    *)
(* on until it has returned.                                                *)
THEOREM AgentNeverStuck == Spec => [](Abandoned => AgentCanMove)
<1>1. IInv /\ Wakeups => (Abandoned => AgentCanMove)
  <2> SUFFICES ASSUME IInv, Wakeups, ~tty, StreamDown,
                      handler \in {"start", "wait", "report"}
               PROVE  AgentCanMove
    BY DEF Abandoned, StreamDown
  <2> USE DEF IInv, TypeOK, FlagsOK, Wakeups, AgentCanMove
  <2>1. CASE handler \in {"start", "report"}
    BY <2>1 DEF HandlerCanMove
  <2>2. CASE handler = "wait" /\ copyIn = "gone"
    <3>1. copied < produced \/ copied = produced
      BY DEF ChunksInOrder
    <3>2. cmd = "running" \/ Exited
      BY <2>2 DEF Exited
    <3> QED
      BY <2>2, <3>1, <3>2 DEF HandlerCanMove, StdinClosed
  <2>3. CASE handler = "wait" /\ copyIn = "read"
    BY <2>3
  <2> QED
    BY <2>1, <2>2, <2>3
<1> QED
  BY <1>1, Invariance, NobodyMissed, PTL

(* How far the parts of a session have come.  What goes through a queue     *)
(* counts where it is put in and again where it is taken out: the sizes of  *)
(* the window, the chunks of stdin and those of the output.                 *)
CallRank == CASE call = "dial" -> 0 [] call = "running" -> 1 [] call = "returned" -> 2
ReceiverRank ==
  CASE rcv = "off" -> 0 [] rcv = "check" -> 1 [] rcv = "recv" -> 2 [] rcv = "write" -> 3
    [] rcv = "exiting" -> 4 [] rcv = "done" -> 5
MemberRank(s) == CASE s = "off" -> 0 [] s = "select" -> 1 [] s = "done" -> 2
ReaderRank == CASE rd \in {"off", "send"} -> 0 [] rd = "read" -> 1 [] rd = "gone" -> 2
HandlerRank ==
  CASE handler = "off" -> 0 [] handler = "start" -> 1 [] handler = "wait" -> 2
    [] handler = "report" -> 3 [] handler \in {"returned", "failed"} -> 4
LoopRank == CASE loop = "off" -> 0 [] loop = "write" -> 1 [] loop = "recv" -> 2 [] loop = "gone" -> 3
CopyRank(s) == CASE s = "off" -> 0 [] s = "read" -> 1 [] s = "gone" -> 2
CommandRank == CASE cmd = "none" -> 0 [] cmd = "running" -> 1 [] OTHER -> 2
Flag(b) == IF b THEN 1 ELSE 0

StdinDone == 3 * ReaderRank + 6 * taken + 2 * (MaxInput - upIn) + LoopRank + CopyRank(copyIn)
SizesDone == 2 * MemberRank(trm) + slot + (Capacity - winQueue) + 2 * resizes
OutputDone == ReceiverRank + 3 * delivered + copied + produced + CopyRank(copyOut)
ControlDone ==
  CallRank + MemberRank(snd) + HandlerRank + CommandRank + typed
    + Flag(outer) + Flag(broken) + Flag(eof)

StepsDone == StdinDone + SizesDone + OutputDone + ControlDone

(* What the ways of the goroutines and the data that passes them come to.   *)
Work == 36 + 9 * MaxInput + 5 * MaxOutput + 2 * MaxResizes + Capacity

(* Arithmetic for the sums: one of four numbers grows and none shrinks.     *)
LEMMA SumGrows ==
  \A a, b, c, d, e, f, g, h \in Nat :
    /\ a <= e /\ b <= f /\ c <= g /\ d <= h
    /\ a < e \/ b < f \/ c < g \/ d < h
    => a + b + c + d < e + f + g + h
  OBVIOUS

(* A measure that is equal or has grown is not smaller: the form in which the
   steps of a session bound it. *)
LEMMA Order == \A a, b \in Nat : b = a \/ a < b => a <= b
  OBVIOUS

(* A session takes no more steps than its data asks for: every step counts, *)
(* and their number is bounded.  No goroutine of server or agent spins, and *)
(* none goes back to work once it has ended.                                *)
THEOREM SessionRunsDown ==
  Spec => [](StepsDone \in 0 .. Work) /\ [][StepsDone < StepsDone']_vars
<1> USE CapacityAssumption, BoundsAssumption
<1>1. IInv => /\ StdinDone \in 0 .. 11 + 8 * MaxInput
              /\ SizesDone \in 0 .. 5 + Capacity + 2 * MaxResizes
              /\ OutputDone \in 0 .. 7 + 5 * MaxOutput
              /\ ControlDone \in 0 .. 13 + MaxInput
  <2> SUFFICES ASSUME IInv PROVE /\ StdinDone \in 0 .. 11 + 8 * MaxInput
                                 /\ SizesDone \in 0 .. 5 + Capacity + 2 * MaxResizes
                                 /\ OutputDone \in 0 .. 7 + 5 * MaxOutput
                                 /\ ControlDone \in 0 .. 13 + MaxInput
    OBVIOUS
  <2> USE DEF IInv, TypeOK
  <2>1. StdinDone \in 0 .. 11 + 8 * MaxInput
    BY DEF StdinDone, ReaderRank, LoopRank, CopyRank
  <2>2. SizesDone \in 0 .. 5 + Capacity + 2 * MaxResizes
    BY DEF SizesDone, MemberRank
  <2>3. OutputDone \in 0 .. 7 + 5 * MaxOutput
    BY DEF OutputDone, ReceiverRank, CopyRank
  <2>4. ControlDone \in 0 .. 13 + MaxInput
    BY DEF ControlDone, CallRank, MemberRank, HandlerRank, CommandRank, Flag
  <2> QED
    BY <2>1, <2>2, <2>3, <2>4
<1>2. IInv => StepsDone \in 0 .. Work
  BY <1>1 DEF StepsDone, Work
<1>3. IInv => StdinDone \in Nat /\ SizesDone \in Nat /\ OutputDone \in Nat /\ ControlDone \in Nat
  BY <1>1
<1>4. IInv' => (StdinDone \in Nat /\ SizesDone \in Nat /\ OutputDone \in Nat /\ ControlDone \in Nat)'
  BY <1>3, PTL
<1>5. IInv /\ Wakeups /\ [Next]_vars => [StepsDone < StepsDone']_vars
  <2> SUFFICES ASSUME IInv, Wakeups, Next PROVE StepsDone < StepsDone'
    OBVIOUS
  <2>1. /\ StdinDone \in Nat /\ SizesDone \in Nat /\ OutputDone \in Nat /\ ControlDone \in Nat
        /\ StdinDone' \in Nat /\ SizesDone' \in Nat /\ OutputDone' \in Nat /\ ControlDone' \in Nat
    BY <1>3, <1>4, StepIInv
  <2>2. ASSUME UNCHANGED <<rd, taken, upIn, loop, copyIn>>
        PROVE  StdinDone <= StdinDone'
    <3>1. StdinDone' = StdinDone
      BY <2>2 DEF StdinDone, ReaderRank, LoopRank, CopyRank
    <3> QED
      BY <2>1, <3>1, Order
  <2>3. ASSUME UNCHANGED <<trm, slot, winQueue, resizes>>
        PROVE  SizesDone <= SizesDone'
    <3>1. SizesDone' = SizesDone
      BY <2>3 DEF SizesDone, MemberRank
    <3> QED
      BY <2>1, <3>1, Order
  <2>4. ASSUME UNCHANGED <<rcv, delivered, copied, produced, copyOut>>
        PROVE  OutputDone <= OutputDone'
    <3>1. OutputDone' = OutputDone
      BY <2>4 DEF OutputDone, ReceiverRank, CopyRank
    <3> QED
      BY <2>1, <3>1, Order
  <2>5. ASSUME UNCHANGED <<call, snd, handler, cmd, typed, outer, broken, eof>>
        PROVE  ControlDone <= ControlDone'
    <3>1. ControlDone' = ControlDone
      BY <2>5 DEF ControlDone, CallRank, MemberRank, HandlerRank, CommandRank, Flag
    <3> QED
      BY <2>1, <3>1, Order
  <2>6. CASE Dial \/ DialFails \/ Returns
    <3>1. StdinDone <= StdinDone'
      BY <2>6 DEF IInv, TypeOK, FlagsOK, Wakeups, AgentStages, ctxVars, callVars, rcvVars, sndVars, sizeVars,
         clientVars, agentVars, cmdVars, Dial, DialFails, Returns, StdinDone, ReaderRank,
         LoopRank, CopyRank
    <3>2. SizesDone <= SizesDone'
      BY <2>6 DEF IInv, TypeOK, FlagsOK, Wakeups, AgentStages, ctxVars, callVars, rcvVars, sndVars, sizeVars,
         clientVars, agentVars, cmdVars, Dial, DialFails, Returns, SizesDone, MemberRank
    <3>3. OutputDone <= OutputDone'
      BY <2>6 DEF IInv, TypeOK, FlagsOK, Wakeups, AgentStages, ctxVars, callVars, rcvVars, sndVars, sizeVars,
         clientVars, agentVars, cmdVars, Dial, DialFails, Returns, OutputDone, ReceiverRank,
         CopyRank
    <3>4. ControlDone < ControlDone'
      BY <2>6 DEF IInv, TypeOK, FlagsOK, Wakeups, AgentStages, ctxVars, callVars, rcvVars, sndVars, sizeVars,
         clientVars, agentVars, cmdVars, Dial, DialFails, Returns, ControlDone, CallRank,
         MemberRank, HandlerRank, CommandRank, Flag
    <3> QED
      BY <2>1, <3>1, <3>2, <3>3, <3>4, SumGrows, Order DEF StepsDone
  <2>7. CASE Receiver \/ ReceiverWrites
    <3>1. OutputDone < OutputDone'
      BY <2>7 DEF IInv, TypeOK, FlagsOK, ctxVars, callVars, rcvVars, sndVars, sizeVars,
         clientVars, agentVars, cmdVars, Receiver, ReceiverChecks, ReceiverOutput, ReceiverWrites,
         ReceiverExitCode, ReceiverExits, ReceiverError, Fail, OutputDone, ReceiverRank,
         CopyRank
    <3>2. UNCHANGED <<rd, taken, upIn, loop, copyIn, trm, slot, winQueue, resizes, call, snd,
                      handler, cmd, typed, outer, broken, eof>>
      BY <2>7 DEF ctxVars, callVars, rcvVars, sndVars, sizeVars, clientVars, agentVars, cmdVars,
         Receiver, ReceiverChecks, ReceiverOutput, ReceiverWrites, ReceiverExitCode, ReceiverExits,
         ReceiverError, Fail
    <3> QED
      BY <2>1, <2>2, <2>3, <2>5, <3>1, <3>2, SumGrows, Order DEF StepsDone
  <2>8. CASE StdinReader
    <3>1. StdinDone < StdinDone'
      BY <2>8 DEF IInv, TypeOK, FlagsOK, ctxVars, callVars, rcvVars, sndVars, sizeVars,
         clientVars, agentVars, cmdVars, StdinReader, ReadStdin, ReadEOF, SendStdin, StdinDone,
         ReaderRank, LoopRank, CopyRank
    <3>2. UNCHANGED <<trm, slot, winQueue, resizes, rcv, delivered, copied, produced, copyOut,
                      call, snd, handler, cmd, typed, outer, broken, eof>>
      BY <2>8 DEF ctxVars, callVars, rcvVars, sndVars, sizeVars, clientVars, agentVars, cmdVars,
         StdinReader, ReadStdin, ReadEOF, SendStdin
    <3> QED
      BY <2>1, <2>3, <2>4, <2>5, <3>1, <3>2, SumGrows, Order DEF StepsDone
  <2>9. CASE Sender
    <3>1. ControlDone < ControlDone'
      BY <2>9 DEF IInv, TypeOK, FlagsOK, ctxVars, callVars, rcvVars, sndVars, sizeVars,
         clientVars, agentVars, cmdVars, Sender, SenderCancelled, SenderEnds, Fail, ControlDone,
         CallRank, MemberRank, HandlerRank, CommandRank, Flag
    <3>2. UNCHANGED <<rd, taken, upIn, loop, copyIn, trm, slot, winQueue, resizes, rcv,
                      delivered, copied, produced, copyOut>>
      BY <2>9 DEF ctxVars, callVars, rcvVars, sndVars, sizeVars, clientVars, agentVars, cmdVars,
         Sender, SenderCancelled, SenderEnds, Fail
    <3> QED
      BY <2>1, <2>2, <2>3, <2>4, <3>1, <3>2, SumGrows, Order DEF StepsDone
  <2>10. CASE SizePump \/ TermSize \/ Fill
    <3>1. SizesDone < SizesDone'
      BY <2>10 DEF IInv, TypeOK, FlagsOK, ctxVars, callVars, rcvVars, sndVars, sizeVars,
         clientVars, agentVars, cmdVars, SizePump, PumpNext, PumpPut, Fill, TermSize,
         TermSizeCancelled, TermSizeSends, Fail, SizesDone, MemberRank
    <3>2. UNCHANGED <<rd, taken, upIn, loop, copyIn, rcv, delivered, copied, produced, copyOut,
                      call, snd, handler, cmd, typed, outer, broken, eof>>
      BY <2>10 DEF ctxVars, callVars, rcvVars, sndVars, sizeVars, clientVars, agentVars, cmdVars,
         SizePump, PumpNext, PumpPut, Fill, TermSize, TermSizeCancelled, TermSizeSends, Fail
    <3> QED
      BY <2>1, <2>2, <2>4, <2>5, <3>1, <3>2, SumGrows, Order DEF StepsDone
  <2>11. CASE StartCommand \/ StartFails \/ CommandLost
    <3>1. StdinDone <= StdinDone'
      BY <2>11 DEF IInv, TypeOK, FlagsOK, Wakeups, ctxVars, callVars, rcvVars, sndVars, sizeVars,
         clientVars, agentVars, cmdVars, StartCommand, StartFails, CommandLost,
         StdinDone, ReaderRank, LoopRank, CopyRank
    <3>2. OutputDone <= OutputDone'
      BY <2>11 DEF IInv, TypeOK, FlagsOK, Wakeups, ctxVars, callVars, rcvVars, sndVars, sizeVars,
         clientVars, agentVars, cmdVars, StartCommand, StartFails, CommandLost,
         OutputDone, ReceiverRank, CopyRank
    <3>3. ControlDone < ControlDone'
      BY <2>11 DEF IInv, TypeOK, FlagsOK, Wakeups, ctxVars, callVars, rcvVars, sndVars, sizeVars,
         clientVars, agentVars, cmdVars, StartCommand, StartFails, CommandLost,
         ControlDone, CallRank, MemberRank, HandlerRank, CommandRank, Flag
    <3>4. UNCHANGED <<trm, slot, winQueue, resizes>>
      BY <2>11 DEF ctxVars, callVars, rcvVars, sndVars, sizeVars, clientVars, agentVars, cmdVars,
         StartCommand, StartFails, CommandLost
    <3> QED
      BY <2>1, <2>3, <3>1, <3>2, <3>3, <3>4, SumGrows, Order DEF StepsDone
  <2>12. CASE Wait \/ Report
    <3>1. ControlDone < ControlDone'
      BY <2>12 DEF IInv, TypeOK, FlagsOK, ctxVars, callVars, rcvVars, sndVars, sizeVars,
         clientVars, agentVars, cmdVars, Wait, Report, ControlDone, CallRank, MemberRank,
         HandlerRank, CommandRank, Flag
    <3>2. UNCHANGED <<rd, taken, upIn, loop, copyIn, trm, slot, winQueue, resizes, rcv,
                      delivered, copied, produced, copyOut>>
      BY <2>12 DEF ctxVars, callVars, rcvVars, sndVars, sizeVars, clientVars, agentVars, cmdVars,
         Wait, Report
    <3> QED
      BY <2>1, <2>2, <2>3, <2>4, <3>1, <3>2, SumGrows, Order DEF StepsDone
  <2>13. CASE AgentLoop \/ CopyIn
    <3>1. StdinDone < StdinDone'
      BY <2>13 DEF IInv, TypeOK, FlagsOK, ctxVars, callVars, rcvVars, sndVars, sizeVars,
         clientVars, agentVars, cmdVars, AgentLoop, LoopReceives, LoopError, CopyIn, CopyInput,
         CopyInputEnds, StdinDone, ReaderRank, LoopRank, CopyRank
    <3>2. UNCHANGED <<trm, slot, winQueue, resizes, rcv, delivered, copied, produced, copyOut,
                      call, snd, handler, cmd, typed, outer, broken, eof>>
      BY <2>13 DEF ctxVars, callVars, rcvVars, sndVars, sizeVars, clientVars, agentVars, cmdVars,
         AgentLoop, LoopReceives, LoopError, CopyIn, CopyInput, CopyInputEnds
    <3> QED
      BY <2>1, <2>3, <2>4, <2>5, <3>1, <3>2, SumGrows, Order DEF StepsDone
  <2>14. CASE CopyOutput \/ CommandWrites
    <3>1. OutputDone < OutputDone'
      BY <2>14 DEF IInv, TypeOK, FlagsOK, ctxVars, callVars, rcvVars, sndVars, sizeVars,
         clientVars, agentVars, cmdVars, CopyOutput, CommandWrites, OutputDone, ReceiverRank,
         CopyRank
    <3>2. UNCHANGED <<rd, taken, upIn, loop, copyIn, trm, slot, winQueue, resizes, call, snd,
                      handler, cmd, typed, outer, broken, eof>>
      BY <2>14 DEF ctxVars, callVars, rcvVars, sndVars, sizeVars, clientVars, agentVars, cmdVars,
         CopyOutput, CommandWrites
    <3> QED
      BY <2>1, <2>2, <2>3, <2>5, <3>1, <3>2, SumGrows, Order DEF StepsDone
  <2>15. CASE CommandExits \/ ClientTypes \/ ClientEndsStdin \/ CancelContext \/ NetworkFails
    <3>1. ControlDone < ControlDone'
      BY <2>15 DEF IInv, TypeOK, FlagsOK, ctxVars, callVars, rcvVars, sndVars, sizeVars,
         clientVars, agentVars, cmdVars, CommandExits, ClientTypes, ClientEndsStdin,
         CancelContext, NetworkFails, Exited, Codes, ControlDone, CallRank, MemberRank,
         HandlerRank, CommandRank, Flag
    <3>2. UNCHANGED <<rd, taken, upIn, loop, copyIn, trm, slot, winQueue, resizes, rcv,
                      delivered, copied, produced, copyOut>>
      BY <2>15 DEF ctxVars, callVars, rcvVars, sndVars, sizeVars, clientVars, agentVars, cmdVars,
         CommandExits, ClientTypes, ClientEndsStdin, CancelContext, NetworkFails, Exited, Codes
    <3> QED
      BY <2>1, <2>2, <2>3, <2>4, <3>1, <3>2, SumGrows, Order DEF StepsDone
  <2> QED
    BY <2>6, <2>7, <2>8, <2>9, <2>10, <2>11, <2>12, <2>13, <2>14, <2>15
    DEF Next, AgentHandler, Environment
<1> QED
  BY <1>2, <1>5, Invariance, NobodyMissed, PTL DEF Spec

-----------------------------------------------------------------------------
(* The port forward.                                                        *)

(* The goroutine of the error stream reports only what the stream carried,  *)
(* as long as the connection is open.                                       *)
ForwardIInv ==
  /\ ForwardInv
  /\ go["error"] = "send" => Returned \/ errorEnd \in {"message", "reset"}

(* The initial state satisfies the invariant.                               *)
LEMMA InitForward == ForwardInit => ForwardIInv
<1> SUFFICES ASSUME ForwardInit PROVE ForwardIInv
  OBVIOUS
<1>1. podClosed \in BOOLEAN /\ cancelled \in BOOLEAN /\ closeSent \in BOOLEAN
  BY DEF ForwardInit
<1>2. 0 \in 0..MaxData
  BY MaxDataAssumption
<1>3. ForwardTypeOK
  BY <1>1, <1>2 DEF ForwardInit, ForwardTypeOK, Results, Goroutines
<1>4. forwarded <= sent
  BY DEF ForwardInit
<1> QED
  BY <1>3, <1>4 DEF ForwardInit, ForwardIInv, ForwardInv, Returned,
                    Goroutines

(* Every step keeps it.                                                     *)
LEMMA StepForward == ForwardIInv /\ [ForwardNext]_forwardVars => ForwardIInv'
<1> SUFFICES ASSUME ForwardIInv, [ForwardNext]_forwardVars PROVE ForwardIInv'
  OBVIOUS
<1> USE MaxDataAssumption
    DEF ForwardIInv, ForwardInv, ForwardTypeOK, Results,
        Goroutines, Returned, environment, carried
<1>1. CASE DialPod
  BY <1>1 DEF DialPod
<1>2. CASE CreateErrorStream
  BY <1>2 DEF CreateErrorStream
<1>3. CASE CreateDataStream
  BY <1>3 DEF CreateDataStream
<1>4. CASE ForwardFails
  BY <1>4 DEF ForwardFails, Return
<1>5. CASE SelectCancelled
  BY <1>5 DEF SelectCancelled, Return
<1>6. CASE SelectError
  BY <1>6 DEF SelectError, Return
<1>7. ASSUME NEW g \in {"down", "up"}, SelectCopyDone(g) PROVE ForwardIInv'
  BY <1>7 DEF SelectCopyDone, Return
<1>8. CASE CloseChannel
  BY <1>8 DEF CloseChannel
<1>9. CASE ErrorStreamRead
  BY <1>9 DEF ErrorStreamRead
<1>10. CASE CopyDownReads \/ CopyDownWrites
  BY <1>10 DEF CopyDownReads, CopyDownWrites
<1>11. CASE CopyDownFails \/ CopyDownEnds
  BY <1>11 DEF CopyDownFails, CopyDownEnds
<1>12. CASE CopyUp
  BY <1>12 DEF CopyUp, CopyUpReads, CopyUpWrites, CopyUpFails, CopyUpEnds
<1>13. CASE PodSends
  <2>1. podClosed = FALSE
    BY <1>13 DEF PodSends
  <2> QED
    BY <1>13, <2>1 DEF PodSends
<1>14. ASSUME NEW e \in {"eof", "message", "reset"}, ErrorStreamEnds(e)
       PROVE  ForwardIInv'
  BY <1>14 DEF ErrorStreamEnds
<1>15. ASSUME NEW s \in {"eof", "closed"}, ClientEnds(s) PROVE ForwardIInv'
  BY <1>15 DEF ClientEnds
<1>16. CASE Cancel
  BY <1>16 DEF Cancel
<1>17. CASE PodCloses
  BY <1>17 DEF PodCloses
<1>18. CASE UNCHANGED forwardVars
  BY <1>18 DEF forwardVars
<1> QED
  BY <1>1, <1>2, <1>3, <1>4, <1>5, <1>6, <1>7, <1>8, <1>9, <1>10, <1>11, <1>12, <1>13,
     <1>14, <1>15, <1>16, <1>17, <1>18
  DEF ForwardNext, Start, Select, CopyDown, ForwardEnvironment

(* What CreatePodPortForward returns has happened, and a forward that ended *)
(* because the pod did has delivered everything.                            *)
THEOREM Forwarding == ForwardSpec => []ForwardInv
<1>1. ForwardInit => ForwardIInv
  BY InitForward
<1>2. ForwardIInv /\ [ForwardNext]_forwardVars => ForwardIInv'
  BY StepForward
<1>3. ForwardIInv => ForwardInv
  BY DEF ForwardIInv
<1> QED
  BY <1>1, <1>2, <1>3, PTL DEF ForwardSpec

-----------------------------------------------------------------------------
(* What ForwardEnds and CopiesStop rest on, for any amount of data.         *)

(* The goroutines exist once their streams do.                              *)
ForwardStages ==
  /\ main \in {"dataStream", "select"} => go["error"] # "off"
  /\ main = "select" => go["down"] # "off" /\ go["up"] # "off"
  /\ go["error"] # "write"

(* No step starts a goroutine late.                                         *)
LEMMA ForwardStaged == ForwardSpec => []ForwardStages
<1>1. ForwardInit => ForwardStages
  BY DEF ForwardInit, ForwardStages, Goroutines
<1>2. ForwardIInv /\ ForwardStages /\ [ForwardNext]_forwardVars => ForwardStages'
  <2> SUFFICES ASSUME ForwardIInv, ForwardStages, [ForwardNext]_forwardVars
               PROVE  ForwardStages'
    OBVIOUS
  <2> USE DEF ForwardIInv, ForwardInv, ForwardTypeOK, Goroutines, ForwardStages, environment,
              carried
  <2>1. CASE Start
    BY <2>1 DEF Start, DialPod, CreateErrorStream, CreateDataStream, ForwardFails, Return
  <2>2. CASE Select
    BY <2>2 DEF Select, SelectCancelled, SelectError, SelectCopyDone, Return
  <2>3. CASE CloseChannel
    BY <2>3 DEF CloseChannel
  <2>4. CASE ErrorStreamRead
    BY <2>4 DEF ErrorStreamRead
  <2>5. CASE CopyDown
    BY <2>5 DEF CopyDown, CopyDownReads, CopyDownWrites, CopyDownFails, CopyDownEnds
  <2>6. CASE CopyUp
    BY <2>6 DEF CopyUp, CopyUpReads, CopyUpWrites, CopyUpFails, CopyUpEnds
  <2>7. CASE ForwardEnvironment
    BY <2>7 DEF ForwardEnvironment, PodSends, PodCloses, ErrorStreamEnds, ClientEnds, Cancel
  <2>8. CASE UNCHANGED forwardVars
    BY <2>8 DEF forwardVars
  <2> QED
    BY <2>1, <2>2, <2>3, <2>4, <2>5, <2>6, <2>7, <2>8 DEF ForwardNext
<1>3. ForwardSpec => []ForwardIInv
  BY InitForward, StepForward, PTL DEF ForwardSpec
<1> QED
  BY <1>1, <1>2, <1>3, PTL DEF ForwardSpec

(* What ForwardEnds says ends a forward.                                    *)
ForwardOver == channel = "closed" \/ errorEnd # "open" \/ cancelled

(* The handler can go on, or a goroutine that will report to its select.    *)
ForwardCanMove ==
  \/ main \in {"errorStream", "dataStream", "returned"}
  \/ /\ main = "select"
     /\ \/ cancelled
        \/ go["error"] \in {"send", "end"}
        \/ go["down"] = "send" \/ go["up"] = "send"
        \/ go["error"] = "run" /\ errorEnd # "open"
        \/ go["up"] = "run" /\ channel # "open"

(* A forward that the client, the error stream or the context has ended is  *)
(* stuck only in its dial or behind a write to the pod, never in its        *)
(* select: the report of a goroutine that it needs is there or on its way,  *)
(* and was not received by anyone else.                                     *)
THEOREM ForwardNeverStuck ==
  ForwardSpec => [](ForwardOver /\ main \notin {"dial", "done"} /\ go["up"] # "write"
                      => ForwardCanMove)
<1>1. ForwardInv /\ ForwardStages =>
        (ForwardOver /\ main \notin {"dial", "done"} /\ go["up"] # "write"
           => ForwardCanMove)
  BY DEF ForwardInv, ForwardTypeOK, Goroutines, Returned, ForwardStages, ForwardOver,
         ForwardCanMove
<1> QED
  BY <1>1, Forwarding, ForwardStaged, PTL

(* How far the goroutines of a forward have come after it has returned.     *)
GoRank(s) ==
  CASE s = "off" -> 0 [] s = "run" -> 1 [] s = "write" -> 2 [] s = "send" -> 3 [] s = "end" -> 4
ChannelRank == CASE channel = "open" -> 0 [] channel = "eof" -> 1 [] channel = "closed" -> 2

Remaining ==
  (IF main = "done" THEN 0 ELSE 1) + (IF cancelled THEN 0 ELSE 1) + (2 - ChannelRank)
    + (4 - GoRank(go["error"])) + (4 - GoRank(go["down"])) + (4 - GoRank(go["up"]))
    + 2 * (sent - forwarded) + 2 * (MaxData - uploaded)

(* After the return every step leaves less to do.                           *)
CopiesRunDown ==
  Returned => Remaining' < Remaining /\ Remaining' \in Nat

(* What a forward leaves behind when CreatePodPortForward has returned      *)
(* comes to rest within a number of steps that is bounded by the data: no   *)
(* goroutine goes back to work.                                             *)
THEOREM ForwardRunsDown == ForwardSpec => [][CopiesRunDown]_forwardVars
<1>1. ForwardIInv /\ [ForwardNext]_forwardVars => [CopiesRunDown]_forwardVars
  <2> SUFFICES ASSUME ForwardIInv, ForwardNext, Returned
               PROVE  Remaining' < Remaining /\ Remaining' \in Nat
    BY DEF CopiesRunDown
  <2> USE MaxDataAssumption
      DEF ForwardIInv, ForwardInv, ForwardTypeOK, Goroutines, Returned, environment, carried,
          Remaining, GoRank, ChannelRank
  <2>1. CASE Start \/ Select
    BY <2>1 DEF Start, DialPod, CreateErrorStream, CreateDataStream, ForwardFails,
                Select, SelectCancelled, SelectError, SelectCopyDone
  <2>2. CASE CloseChannel
    BY <2>2 DEF CloseChannel
  <2>3. CASE ErrorStreamRead
    BY <2>3 DEF ErrorStreamRead
  <2>4. CASE CopyDownReads \/ CopyDownWrites
    BY <2>4 DEF CopyDownReads, CopyDownWrites
  <2>5. CASE CopyDownFails \/ CopyDownEnds
    BY <2>5 DEF CopyDownFails, CopyDownEnds
  <2>6. CASE CopyUpReads \/ CopyUpWrites
    BY <2>6 DEF CopyUpReads, CopyUpWrites
  <2>7. CASE CopyUpFails \/ CopyUpEnds
    BY <2>7 DEF CopyUpFails, CopyUpEnds
  <2>8. CASE ForwardEnvironment
    BY <2>8 DEF ForwardEnvironment, PodSends, PodCloses, ErrorStreamEnds, ClientEnds, Cancel
  <2> QED
    BY <2>1, <2>2, <2>3, <2>4, <2>5, <2>6, <2>7, <2>8 DEF ForwardNext, CopyDown, CopyUp
<1>2. ForwardSpec => []ForwardIInv
  BY InitForward, StepForward, PTL DEF ForwardSpec
<1> QED
  BY <1>1, <1>2, PTL DEF ForwardSpec

(* A goroutine that is still at work can end without the client: the        *)
(* connection to the api server is closed.                                  *)
EndsAlone(g) ==
  /\ conn = "closed"
  /\ \/ g = "error"
     \/ g = "down" /\ go[g] = "run"
     \/ g = "up" /\ go[g] = "write"

(* It waits for the client: to read, or to send something.                  *)
WaitsForClient(g) ==
  /\ channel # "closed"
  /\ \/ g = "down" /\ go[g] = "write"
     \/ g = "up" /\ go[g] = "run" /\ channel = "open"

(* It ends because of what the client did.                                  *)
EndedByClient(g) ==
  \/ g = "down" /\ go[g] = "write" /\ channel = "closed"
  \/ g = "up" /\ go[g] = "run" /\ channel # "open"

(* What a returned forward leaves behind waits for nobody but the client:   *)
(* never for the pod or the api server.  The two copies do wait for a       *)
(* client that does not answer the close of the channel.                    *)
THEOREM CopiesNeverStuck ==
  ForwardSpec =>
    [](Returned => \A g \in Goroutines :
         go[g] \in {"run", "write"} => EndsAlone(g) \/ EndedByClient(g) \/ WaitsForClient(g))
<1>1. ForwardInv =>
        (Returned => \A g \in Goroutines :
           go[g] \in {"run", "write"} => EndsAlone(g) \/ EndedByClient(g) \/ WaitsForClient(g))
  BY DEF ForwardInv, ForwardTypeOK, Goroutines, EndsAlone, EndedByClient, WaitsForClient
<1> QED
  BY <1>1, Forwarding, PTL
=============================================================================
