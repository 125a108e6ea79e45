----------------------------- MODULE ExecStream ------------------------------
(***************************************************************************)
(* A command in a user's pod, driven over one gRPC stream: the side of the *)
(* ssh server (CreateExecInPodgRPC in agent/vmapi/vmapi.go, called for a   *)
(* shell or a subsystem) and the side of the agent (ExecCommandStream in   *)
(* agent/vmapi/exec.go).                                                   *)
(*                                                                         *)
(* The ssh server runs receiver, sender and termSizeHandler in an error    *)
(* group, and below them the goroutine that reads stdin and the one that   *)
(* reads the terminal size queue, which no one joins.  The agent runs its  *)
(* handler, a loop that receives stdin, and copies from and to the         *)
(* command, through a pty if the client asked for one and through pipes    *)
(* otherwise.                                                              *)
(*                                                                         *)
(* Chunks of input and output are counted, not named: they are passed on   *)
(* in order.  The stream keeps the order of messages; a Send does not wait *)
(* for the message to arrive.  A Send is one step here, although sender's  *)
(* goroutine and termSizeHandler may be inside Send at the same time.      *)
(***************************************************************************)
EXTENDS Naturals

CONSTANTS
  PtyModes,    \* whether sessions have a pty: a subset of BOOLEAN
  Capacity,    \* capacity of the terminal size queue
  MaxInput,    \* bound on the chunks the client types
  MaxOutput,   \* bound on the chunks the command writes
  MaxResizes   \* bound on the window changes of the client

ASSUME PtyAssumption == PtyModes \subseteq BOOLEAN
ASSUME CapacityAssumption == Capacity \in Nat \ {0}
ASSUME BoundsAssumption ==
  MaxInput \in Nat /\ MaxOutput \in Nat /\ MaxResizes \in Nat

VARIABLES
  tty,        \* whether the client requested a pty
  outer,      \* the context of Serve, under which the stream runs, is done
  group,      \* the context of the error group was cancelled
  broken,     \* the network between ssh server and pod failed
  call,       \* program counter of CreateExecInPodgRPC
  firstErr,   \* the error Wait of the group will return
  rcv, got,   \* receiver: program counter, exit code it received
  snd,        \* program counter of sender
  rd,         \* program counter of sender's goroutine that reads stdin
  errChan,    \* content of errChan, of capacity one
  trm,        \* program counter of termSizeHandler
  pump, slot, \* its goroutine; number of entries of its channel queue
  winQueue,   \* number of entries of rd.terminalResizer
  resizes,    \* window changes so far
  typed, eof, \* chunks typed by the client so far; whether it ended stdin
  taken, upIn,\* chunks read by rd so far; chunks in the stream to the agent
  handler,    \* program counter of ExecCommandStream
  loop,       \* program counter of its receive loop
  pipeClosed, \* the writing end of its io.Pipe was closed
  cmd,        \* the command: "none", "running" or how it exited
  copyIn, copyOut,  \* the copies to and from the command
  produced,   \* chunks the command has written so far
  copied,     \* chunks copied from the command into the stream so far
  delivered,  \* chunks receiver has written to the ssh channel so far
  exitMsg     \* the exit code in the stream, behind all copied chunks

ctxVars    == <<outer, group, broken>>
callVars   == <<call, firstErr>>
rcvVars    == <<rcv, got, delivered>>
sndVars    == <<snd, rd, errChan, taken>>
sizeVars   == <<trm, pump, slot, winQueue, resizes>>
clientVars == <<tty, typed, eof>>
agentVars  == <<handler, loop, pipeClosed, exitMsg>>
cmdVars    == <<cmd, copyIn, copyOut, produced, copied>>
vars == <<ctxVars, callVars, rcvVars, sndVars, sizeVars, clientVars, upIn,
          agentVars, cmdVars>>

(* What the agent reports: zero, a positive exit code, or -1 for a command  *)
(* that was killed or, with a pty, did not start.                           *)
Codes == {"exit0", "exit1", "internal"}
Exited == cmd \in Codes

FlagsOK ==
  /\ tty \in BOOLEAN
  /\ outer \in BOOLEAN /\ group \in BOOLEAN /\ broken \in BOOLEAN
  /\ eof \in BOOLEAN /\ pipeClosed \in BOOLEAN

(* Every variable has a value of its type.                                  *)
TypeOK ==
  /\ FlagsOK
  /\ call \in {"dial", "running", "returned"}
  /\ firstErr \in {"none", "cancelled", "eof", "error"} \cup Codes
  /\ rcv \in {"off", "check", "recv", "write", "exiting", "done"}
  /\ got \in {"none"} \cup Codes
  /\ snd \in {"off", "select", "done"}
  /\ rd \in {"off", "read", "send", "gone"}
  /\ errChan \in {"none", "eof", "error"}
  /\ trm \in {"off", "select", "done"}
  /\ pump \in {"off", "next", "put"}
  /\ slot \in 0 .. 1
  /\ winQueue \in 0 .. Capacity
  /\ resizes \in 0 .. MaxResizes
  /\ typed \in 0 .. MaxInput /\ taken \in 0 .. MaxInput /\ upIn \in 0 .. MaxInput
  /\ handler \in {"off", "start", "wait", "report", "returned", "failed"}
  /\ loop \in {"off", "recv", "write", "gone"}
  /\ cmd \in {"none", "running"} \cup Codes
  /\ copyIn \in {"off", "read", "gone"} /\ copyOut \in {"off", "read", "gone"}
  /\ produced \in 0 .. MaxOutput /\ copied \in 0 .. MaxOutput
  /\ delivered \in 0 .. MaxOutput
  /\ exitMsg \in {"none"} \cup Codes

(* handleShell has put the size of the pty into the queue.                  *)
Init ==
  /\ tty \in PtyModes
  /\ winQueue = (IF tty THEN 1 ELSE 0)
  /\ outer = FALSE /\ group = FALSE /\ broken = FALSE
  /\ call = "dial" /\ firstErr = "none"
  /\ rcv = "off" /\ got = "none" /\ delivered = 0
  /\ snd = "off" /\ rd = "off" /\ errChan = "none" /\ taken = 0
  /\ trm = "off" /\ pump = "off" /\ slot = 0 /\ resizes = 0
  /\ typed = 0 /\ eof = FALSE /\ upIn = 0
  /\ handler = "off" /\ loop = "off" /\ pipeClosed = FALSE /\ exitMsg = "none"
  /\ cmd = "none" /\ copyIn = "off" /\ copyOut = "off"
  /\ produced = 0 /\ copied = 0

-----------------------------------------------------------------------------
(* The context of the group derives from that of Serve; the stream was      *)
(* opened under the latter, so the end of the group alone does not end it.  *)
GroupDone == outer \/ group

(* Mutant: the stream is opened under a context of its own.                 *)
StreamDownDetached == broken \/ call = "returned"

(* The stream fails on both sides: its context is done, the connection was  *)
(* closed by the deferred call, or the network failed.                      *)
StreamDown == outer \/ broken \/ call = "returned"

(* The handler of the agent has returned: sends to it fail.                 *)
StreamEnded == handler \in {"returned", "failed"}

(* A member of the group returns an error: the first one is kept and        *)
(* cancels the context of the group.                                        *)
Fail(e) ==
  /\ firstErr' = IF firstErr = "none" THEN e ELSE firstErr
  /\ group' = TRUE

-----------------------------------------------------------------------------
(* CreateExecInPodgRPC: the agent is reached and the command sent, ...      *)
Dial ==
  /\ call = "dial"
  /\ call' = "running"
  /\ rcv' = "check" /\ snd' = "select" /\ rd' = "read"
  /\ trm' = "select" /\ pump' = "next"
  /\ handler' = "start"
  /\ UNCHANGED <<ctxVars, firstErr, got, delivered, errChan, taken, slot,
                 winQueue, resizes, clientVars, upIn, loop, pipeClosed,
                 exitMsg, cmdVars>>

(* ... or not.                                                              *)
DialFails ==
  /\ call = "dial"
  /\ call' = "returned" /\ firstErr' = "error"
  /\ UNCHANGED <<ctxVars, rcvVars, sndVars, sizeVars, clientVars, upIn,
                 agentVars, cmdVars>>

(* g.Wait returns.                                                          *)
Returns ==
  /\ call = "running"
  /\ rcv = "done" /\ snd = "done" /\ trm = "done"
  /\ call' = "returned"
  /\ UNCHANGED <<ctxVars, firstErr, rcvVars, sndVars, sizeVars, clientVars,
                 upIn, agentVars, cmdVars>>

(* receiver *)
ReceiverChecks ==
  /\ rcv = "check"
  /\ IF GroupDone THEN rcv' = "done" /\ Fail("cancelled")
                  ELSE rcv' = "recv" /\ UNCHANGED <<firstErr, group>>
  /\ UNCHANGED <<outer, broken, call, got, delivered, sndVars, sizeVars,
                 clientVars, upIn, agentVars, cmdVars>>

(* A message with output arrives; the receiver goes on to write it ...      *)
ReceiverOutput ==
  /\ rcv = "recv"
  /\ delivered < copied
  /\ rcv' = "write"
  /\ UNCHANGED <<ctxVars, callVars, got, delivered, sndVars, sizeVars, clientVars,
                 upIn, agentVars, cmdVars>>

(* ... to the ssh channel.  The write does not look at the context: it      *)
(* waits while the client's window is full, until the client reads, closes  *)
(* the channel or loses the connection.  Its result is ignored.             *)
ReceiverWrites ==
  /\ rcv = "write"
  /\ delivered' = delivered + 1
  /\ rcv' = "check"
  /\ UNCHANGED <<ctxVars, callVars, got, sndVars, sizeVars, clientVars, upIn,
                 agentVars, cmdVars>>

(* Mutant: the exit code overtakes the output.                              *)
ReceiverExitCodeEarly ==
  /\ rcv = "recv"
  /\ exitMsg # "none"
  /\ got' = exitMsg
  /\ group' = TRUE
  /\ rcv' = "exiting"
  /\ UNCHANGED <<outer, broken, callVars, delivered, sndVars, sizeVars,
                 clientVars, upIn, agentVars, cmdVars>>

(* The exit code arrives and the receiver cancels the context ...           *)
ReceiverExitCode ==
  /\ rcv = "recv"
  /\ delivered = copied /\ exitMsg # "none"
  /\ got' = exitMsg
  /\ group' = TRUE
  /\ rcv' = "exiting"
  /\ UNCHANGED <<outer, broken, callVars, delivered, sndVars, sizeVars,
                 clientVars, upIn, agentVars, cmdVars>>

(* Mutant: a negative number is taken for an exit code.                     *)
ReceiverExitsUnchecked ==
  /\ rcv = "exiting"
  /\ rcv' = "done" /\ Fail(IF got = "internal" THEN "exit1" ELSE got)
  /\ UNCHANGED <<outer, broken, call, got, delivered, sndVars, sizeVars,
                 clientVars, upIn, agentVars, cmdVars>>

(* ... before it returns the code, zero included, as an error.              *)
ReceiverExits ==
  /\ rcv = "exiting"
  /\ rcv' = "done" /\ Fail(got)
  /\ UNCHANGED <<outer, broken, call, got, delivered, sndVars, sizeVars,
                 clientVars, upIn, agentVars, cmdVars>>

(* Recv fails.  It does not return io.EOF: the agent ends a stream with an  *)
(* exit code or with an error.                                              *)
ReceiverError ==
  /\ rcv = "recv"
  /\ StreamDown \/ handler = "failed"
  /\ rcv' = "done" /\ Fail("error")
  /\ UNCHANGED <<outer, broken, call, got, delivered, sndVars, sizeVars,
                 clientVars, upIn, agentVars, cmdVars>>

(* sender: the goroutine that reads stdin.                                  *)
ReadStdin ==
  /\ rd = "read"
  /\ taken < typed
  /\ taken' = taken + 1
  /\ rd' = "send"
  /\ UNCHANGED <<ctxVars, callVars, rcvVars, snd, errChan, sizeVars,
                 clientVars, upIn, agentVars, cmdVars>>

(* Mutant: errChan is unbuffered.                                           *)
ReadEOFUnbuffered ==
  /\ rd = "read"
  /\ taken = typed /\ eof /\ snd = "select"
  /\ rd' = "gone" /\ errChan' = "eof"
  /\ UNCHANGED <<ctxVars, callVars, rcvVars, snd, taken, sizeVars,
                 clientVars, upIn, agentVars, cmdVars>>

ReadEOF ==
  /\ rd = "read"
  /\ taken = typed /\ eof
  /\ rd' = "gone" /\ errChan' = "eof"
  /\ UNCHANGED <<ctxVars, callVars, rcvVars, snd, taken, sizeVars,
                 clientVars, upIn, agentVars, cmdVars>>

SendStdin ==
  /\ rd = "send"
  /\ IF StreamDown \/ StreamEnded
       THEN rd' = "gone" /\ errChan' = "error" /\ UNCHANGED upIn
       ELSE rd' = "read" /\ upIn' = upIn + 1 /\ UNCHANGED errChan
  /\ UNCHANGED <<ctxVars, callVars, rcvVars, snd, taken, sizeVars,
                 clientVars, agentVars, cmdVars>>

(* sender: the select.                                                      *)
SenderCancelled ==
  /\ snd = "select" /\ GroupDone
  /\ snd' = "done" /\ Fail("cancelled")
  /\ UNCHANGED <<outer, broken, call, rcvVars, rd, errChan, taken, sizeVars,
                 clientVars, upIn, agentVars, cmdVars>>

SenderEnds ==
  /\ snd = "select" /\ errChan # "none"
  /\ snd' = "done" /\ Fail(errChan)
  /\ UNCHANGED <<outer, broken, call, rcvVars, rd, errChan, taken, sizeVars,
                 clientVars, upIn, agentVars, cmdVars>>

(* termSizeHandler: the goroutine that reads the queue.  Nothing closes the *)
(* queue, so it never ends.                                                 *)
PumpNext ==
  /\ pump = "next" /\ winQueue > 0
  /\ winQueue' = winQueue - 1
  /\ pump' = "put"
  /\ UNCHANGED <<ctxVars, callVars, rcvVars, sndVars, trm, slot, resizes,
                 clientVars, upIn, agentVars, cmdVars>>

PumpPut ==
  /\ pump = "put" /\ slot = 0
  /\ slot' = 1
  /\ pump' = "next"
  /\ UNCHANGED <<ctxVars, callVars, rcvVars, sndVars, trm, winQueue, resizes,
                 clientVars, upIn, agentVars, cmdVars>>

TermSizeCancelled ==
  /\ trm = "select" /\ GroupDone
  /\ trm' = "done" /\ Fail("cancelled")
  /\ UNCHANGED <<outer, broken, call, rcvVars, sndVars, pump, slot, winQueue,
                 resizes, clientVars, upIn, agentVars, cmdVars>>

(* One size is sent, and the handler returns the result of the Send.        *)
TermSizeSends ==
  /\ trm = "select" /\ slot = 1
  /\ slot' = 0
  /\ trm' = "done"
  /\ IF StreamDown \/ StreamEnded THEN Fail("error") ELSE UNCHANGED <<firstErr, group>>
  /\ UNCHANGED <<outer, broken, call, rcvVars, sndVars, pump, winQueue,
                 resizes, clientVars, upIn, agentVars, cmdVars>>

-----------------------------------------------------------------------------
(* ExecCommandStream in the agent.  The command is started, ...             *)
StartCommand ==
  /\ handler = "start"
  /\ handler' = "wait" /\ loop' = "recv"
  /\ cmd' = "running" /\ copyIn' = "read" /\ copyOut' = "read"
  /\ UNCHANGED <<ctxVars, callVars, rcvVars, sndVars, sizeVars, clientVars,
                 upIn, pipeClosed, exitMsg, produced, copied>>

(* ... or cannot be: with a pty that is reported as exit code -1, without   *)
(* one as an error of the call.                                             *)
StartFails ==
  /\ handler = "start"
  /\ handler' = (IF tty THEN "report" ELSE "failed")
  /\ loop' = "recv"
  /\ cmd' = (IF tty THEN "internal" ELSE cmd)
  /\ UNCHANGED <<ctxVars, callVars, rcvVars, sndVars, sizeVars, clientVars,
                 upIn, pipeClosed, exitMsg, copyIn, copyOut, produced, copied>>

(* The command does not arrive.                                             *)
CommandLost ==
  /\ handler = "start" /\ StreamDown
  /\ handler' = "failed"
  /\ UNCHANGED <<ctxVars, callVars, rcvVars, sndVars, sizeVars, clientVars,
                 upIn, loop, pipeClosed, exitMsg, cmdVars>>

(* The loop that receives stdin: writer.Write blocks until the copy to the  *)
(* command has read the chunk.                                              *)
LoopReceives ==
  /\ loop = "recv" /\ upIn > 0
  /\ upIn' = upIn - 1
  /\ loop' = "write"
  /\ UNCHANGED <<ctxVars, callVars, rcvVars, sndVars, sizeVars, clientVars,
                 handler, pipeClosed, exitMsg, cmdVars>>

(* Mutant: the pipe is left open.                                           *)
LoopErrorLeavesPipe ==
  /\ loop = "recv" /\ (StreamDown \/ StreamEnded)
  /\ loop' = "gone"
  /\ UNCHANGED <<ctxVars, callVars, rcvVars, sndVars, sizeVars, clientVars,
                 upIn, handler, pipeClosed, exitMsg, cmdVars>>

LoopError ==
  /\ loop = "recv" /\ (StreamDown \/ StreamEnded)
  /\ loop' = "gone" /\ pipeClosed' = TRUE
  /\ UNCHANGED <<ctxVars, callVars, rcvVars, sndVars, sizeVars, clientVars,
                 upIn, handler, exitMsg, cmdVars>>

(* The copy to the command takes a chunk; it ends if the command is gone.   *)
CopyInput ==
  /\ copyIn = "read" /\ loop = "write"
  /\ loop' = "recv"
  /\ copyIn' = IF Exited THEN "gone" ELSE "read"
  /\ UNCHANGED <<ctxVars, callVars, rcvVars, sndVars, sizeVars, clientVars,
                 upIn, handler, pipeClosed, exitMsg, cmd, copyOut, produced, copied>>

(* It ends when the pipe is closed; without a pty it then closes the stdin  *)
(* of the command.                                                          *)
CopyInputEnds ==
  /\ copyIn = "read" /\ pipeClosed
  /\ copyIn' = "gone"
  /\ UNCHANGED <<ctxVars, callVars, rcvVars, sndVars, sizeVars, clientVars,
                 upIn, agentVars, cmd, copyOut, produced, copied>>

(* The copy from the command sends a chunk.  With a pty it goes on until    *)
(* ttyCmd closes the pty; what it holds then is never seen by the receiver, *)
(* which stops at the exit code.                                            *)
CopyOutput ==
  /\ copyOut = "read" /\ handler = "wait"
  /\ copied < produced
  /\ IF StreamDown THEN copyOut' = "gone" /\ UNCHANGED copied
                   ELSE copied' = copied + 1 /\ UNCHANGED copyOut
  /\ UNCHANGED <<ctxVars, callVars, rcvVars, sndVars, sizeVars, clientVars,
                 upIn, agentVars, cmd, copyIn, produced>>

(* Mutant: the copies are not waited for.                                   *)
WaitForProcessOnly ==
  /\ handler = "wait" /\ Exited
  /\ handler' = "report"
  /\ UNCHANGED <<ctxVars, callVars, rcvVars, sndVars, sizeVars, clientVars,
                 upIn, loop, pipeClosed, exitMsg, cmdVars>>

(* execCmd.Wait: without a pty it also waits for the copies, including the  *)
(* copy of stdin, which ends only with the next chunk or the stream.        *)
Wait ==
  /\ handler = "wait" /\ Exited
  /\ tty \/ (copyIn = "gone" /\ (copied = produced \/ copyOut = "gone"))
  /\ handler' = "report"
  /\ UNCHANGED <<ctxVars, callVars, rcvVars, sndVars, sizeVars, clientVars,
                 upIn, loop, pipeClosed, exitMsg, cmdVars>>

(* The exit code is sent and the handler returns.                           *)
Report ==
  /\ handler = "report"
  /\ handler' = "returned"
  /\ exitMsg' = IF StreamDown THEN "none" ELSE cmd
  /\ UNCHANGED <<ctxVars, callVars, rcvVars, sndVars, sizeVars, clientVars,
                 upIn, loop, pipeClosed, cmdVars>>

-----------------------------------------------------------------------------
(* The environment: the command, the client, Serve and the network.         *)
CommandWrites ==
  /\ cmd = "running" /\ produced < MaxOutput
  /\ produced' = produced + 1
  /\ UNCHANGED <<ctxVars, callVars, rcvVars, sndVars, sizeVars, clientVars,
                 upIn, agentVars, cmd, copyIn, copyOut, copied>>

CommandExits ==
  /\ cmd = "running"
  /\ cmd' \in Codes
  /\ UNCHANGED <<ctxVars, callVars, rcvVars, sndVars, sizeVars, clientVars,
                 upIn, agentVars, copyIn, copyOut, produced, copied>>

ClientTypes ==
  /\ ~eof /\ typed < MaxInput
  /\ typed' = typed + 1
  /\ UNCHANGED <<ctxVars, callVars, rcvVars, sndVars, sizeVars, tty, eof,
                 upIn, agentVars, cmdVars>>

ClientEndsStdin ==
  /\ ~eof
  /\ eof' = TRUE
  /\ UNCHANGED <<ctxVars, callVars, rcvVars, sndVars, sizeVars, tty, typed,
                 upIn, agentVars, cmdVars>>

(* A window-change request: Fill drops the size when the queue is full.     *)
Fill ==
  /\ resizes < MaxResizes
  /\ resizes' = resizes + 1
  /\ winQueue' = IF winQueue = Capacity THEN winQueue ELSE winQueue + 1
  /\ UNCHANGED <<ctxVars, callVars, rcvVars, sndVars, trm, pump, slot,
                 clientVars, upIn, agentVars, cmdVars>>

(* Serve cancels its context: the client closed the channel, or the         *)
(* connection ends.                                                         *)
CancelContext ==
  /\ ~outer
  /\ outer' = TRUE
  /\ UNCHANGED <<group, broken, callVars, rcvVars, sndVars, sizeVars,
                 clientVars, upIn, agentVars, cmdVars>>

NetworkFails ==
  /\ ~broken
  /\ broken' = TRUE
  /\ UNCHANGED <<outer, group, callVars, rcvVars, sndVars, sizeVars,
                 clientVars, upIn, agentVars, cmdVars>>

-----------------------------------------------------------------------------
Receiver == \/ ReceiverChecks \/ ReceiverOutput \/ ReceiverExitCode
            \/ ReceiverExits \/ ReceiverError
StdinReader == ReadStdin \/ ReadEOF \/ SendStdin
Sender == SenderCancelled \/ SenderEnds
SizePump == PumpNext \/ PumpPut
TermSize == TermSizeCancelled \/ TermSizeSends
AgentHandler == StartCommand \/ StartFails \/ CommandLost \/ Wait \/ Report
AgentLoop == LoopReceives \/ LoopError
CopyIn == CopyInput \/ CopyInputEnds
Environment == \/ CommandWrites \/ CommandExits
               \/ ClientTypes \/ ClientEndsStdin \/ Fill
               \/ CancelContext \/ NetworkFails

Next == \/ Dial \/ DialFails \/ Returns
        \/ Receiver \/ ReceiverWrites \/ StdinReader \/ Sender \/ SizePump \/ TermSize
        \/ AgentHandler \/ AgentLoop \/ CopyIn \/ CopyOutput
        \/ Environment

Spec == Init /\ [][Next]_vars

(***************************************************************************)
(* Fairness.  Every goroutine that can run runs; a dial fails once its     *)
(* context is done; a command whose stdin was closed exits, as shells and  *)
(* the sftp server do.  The command need not exit otherwise, nor the       *)
(* client ever type, end stdin, read its output or close the channel: a    *)
(* write of the receiver may wait for ever.                                *)
(***************************************************************************)
StdinClosed == ~tty /\ copyIn = "gone"

Fairness ==
  /\ WF_vars(outer /\ DialFails)
  /\ WF_vars(Returns)
  /\ WF_vars(Receiver) /\ WF_vars(StdinReader) /\ WF_vars(Sender)
  /\ WF_vars(SizePump) /\ WF_vars(TermSize)
  /\ WF_vars(AgentHandler) /\ WF_vars(AgentLoop)
  /\ WF_vars(CopyIn) /\ WF_vars(CopyOutput)
  /\ WF_vars(StdinClosed /\ CommandExits)

FairSpec == Spec /\ Fairness

-----------------------------------------------------------------------------
(* Without a pty no output is lost: when the receiver has an exit code, it  *)
(* has written all the command's output to the channel, whatever ended or   *)
(* failed meanwhile.  With a pty this does not hold, since ttyCmd does not  *)
(* wait for the copy of the output.                                         *)
OutputBeforeExit == ~tty /\ got # "none" => delivered = produced

(* The call returns only with a reason, and with an exit code only if that  *)
(* is how the command ended: neither a cancelled nor a broken session is    *)
(* mistaken for the end of the command.  It also means that the call never  *)
(* returns nil, not even for a command that exits with zero, so handleShell *)
(* never gets to its "graceful termination".                                *)
ResultIsTrue ==
  call = "returned" =>
    /\ firstErr # "none"
    /\ firstErr \in Codes => firstErr = cmd
    /\ firstErr = "eof" => eof

(* Provided that no write to the ssh channel waits for the client for ever, *)
(* the call returns once its context is done, which is what SSHConnection   *)
(* assumes of its jobs; after a failed Send, as vmapi.go:206 says ("If we   *)
(* fail to send something receiving will either return EOF or an error.     *)
(* Thus the receiver will stop and cancel the context."); and when the      *)
(* command has ended, without a pty once the copy of stdin has noticed.     *)
CallReturns ==
  []<>(rcv # "write") =>
    ((outer \/ errChan = "error" \/ (Exited /\ (tty \/ copyIn = "gone")))
       ~> call = "returned")

(* The goroutine that reads stdin is not joined, but it ends once stdin     *)
(* does, whether or not sender still listens.                               *)
StdinReaderEnds == call = "returned" /\ eof ~> rd \in {"off", "gone"}

(* Without a pty the agent's handler ends after the call has returned: the  *)
(* command loses its stdin and exits.  With a pty nothing tells the command *)
(* that its client is gone, and the handler waits for it.                   *)
AgentReleases ==
  ~tty /\ call = "returned" ~> handler \in {"off", "returned", "failed"}

-----------------------------------------------------------------------------
(* The inductive invariant.                                                 *)

(* Chunks move forward only.                                                *)
ChunksInOrder ==
  /\ delivered <= copied /\ copied <= produced
  /\ taken <= typed
  /\ upIn + (IF rd = "send" THEN 1 ELSE 0) <= taken
  /\ rcv = "write" => delivered < copied

(* The agent: the handler waits while the command runs; a copy of the       *)
(* output that gave up did so because the stream was down, for good.        *)
AgentStages ==
  /\ call = "dial" => handler = "off"
  /\ cmd = "running" => handler = "wait"
  /\ handler \in {"report", "returned"} =>
       Exited /\ (tty \/ copied = produced \/ copyOut = "gone")
  /\ copyOut = "gone" => StreamDown

(* An exit code is in the stream only if the command ended with it, and,    *)
(* without a pty, only behind all the output.                               *)
ExitCodeLast ==
  /\ exitMsg # "none" =>
       handler = "returned" /\ exitMsg = cmd /\ (tty \/ copied = produced)
  /\ got # "none" => got = exitMsg /\ delivered = copied /\ rcv \in {"exiting", "done"}
  /\ rcv = "exiting" => got # "none"

(* Where the error of the group comes from.                                 *)
ErrorOrigin ==
  /\ rcv = "done" \/ call = "returned" => firstErr # "none"
  /\ firstErr \in Codes => got = firstErr
  /\ errChan = "eof" \/ firstErr = "eof" => eof

(* The invariant is inductive and implies OutputBeforeExit and ResultIsTrue. *)
IInv == TypeOK /\ ChunksInOrder /\ AgentStages /\ ExitCodeLast /\ ErrorOrigin
=============================================================================
