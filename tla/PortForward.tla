----------------------------- MODULE PortForward -----------------------------
(***************************************************************************)
(* One port forward of a user: handlePortForward                           *)
(* (ssh/connection/channels/callback.go) and CreatePodPortForward          *)
(* (internal/k8sapi/portForward.go).  The handler opens two streams to the *)
(* pod and starts three goroutines: one reads the error stream, two copy   *)
(* between the data stream and the ssh channel.  They report on channels   *)
(* without a buffer, and the handler receives from them once: it returns   *)
(* on the first of a report, the end of the error stream and the           *)
(* cancellation of its context.  A goroutine that reports later blocks.    *)
(*                                                                         *)
(* Of the ssh channel the model takes from golang.org/x/crypto/ssh: Close  *)
(* only sends a message.  It makes a later Write fail, but a Write that    *)
(* waits for the client's window, and a Read, go on waiting until the      *)
(* client closes the channel as well or its connection is gone.            *)
(***************************************************************************)
EXTENDS Naturals

CONSTANT MaxData \* bound: pieces of data the pod and the client send

ASSUME MaxDataAssumption == MaxData \in Nat

VARIABLES
  main,            \* the handler: dial, errorStream, dataStream, select,
                   \* returned (from CreatePodPortForward), done
  why,             \* what CreatePodPortForward returned, or none
  go,              \* the goroutines: off, run (reading), write, send (their
                   \* report, blocked until it is received), end
  errorEnd,        \* how the error stream ended, or open
  conn,            \* the connection to the api server: open or closed
  podClosed,       \* the pod has closed the data stream
  channel,         \* the ssh channel as the client left it: open, eof (the
                   \* end of its data), closed (or its connection is gone)
  closeSent,       \* the handler has closed the ssh channel
  cancelled,       \* the context is done
  sent, forwarded, \* data sent by the pod, and written to the ssh channel
  uploaded         \* data written to the pod

forwardVars == <<main, why, go, errorEnd, conn, podClosed, channel, closeSent, cancelled,
                 sent, forwarded, uploaded>>
carried == <<forwarded, uploaded>>
environment == <<errorEnd, podClosed, cancelled, sent>>

Goroutines == {"error", "down", "up"}
Results == {"none", "failed", "cancel", "error", "nil"}

ForwardTypeOK ==
  /\ main \in {"dial", "errorStream", "dataStream", "select", "returned", "done"}
  /\ why \in Results
  /\ go \in [Goroutines -> {"off", "run", "write", "send", "end"}]
  /\ errorEnd \in {"open", "eof", "message", "reset"}
  /\ conn \in {"open", "closed"}
  /\ podClosed \in BOOLEAN
  /\ channel \in {"open", "eof", "closed"}
  /\ closeSent \in BOOLEAN
  /\ cancelled \in BOOLEAN
  /\ sent \in 0..MaxData
  /\ forwarded \in 0..MaxData
  /\ uploaded \in 0..MaxData

ForwardInit ==
  /\ main = "dial"
  /\ why = "none"
  /\ go = [g \in Goroutines |-> "off"]
  /\ errorEnd = "open"
  /\ conn = "open"
  /\ podClosed = FALSE
  /\ channel = "open"
  /\ closeSent = FALSE
  /\ cancelled = FALSE
  /\ sent = 0 /\ forwarded = 0 /\ uploaded = 0

-----------------------------------------------------------------------------
(* Mutant: the connection stays open.                                       *)
ReturnKeepsConnection(r) ==
  /\ main' = "returned"
  /\ why' = r
  /\ UNCHANGED conn

(* Every return runs the deferred calls: the connection is closed.          *)
Return(r) ==
  /\ main' = "returned"
  /\ why' = r
  /\ conn' = "closed"

(* Dial, and the two streams one after the other.  Each may fail; the       *)
(* goroutine of the error stream is left behind when the second one does.   *)
DialPod ==
  /\ main = "dial"
  /\ main' = "errorStream"
  /\ UNCHANGED <<why, go, conn, channel, closeSent, carried, environment>>

CreateErrorStream ==
  /\ main = "errorStream"
  /\ main' = "dataStream"
  /\ go' = [go EXCEPT !["error"] = "run"]
  /\ UNCHANGED <<why, conn, channel, closeSent, carried, environment>>

CreateDataStream ==
  /\ main = "dataStream"
  /\ main' = "select"
  /\ go' = [go EXCEPT !["down"] = "run", !["up"] = "run"]
  /\ UNCHANGED <<why, conn, channel, closeSent, carried, environment>>

ForwardFails ==
  /\ main \in {"dial", "errorStream", "dataStream"}
  /\ Return("failed")
  /\ UNCHANGED <<go, channel, closeSent, carried, environment>>

(* The cases of the select.                                                 *)
SelectCancelled ==
  /\ main = "select"
  /\ cancelled
  /\ Return("cancel")
  /\ UNCHANGED <<go, channel, closeSent, carried, environment>>

(* Mutant: errorChan is not closed.                                         *)
SelectErrorUnclosed ==
  /\ main = "select"
  /\ go["error"] = "send"
  /\ Return("error")
  /\ go' = [go EXCEPT !["error"] = "end"]
  /\ UNCHANGED <<channel, closeSent, carried, environment>>

(* errorChan delivers an error, or nil once it has been closed.             *)
SelectError ==
  /\ main = "select"
  /\ go["error"] \in {"send", "end"}
  /\ Return(IF go["error"] = "send" THEN "error" ELSE "nil")
  /\ go' = [go EXCEPT !["error"] = "end"]
  /\ UNCHANGED <<channel, closeSent, carried, environment>>

(* streamRoutineDone: the first of the two copies that has finished.        *)
SelectCopyDone(g) ==
  /\ main = "select"
  /\ go[g] = "send"
  /\ Return("nil")
  /\ go' = [go EXCEPT ![g] = "end"]
  /\ UNCHANGED <<channel, closeSent, carried, environment>>

(* The deferred call of handlePortForward closes the ssh channel, which     *)
(* tells the client.                                                        *)
CloseChannel ==
  /\ main = "returned"
  /\ main' = "done"
  /\ closeSent' = TRUE
  /\ UNCHANGED <<why, go, conn, channel, carried, environment>>

-----------------------------------------------------------------------------
(* The goroutine of the error stream reads to the end.  A message or an     *)
(* error is sent, and then, or else, errorChan is closed.  Closing the      *)
(* connection ends the stream, with or without an error.                    *)
ErrorStreamRead ==
  /\ go["error"] = "run"
  /\ \/ errorEnd \in {"message", "reset"} /\ go' = [go EXCEPT !["error"] = "send"]
     \/ errorEnd = "eof" /\ go' = [go EXCEPT !["error"] = "end"]
     \/ conn = "closed" /\ \E s \in {"send", "end"} : go' = [go EXCEPT !["error"] = s]
  /\ UNCHANGED <<main, why, conn, channel, closeSent, carried, environment>>

(* io.Copy from the data stream to the ssh channel reads a piece, ...       *)
CopyDownReads ==
  /\ go["down"] = "run"
  /\ forwarded < sent
  /\ go' = [go EXCEPT !["down"] = "write"]
  /\ UNCHANGED <<main, why, conn, channel, closeSent, carried, environment>>

(* ... writes it when the client has room for it, ...                       *)
CopyDownWrites ==
  /\ go["down"] = "write"
  /\ channel # "closed" /\ ~closeSent
  /\ go' = [go EXCEPT !["down"] = "run"]
  /\ forwarded' = forwarded + 1
  /\ UNCHANGED <<main, why, conn, channel, closeSent, uploaded, environment>>

(* ... and ends when the ssh channel takes no more, ...                     *)
CopyDownFails ==
  /\ go["down"] = "write"
  /\ channel = "closed" \/ closeSent
  /\ go' = [go EXCEPT !["down"] = "send"]
  /\ UNCHANGED <<main, why, conn, channel, closeSent, carried, environment>>

(* Mutant: the copy ends with the stream, whatever has been read of it.     *)
CopyDownEndsEarly ==
  /\ go["down"] = "run"
  /\ podClosed \/ conn = "closed"
  /\ go' = [go EXCEPT !["down"] = "send"]
  /\ UNCHANGED <<main, why, conn, channel, closeSent, carried, environment>>

(* ... at the end of the stream, or when the connection is closed.          *)
CopyDownEnds ==
  /\ go["down"] = "run"
  /\ (podClosed /\ forwarded = sent) \/ conn = "closed"
  /\ go' = [go EXCEPT !["down"] = "send"]
  /\ UNCHANGED <<main, why, conn, channel, closeSent, carried, environment>>

(* io.Copy from the ssh channel to the data stream reads what the client    *)
(* has sent, ...                                                            *)
CopyUpReads ==
  /\ go["up"] = "run"
  /\ uploaded < MaxData
  /\ go' = [go EXCEPT !["up"] = "write"]
  /\ UNCHANGED <<main, why, conn, channel, closeSent, carried, environment>>

(* ... writes it when the api server takes it, ...                          *)
CopyUpWrites ==
  /\ go["up"] = "write"
  /\ conn = "open"
  /\ go' = [go EXCEPT !["up"] = "run"]
  /\ uploaded' = uploaded + 1
  /\ UNCHANGED <<main, why, conn, channel, closeSent, forwarded, environment>>

(* ... and ends when it cannot be written, ...                              *)
CopyUpFails ==
  /\ go["up"] = "write"
  /\ podClosed \/ conn = "closed"
  /\ go' = [go EXCEPT !["up"] = "send"]
  /\ UNCHANGED <<main, why, conn, channel, closeSent, carried, environment>>

(* ... and at the end of the client's data.                                 *)
CopyUpEnds ==
  /\ go["up"] = "run"
  /\ channel # "open"
  /\ go' = [go EXCEPT !["up"] = "send"]
  /\ UNCHANGED <<main, why, conn, channel, closeSent, carried, environment>>

-----------------------------------------------------------------------------
(* The pod sends and closes the data stream, the api server ends the error  *)
(* stream, the client ends its data, closes the channel or is gone, Serve   *)
(* cancels the context.                                                     *)
PodSends ==
  /\ conn = "open" /\ go["down"] # "off" /\ ~podClosed
  /\ sent < MaxData
  /\ sent' = sent + 1
  /\ UNCHANGED <<main, why, go, errorEnd, conn, podClosed, channel, closeSent, cancelled, carried>>

PodCloses ==
  /\ conn = "open" /\ go["down"] # "off" /\ ~podClosed
  /\ podClosed' = TRUE
  /\ UNCHANGED <<main, why, go, errorEnd, conn, channel, closeSent, cancelled, sent, carried>>

ErrorStreamEnds(e) ==
  /\ conn = "open" /\ go["error"] # "off" /\ errorEnd = "open"
  /\ errorEnd' = e
  /\ UNCHANGED <<main, why, go, conn, podClosed, channel, closeSent, cancelled, sent, carried>>

ClientEnds(s) ==
  /\ channel \in {"open", "eof"} /\ s # channel
  /\ channel' = s
  /\ UNCHANGED <<main, why, go, conn, closeSent, carried, environment>>

Cancel ==
  /\ ~cancelled
  /\ cancelled' = TRUE
  /\ UNCHANGED <<main, why, go, errorEnd, conn, podClosed, channel, closeSent, sent, carried>>

ForwardEnvironment ==
  \/ PodSends
  \/ PodCloses
  \/ \E e \in {"eof", "message", "reset"} : ErrorStreamEnds(e)
  \/ \E s \in {"eof", "closed"} : ClientEnds(s)
  \/ Cancel

Start == DialPod \/ CreateErrorStream \/ CreateDataStream \/ ForwardFails
Select == SelectCancelled \/ SelectError \/ \E g \in {"down", "up"} : SelectCopyDone(g)
CopyDown == CopyDownReads \/ CopyDownWrites \/ CopyDownFails \/ CopyDownEnds
CopyUp == CopyUpReads \/ CopyUpWrites \/ CopyUpFails \/ CopyUpEnds

ForwardNext ==
  \/ Start
  \/ Select
  \/ CloseChannel
  \/ ErrorStreamRead
  \/ CopyDown
  \/ CopyUp
  \/ ForwardEnvironment

ForwardSpec == ForwardInit /\ [][ForwardNext]_forwardVars

(***************************************************************************)
(* Fairness.  The goroutines run.  Opening a stream has a time limit, but  *)
(* the dial takes no context and has none.  The client need not read what  *)
(* is copied to it nor answer the close of the channel, and the api server *)
(* need not take what is copied to the pod.  Closing the streams and the   *)
(* connection on the way out of the select sends frames and waits for the  *)
(* write of another one, so a copy to the pod that is stuck holds the      *)
(* handler too; between its writes the handler gets its turn.              *)
(***************************************************************************)
ForwardFairSpec ==
  /\ ForwardSpec
  /\ WF_forwardVars(main # "dial" /\ Start)
  /\ SF_forwardVars(go["up"] # "write" /\ Select)
  /\ WF_forwardVars(CloseChannel)
  /\ WF_forwardVars(ErrorStreamRead)
  /\ WF_forwardVars(CopyDownEnds) /\ WF_forwardVars(channel = "closed" /\ CopyDownFails)
  /\ WF_forwardVars(CopyUpEnds) /\ WF_forwardVars(conn = "closed" /\ CopyUpFails)

-----------------------------------------------------------------------------
Returned == main \in {"returned", "done"}

(* CreatePodPortForward returns the error of the error stream only if that  *)
(* carried one and no one else received it, and cancellation only when it   *)
(* was cancelled; not conversely, since a message that comes late loses the *)
(* select to a copy that has ended.  The copy from the pod reports its end  *)
(* only when everything the pod sent has been written to the client or the  *)
(* client has closed the channel, also in every state after the return.     *)
(* At most one copy is received from: the other one, and an error that      *)
(* comes late, block in their send.                                         *)
ForwardInv ==
  /\ ForwardTypeOK
  /\ forwarded <= sent
  /\ go["down"] = "write" => forwarded < sent
  /\ go["up"] = "write" => uploaded < MaxData
  /\ Returned <=> why # "none"
  /\ Returned <=> conn = "closed"
  /\ main = "done" <=> closeSent
  /\ why = "cancel" => cancelled
  /\ why = "error" => errorEnd \in {"message", "reset"} /\ go["error"] = "end"
  /\ go["down"] = "send" => Returned \/ channel = "closed" \/ (podClosed /\ forwarded = sent)
  /\ go["down"] = "end" => channel = "closed" \/ (podClosed /\ forwarded = sent)
  /\ go["error"] = "end" => Returned \/ errorEnd = "eof"
  /\ \A g \in {"down", "up"} : go[g] = "end" =>
       why = "nil" /\ \A h \in {"down", "up"} \ {g} : go[h] # "end"

(* Provided that no write to the pod waits for ever, a forward that has     *)
(* reached the pod ends, as callback.go:124 says: "this call will block     *)
(* until the context is cancelled, the channel is closed from the client    *)
(* side, or kubeapi is closing the channel".  It does also while the pod    *)
(* sends and the client does not read.                                      *)
ForwardEnds ==
  []<>(go["up"] # "write") =>
    ((main # "dial" /\ (channel = "closed" \/ errorEnd # "open" \/ cancelled))
       ~> main = "done")

(* After a forward, no goroutine of it goes on reading or writing once the  *)
(* client has closed the channel as well, or is gone: each has ended, or is *)
(* blocked in the send that nobody receives.  While the client does not     *)
(* answer, the copy from the ssh channel goes on waiting for its data, and  *)
(* a copy to it for its window.                                             *)
CopiesStop ==
  Returned /\ channel = "closed" ~> \A g \in Goroutines : go[g] \notin {"run", "write"}
=============================================================================
