---------------------------- MODULE SSHConnection ----------------------------
(***************************************************************************)
(* One authenticated ssh connection of the delegatio ssh server, from      *)
(* HandleGlobalConnection (ssh/connection/connection.go) down to the       *)
(* goroutines that a channel handler starts (ssh/connection/channels).     *)
(*                                                                         *)
(* The module models the goroutines of a connection, the contexts that     *)
(* cancel them, the wait groups and unbuffered channels that join them,    *)
(* and the state of the link to the client as golang.org/x/crypto/ssh      *)
(* presents it:                                                            *)
(*   "up"      the client answers;                                         *)
(*   "silent"  the transport is alive but the client answers nothing;      *)
(*   "down"    the transport is closed, by either side: the channels the   *)
(*             library delivers on are closed and every send fails.        *)
(* The contents of requests, and which command a shell or subsystem runs,  *)
(* are abstracted: a request that starts a goroutine is a job, the others  *)
(* (pty-req, window-change, unknown, global requests) are answered or      *)
(* dropped without changing any of this state.                             *)
(***************************************************************************)
EXTENDS Naturals

CONSTANTS Channels,              \* the channels the client may open
          Jobs,                  \* the jobs a channel may start
          MaxKeepAliveRetries    \* maxKeepAliveRetries of the Handler

ASSUME RetriesAssumption == MaxKeepAliveRetries \in Nat
ASSUME JobsAssumption == Jobs # {}

VARIABLES
  link,           \* the transport, see above
  cancelled,      \* the contexts of the connection that were cancelled
  main,           \* program counter of HandleGlobalConnection
  ka, retries,    \* keepAlive: program counter, unanswered requests in a row
  gr,             \* program counter of handleGlobalRequests
  kind,           \* what the client opened each channel as
  hc, wg,         \* handleChannel: program counter; members of c.wg
  sv,             \* program counter of Serve
  serveCancelled, \* the channels whose Serve context was cancelled by Serve
  job, jobwg,     \* the goroutines Serve started; members of reqData.wg
  closeSent,      \* the channels a job has closed from our side
  peerClosed      \* the channels the client has closed

clientVars == <<link, kind, peerClosed>>
mainVars   == <<main, cancelled>>
kaVars     == <<ka, retries>>
chanVars   == <<hc, wg>>
serveVars  == <<sv, serveCancelled>>
jobVars    == <<job, jobwg, closeSent>>
vars == <<clientVars, mainVars, kaVars, gr, chanVars, serveVars, jobVars>>

-----------------------------------------------------------------------------
(* Contexts.  Start's ctx is the parent of the one keepAlive derives, which *)
(* is the parent of the one of handleGlobalRequests and of the one of       *)
(* handleChannels; each Serve derives its own from the latter.              *)

Contexts == {"server", "conn", "requests", "channels"}

ConnDone     == {"server", "conn"} \cap cancelled # {}
RequestsDone == ConnDone \/ "requests" \in cancelled
ChannelsDone == ConnDone \/ "channels" \in cancelled
ServeDone(c) == ChannelsDone \/ c \in serveCancelled

(* The library closes the requests of a channel once the client closed the  *)
(* channel or the transport is gone; what was queued before is still read.  *)
RequestsClosed(c) == c \in peerClosed \/ link = "down"

PendingChannels == {c \in Channels : kind[c] # "unopened" /\ hc[c] = "none"}
RequestedJobs(c) == {j \in Jobs : job[c][j] = "requested"}
RunningJobs(c) == {j \in Jobs : job[c][j] = "running"}

-----------------------------------------------------------------------------
Kinds == {"unopened", "session", "direct-tcpip", "malformed", "unknown"}
MainPCs == {"start", "resources", "writing", "serving", "drain",
            "closeRequests", "waitRequests", "closeKeepAlive", "waitKeepAlive",
            "close", "closed"}

(* Every variable has a value of its type.                                  *)
TypeOK ==
  /\ link \in {"up", "silent", "down"}
  /\ cancelled \subseteq Contexts
  /\ main \in MainPCs
  /\ ka \in {"off", "select", "sending", "exiting", "gone"}
  /\ retries \in 0 .. MaxKeepAliveRetries + 1
  /\ gr \in {"off", "select", "exiting", "gone"}
  /\ kind \in [Channels -> Kinds]
  /\ hc \in [Channels -> {"none", "dispatch", "waiting", "done"}]
  /\ wg \subseteq Channels
  /\ sv \in [Channels -> {"off", "startup", "loop", "drain", "handoff", "gone"}]
  /\ serveCancelled \subseteq Channels
  /\ job \in [Channels -> [Jobs -> {"idle", "requested", "running", "done"}]]
  /\ jobwg \in [Channels -> SUBSET Jobs]
  /\ closeSent \subseteq Channels
  /\ peerClosed \subseteq Channels

Init ==
  /\ link = "up"
  /\ cancelled = {}
  /\ main = "start"
  /\ ka = "off" /\ retries = 0
  /\ gr = "off"
  /\ kind = [c \in Channels |-> "unopened"]
  /\ hc = [c \in Channels |-> "none"] /\ wg = {}
  /\ sv = [c \in Channels |-> "off"] /\ serveCancelled = {}
  /\ job = [c \in Channels |-> [j \in Jobs |-> "idle"]]
  /\ jobwg = [c \in Channels |-> {}]
  /\ closeSent = {} /\ peerClosed = {}

-----------------------------------------------------------------------------
(* HandleGlobalConnection: start keepAlive and handleGlobalRequests, wait   *)
(* for the user's resources, write the key file, serve channels, and undo   *)
(* the deferred calls in reverse order.                                     *)

StartConnection ==
  /\ main = "start"
  /\ main' = "resources"
  /\ ka' = "select"
  /\ gr' = "select"
  /\ UNCHANGED <<clientVars, cancelled, retries, chanVars, serveVars, jobVars>>

(* CreateAndWaitForRessources returns: nil, or an error that ends the       *)
(* connection before any channel is served.                                 *)
ResourcesReturn(ok) ==
  /\ main = "resources"
  /\ main' = IF ok THEN "writing" ELSE "closeRequests"
  /\ UNCHANGED <<clientVars, cancelled, kaVars, gr, chanVars, serveVars, jobVars>>

(* writeFileToContainer returns; its error is dropped.                      *)
WriteFileReturns ==
  /\ main = "writing"
  /\ main' = "serving"
  /\ UNCHANGED <<clientVars, cancelled, kaVars, gr, chanVars, serveVars, jobVars>>

(* Mutant: the goroutine starts without c.wg.Add(1).                        *)
AcceptChannelUncounted(c) ==
  /\ main = "serving"
  /\ c \in PendingChannels
  /\ hc' = [hc EXCEPT ![c] = "dispatch"]
  /\ UNCHANGED <<clientVars, mainVars, kaVars, gr, wg, serveVars, jobVars>>

(* handleChannels takes the next channel: c.wg.Add(1); go c.handleChannel.  *)
AcceptChannel(c) ==
  /\ main = "serving"
  /\ c \in PendingChannels
  /\ hc' = [hc EXCEPT ![c] = "dispatch"]
  /\ wg' = wg \cup {c}
  /\ UNCHANGED <<clientVars, mainVars, kaVars, gr, serveVars, jobVars>>

(* The loop ends on ctx.Done, or once the library has closed the channel    *)
(* of channels and it is empty; the deferred function cancels and waits.    *)
StopChannels ==
  /\ main = "serving"
  /\ ChannelsDone \/ (link = "down" /\ PendingChannels = {})
  /\ main' = "drain"
  /\ cancelled' = cancelled \cup {"channels"}
  /\ UNCHANGED <<clientVars, kaVars, gr, chanVars, serveVars, jobVars>>

(* Mutant: c.wg.Wait() is missing.                                          *)
ChannelsNotAwaited ==
  /\ main = "drain"
  /\ main' = "closeRequests"
  /\ UNCHANGED <<clientVars, cancelled, kaVars, gr, chanVars, serveVars, jobVars>>

(* c.wg.Wait() returns.                                                     *)
ChannelsDrained ==
  /\ main = "drain"
  /\ wg = {}
  /\ main' = "closeRequests"
  /\ UNCHANGED <<clientVars, cancelled, kaVars, gr, chanVars, serveVars, jobVars>>

(* closeAndWaitForHandleGlobalRequests: cancel(), then receive from done.   *)
CancelRequests ==
  /\ main = "closeRequests"
  /\ main' = "waitRequests"
  /\ cancelled' = cancelled \cup {"requests"}
  /\ UNCHANGED <<clientVars, kaVars, gr, chanVars, serveVars, jobVars>>

JoinRequests ==
  /\ main = "waitRequests" /\ gr = "exiting"
  /\ main' = "closeKeepAlive" /\ gr' = "gone"
  /\ UNCHANGED <<clientVars, cancelled, kaVars, chanVars, serveVars, jobVars>>

(* closeAndWaitForKeepAlive: cancel(), then receive from done.              *)
CancelKeepAlive ==
  /\ main = "closeKeepAlive"
  /\ main' = "waitKeepAlive"
  /\ cancelled' = cancelled \cup {"conn"}
  /\ UNCHANGED <<clientVars, kaVars, gr, chanVars, serveVars, jobVars>>

JoinKeepAlive ==
  /\ main = "waitKeepAlive" /\ ka = "exiting"
  /\ main' = "close" /\ ka' = "gone"
  /\ UNCHANGED <<clientVars, cancelled, retries, gr, chanVars, serveVars, jobVars>>

(* The last deferred call: c.connection.Close().                            *)
CloseConnection ==
  /\ main = "close"
  /\ main' = "closed"
  /\ link' = "down"
  /\ UNCHANGED <<kind, peerClosed, cancelled, kaVars, gr, chanVars, serveVars, jobVars>>

-----------------------------------------------------------------------------
(* keepAlive.  SendRequest returns when the client's answer arrives, or     *)
(* with an error once the transport is gone; it has no timeout.             *)

KeepAliveTick ==
  /\ ka = "select"
  /\ ka' = "sending"
  /\ UNCHANGED <<clientVars, mainVars, retries, gr, chanVars, serveVars, jobVars>>

KeepAliveAnswered ==
  /\ ka = "sending" /\ link = "up"
  /\ ka' = "select"
  /\ retries' = 0
  /\ UNCHANGED <<clientVars, mainVars, gr, chanVars, serveVars, jobVars>>

(* Mutant: keepAlive gives up without cancelling the connection.            *)
KeepAliveFailedNoCancel ==
  /\ ka = "sending" /\ link = "down"
  /\ retries' = retries + 1
  /\ ka' = IF retries' > MaxKeepAliveRetries THEN "exiting" ELSE "select"
  /\ UNCHANGED <<clientVars, mainVars, gr, chanVars, serveVars, jobVars>>

KeepAliveFailed ==
  /\ ka = "sending" /\ link = "down"
  /\ retries' = retries + 1
  /\ IF retries' > MaxKeepAliveRetries
       THEN ka' = "exiting" /\ cancelled' = cancelled \cup {"conn"}
       ELSE ka' = "select" /\ UNCHANGED cancelled
  /\ UNCHANGED <<clientVars, main, gr, chanVars, serveVars, jobVars>>

KeepAliveStopped ==
  /\ ka = "select" /\ ConnDone
  /\ ka' = "exiting"
  /\ UNCHANGED <<clientVars, mainVars, retries, gr, chanVars, serveVars, jobVars>>

(* handleGlobalRequests leaves its loop: the library closed the requests,   *)
(* or ctx.Done.                                                             *)
GlobalRequestsStopped ==
  /\ gr = "select"
  /\ RequestsDone \/ link = "down"
  /\ gr' = "exiting"
  /\ UNCHANGED <<clientVars, mainVars, kaVars, chanVars, serveVars, jobVars>>

-----------------------------------------------------------------------------
(* handleChannel and Serve.                                                 *)

(* Mutant: handleChannel returns without c.wg.Done().                       *)
RejectChannelNoDone(c) ==
  /\ hc[c] = "dispatch"
  /\ kind[c] \in {"malformed", "unknown"} \/ link = "down"
  /\ hc' = [hc EXCEPT ![c] = "done"]
  /\ UNCHANGED <<clientVars, mainVars, kaVars, gr, wg, serveVars, jobVars>>

(* A channel that is rejected (unknown type, unreadable extra data) or      *)
(* whose Accept fails because the transport is gone: handleChannel returns  *)
(* and its deferred c.wg.Done() runs.                                       *)
RejectChannel(c) ==
  /\ hc[c] = "dispatch"
  /\ kind[c] \in {"malformed", "unknown"} \/ link = "down"
  /\ hc' = [hc EXCEPT ![c] = "done"]
  /\ wg' = wg \ {c}
  /\ UNCHANGED <<clientVars, mainVars, kaVars, gr, serveVars, jobVars>>

(* Accept, build the handler, go handler.Serve(ctx), then handler.Wait().   *)
ServeChannel(c) ==
  /\ hc[c] = "dispatch"
  /\ kind[c] \in {"session", "direct-tcpip"} /\ link # "down"
  /\ hc' = [hc EXCEPT ![c] = "waiting"]
  /\ sv' = [sv EXCEPT ![c] = "startup"]
  /\ UNCHANGED <<clientVars, mainVars, kaVars, gr, wg, serveCancelled, jobVars>>

(* Mutant: the goroutine starts without rd.wg.Add(1).                       *)
StartJobUncounted(c, j) ==
  /\ job' = [job EXCEPT ![c][j] = "running"]
  /\ UNCHANGED <<jobwg, closeSent>>

(* The effect of rd.wg.Add(1); go rd.handle...(ctx).                        *)
StartJob(c, j) ==
  /\ job' = [job EXCEPT ![c][j] = "running"]
  /\ jobwg' = [jobwg EXCEPT ![c] = @ \cup {j}]
  /\ UNCHANGED closeSent

(* onStartupCallback: a session only logs, a direct-tcpip channel starts    *)
(* its port forward.                                                        *)
ServeStartup(c) ==
  /\ sv[c] = "startup"
  /\ sv' = [sv EXCEPT ![c] = "loop"]
  /\ IF kind[c] = "direct-tcpip"
       THEN \E j \in Jobs : StartJob(c, j)
       ELSE UNCHANGED jobVars
  /\ UNCHANGED <<clientVars, mainVars, kaVars, gr, chanVars, serveCancelled>>

(* Serve reads a shell or subsystem request and starts its goroutine.       *)
ServeRequest(c, j) ==
  /\ sv[c] = "loop"
  /\ job[c][j] = "requested"
  /\ StartJob(c, j)
  /\ UNCHANGED <<clientVars, mainVars, kaVars, gr, chanVars, serveVars>>

(* Mutant: Serve has no ctx.Done case.                                      *)
ServeStopNoContext(c) ==
  /\ sv[c] = "loop"
  /\ RequestsClosed(c) /\ RequestedJobs(c) = {}
  /\ sv' = [sv EXCEPT ![c] = "drain"]
  /\ serveCancelled' = serveCancelled \cup {c}
  /\ UNCHANGED <<clientVars, mainVars, kaVars, gr, chanVars, jobVars>>

(* Mutant: the deferred function waits for the jobs without cancel().       *)
ServeStopNoCancel(c) ==
  /\ sv[c] = "loop"
  /\ ServeDone(c) \/ (RequestsClosed(c) /\ RequestedJobs(c) = {})
  /\ sv' = [sv EXCEPT ![c] = "drain"]
  /\ UNCHANGED <<clientVars, mainVars, kaVars, gr, chanVars, serveCancelled, jobVars>>

(* Serve leaves its loop and runs its deferred function: cancel() ...       *)
ServeStop(c) ==
  /\ sv[c] = "loop"
  /\ ServeDone(c) \/ (RequestsClosed(c) /\ RequestedJobs(c) = {})
  /\ sv' = [sv EXCEPT ![c] = "drain"]
  /\ serveCancelled' = serveCancelled \cup {c}
  /\ UNCHANGED <<clientVars, mainVars, kaVars, gr, chanVars, jobVars>>

(* Mutant: h.reqData.wg.Wait() is missing.                                  *)
ServeNotAwaited(c) ==
  /\ sv[c] = "drain"
  /\ sv' = [sv EXCEPT ![c] = "handoff"]
  /\ UNCHANGED <<clientVars, mainVars, kaVars, gr, chanVars, serveCancelled, jobVars>>

(* ... h.reqData.wg.Wait() ...                                              *)
ServeDrained(c) ==
  /\ sv[c] = "drain"
  /\ jobwg[c] = {}
  /\ sv' = [sv EXCEPT ![c] = "handoff"]
  /\ UNCHANGED <<clientVars, mainVars, kaVars, gr, chanVars, serveCancelled, jobVars>>

(* ... and the send on serveCloseDone, which meets Wait in handleChannel,   *)
(* whose deferred c.wg.Done() runs.                                         *)
ServeJoined(c) ==
  /\ sv[c] = "handoff" /\ hc[c] = "waiting"
  /\ sv' = [sv EXCEPT ![c] = "gone"]
  /\ hc' = [hc EXCEPT ![c] = "done"]
  /\ wg' = wg \ {c}
  /\ UNCHANGED <<clientVars, mainVars, kaVars, gr, serveCancelled, jobVars>>

(* handleShell, handleSubsystem or handlePortForward returns: the command   *)
(* ended, failed, or its context was cancelled.  The deferred function      *)
(* closes the channel and calls rd.wg.Done().                               *)
JobReturns(c, j) ==
  /\ job[c][j] = "running"
  /\ job' = [job EXCEPT ![c][j] = "done"]
  /\ jobwg' = [jobwg EXCEPT ![c] = @ \ {j}]
  /\ closeSent' = closeSent \cup {c}
  /\ UNCHANGED <<clientVars, mainVars, kaVars, gr, chanVars, serveVars>>

-----------------------------------------------------------------------------
(* The environment: the client, the network, and the server's shutdown.     *)

ClientOpens(c, k) ==
  /\ link = "up"
  /\ kind[c] = "unopened"
  /\ kind' = [kind EXCEPT ![c] = k]
  /\ UNCHANGED <<link, peerClosed, mainVars, kaVars, gr, chanVars, serveVars, jobVars>>

ClientRequests(c, j) ==
  /\ link = "up"
  /\ hc[c] = "waiting" /\ kind[c] = "session" /\ c \notin peerClosed
  /\ job[c][j] = "idle"
  /\ job' = [job EXCEPT ![c][j] = "requested"]
  /\ UNCHANGED <<clientVars, mainVars, kaVars, gr, chanVars, serveVars, jobwg, closeSent>>

(* The client closes the channel, of its own or in answer to our close.     *)
ClientCloses(c) ==
  /\ link = "up"
  /\ hc[c] \in {"waiting", "done"} /\ sv[c] # "off"
  /\ c \notin peerClosed
  /\ peerClosed' = peerClosed \cup {c}
  /\ UNCHANGED <<link, kind, mainVars, kaVars, gr, chanVars, serveVars, jobVars>>

LinkChanges(from, to) ==
  /\ link \in from
  /\ link' = to
  /\ UNCHANGED <<kind, peerClosed, mainVars, kaVars, gr, chanVars, serveVars, jobVars>>

LinkSilent  == LinkChanges({"up"}, "silent")
LinkResumes == LinkChanges({"silent"}, "up")
LinkDown    == LinkChanges({"up", "silent"}, "down")

ServerShutdown ==
  /\ "server" \notin cancelled
  /\ cancelled' = cancelled \cup {"server"}
  /\ UNCHANGED <<clientVars, main, kaVars, gr, chanVars, serveVars, jobVars>>

(* Nothing is left to do.                                                   *)
Finished ==
  /\ main = "closed"
  /\ UNCHANGED vars

-----------------------------------------------------------------------------
MainStep ==
  \/ StartConnection
  \/ \E ok \in BOOLEAN : ResourcesReturn(ok)
  \/ WriteFileReturns
  \/ StopChannels \/ ChannelsDrained
  \/ CancelRequests \/ JoinRequests
  \/ CancelKeepAlive \/ JoinKeepAlive
  \/ CloseConnection

KeepAliveStep ==
  KeepAliveTick \/ KeepAliveAnswered \/ KeepAliveFailed \/ KeepAliveStopped

ChannelStep(c) ==
  \/ AcceptChannel(c) \/ RejectChannel(c) \/ ServeChannel(c)
  \/ ServeStartup(c) \/ ServeStop(c) \/ ServeDrained(c) \/ ServeJoined(c)
  \/ \E j \in Jobs : ServeRequest(c, j) \/ JobReturns(c, j)

ClientStep(c) ==
  \/ \E k \in Kinds \ {"unopened"} : ClientOpens(c, k)
  \/ \E j \in Jobs : ClientRequests(c, j)
  \/ ClientCloses(c)

LinkStep == LinkSilent \/ LinkResumes \/ LinkDown

Next ==
  \/ MainStep
  \/ KeepAliveStep
  \/ GlobalRequestsStopped
  \/ \E c \in Channels : ChannelStep(c) \/ ClientStep(c)
  \/ LinkStep
  \/ ServerShutdown
  \/ Finished

Spec == Init /\ [][Next]_vars
(***************************************************************************)
(* Fairness.  A goroutine that can run runs, a ticker ticks, a client whose *)
(* link is up answers keep-alives and channel closes.  The select of        *)
(* keepAlive picks at random between a tick and ctx.Done, so it cannot      *)
(* avoid the latter forever: strong fairness.  Calls into kubernetes and    *)
(* the agent are only known to return once their context is cancelled, and  *)
(* a job also needs a client that reads, since a write to its channel       *)
(* blocks when the window is used up, and for a forward an api server that  *)
(* answers, since dialing it takes no context.  Nothing makes a silent link *)
(* resume.                                                                  *)
(***************************************************************************)
Fairness ==
  /\ WF_vars(StartConnection)
  /\ WF_vars(ConnDone /\ \E ok \in BOOLEAN : ResourcesReturn(ok))
  /\ WF_vars(ConnDone /\ WriteFileReturns)
  /\ WF_vars(StopChannels)
  /\ WF_vars(ChannelsDrained)
  /\ WF_vars(CancelRequests \/ JoinRequests)
  /\ WF_vars(CancelKeepAlive \/ JoinKeepAlive \/ CloseConnection)
  /\ WF_vars(KeepAliveTick)
  /\ WF_vars(KeepAliveAnswered)
  /\ WF_vars(KeepAliveFailed)
  /\ SF_vars(KeepAliveStopped)
  /\ WF_vars(GlobalRequestsStopped)
  /\ \A c \in Channels :
       /\ WF_vars(AcceptChannel(c) \/ RejectChannel(c) \/ ServeChannel(c))
       /\ WF_vars(ServeStartup(c) \/ ServeDrained(c) \/ ServeJoined(c))
       /\ WF_vars(ServeStop(c))
       /\ WF_vars(c \in closeSent /\ ClientCloses(c))
       /\ \A j \in Jobs :
            /\ WF_vars(ServeRequest(c, j))
            /\ WF_vars(ServeDone(c) /\ link # "silent" /\ JobReturns(c, j))

FairSpec == Spec /\ Fairness

-----------------------------------------------------------------------------
(* Safety.                                                                  *)

(* When HandleGlobalConnection has returned, none of the goroutines the     *)
(* connection started is left: keepAlive and handleGlobalRequests are       *)
(* joined, every accepted channel is done, no Serve and no job runs.  This  *)
(* is what connection_test.go asks of a few schedules with goleak.          *)
NoGoroutineLeft ==
  main = "closed" =>
    /\ ka = "gone" /\ gr = "gone"
    /\ \A c \in Channels : /\ hc[c] \in {"none", "done"}
                           /\ sv[c] \in {"off", "gone"}
                           /\ RunningJobs(c) = {}

(* Resources are released in the order of the deferred calls: while a job   *)
(* of some channel still runs, the connection is not closed under it by     *)
(* our side, keepAlive still watches the client unless it has given up on   *)
(* it, and the handler of the channel is still waiting.                     *)
TeardownOrder ==
  \A c \in Channels :
    RunningJobs(c) # {} =>
      /\ main \in {"serving", "drain"}
      /\ hc[c] = "waiting"
      /\ sv[c] \in {"loop", "drain"}
      /\ ka \in {"exiting", "gone"} => ConnDone

(* The goroutines of handleChannels, and those of each Serve, form a task   *)
(* scope: nothing starts once it is cancelled by its owner, and the owner   *)
(* passes its Wait only when all have returned (channel.go:59).             *)
ActiveChannels == {c \in Channels : hc[c] \in {"dispatch", "waiting"}}

ChannelPhase ==
  CASE main \in {"start", "resources", "writing", "serving"} -> "open"
    [] main = "drain" -> "closing"
    [] OTHER -> "closed"

ServePhase(c) ==
  CASE sv[c] \in {"off", "startup", "loop"} -> "open"
    [] sv[c] = "drain" -> "closing"
    [] OTHER -> "closed"

ChannelScope == INSTANCE TaskScope
  WITH Tasks <- Channels, running <- ActiveChannels, phase <- ChannelPhase

ServeScope(c) == INSTANCE TaskScope
  WITH Tasks <- Jobs, running <- RunningJobs(c), phase <- ServePhase(c)

(* handleChannels implements the scope it owns.                             *)
ChannelsAreScoped == ChannelScope!Spec

(* Every Serve implements the scope it owns: ServeScope(c)!Spec for every   *)
(* channel c, with the quantifier moved inside the step.                    *)
JobsAreScoped ==
  /\ \A c \in Channels : ServeScope(c)!Init
  /\ [][\A c \in Channels : [ServeScope(c)!Next]_(ServeScope(c)!vars)]_vars

-----------------------------------------------------------------------------
(* The inductive invariant behind the safety properties.                    *)

(* c.wg counts exactly the handleChannel goroutines that have not returned, *)
(* and reqData.wg exactly the running jobs.                                 *)
WaitGroupsExact ==
  /\ wg = ActiveChannels
  /\ \A c \in Channels : jobwg[c] = RunningJobs(c)

(* handleChannel waits exactly while its Serve is at work.                  *)
ServeHasWaiter ==
  \A c \in Channels :
    /\ sv[c] \in {"startup", "loop", "drain", "handoff"} <=> hc[c] = "waiting"
    /\ sv[c] = "gone" => hc[c] = "done"

(* A job only runs inside the loop or the drain of its Serve.               *)
JobsInsideServe ==
  \A c \in Channels : RunningJobs(c) # {} => sv[c] \in {"loop", "drain"}

(* Which goroutines exist at each point of HandleGlobalConnection.          *)
MainOwns ==
  /\ main = "start" => ka = "off" /\ gr = "off"
  /\ main \in {"resources", "writing", "serving", "drain", "closeRequests",
               "waitRequests", "closeKeepAlive", "waitKeepAlive"}
       => ka \in {"select", "sending", "exiting"}
  /\ main \in {"resources", "writing", "serving", "drain", "closeRequests",
               "waitRequests"} => gr \in {"select", "exiting"}
  /\ main \in {"closeKeepAlive", "waitKeepAlive", "close", "closed"} => gr = "gone"
  /\ main \in {"close", "closed"} => ka = "gone"
  /\ main \notin {"serving", "drain"} => wg = {}

(* keepAlive stops counting in time, and leaves only when told to.          *)
KeepAliveBounded ==
  /\ ka \in {"off", "select", "sending"} => retries <= MaxKeepAliveRetries
  /\ ka \in {"exiting", "gone"} => ConnDone

(* The conjunction of the above with the type invariant is inductive: it    *)
(* ties every wait group and program counter of a connection to the         *)
(* goroutines that exist.                                                   *)
IInv ==
  /\ TypeOK
  /\ WaitGroupsExact
  /\ ServeHasWaiter
  /\ JobsInsideServe
  /\ MainOwns
  /\ KeepAliveBounded

-----------------------------------------------------------------------------
(* Liveness.                                                                *)

(* A connection whose transport is gone is torn down completely, whatever   *)
(* it was doing: waiting for resources, serving, or already shutting down.  *)
DeadLinkReleases == link = "down" ~> main = "closed"

(* Once the server shuts down every connection ends, provided the client    *)
(* does not stay silent for ever.                                           *)
ShutdownReleases ==
  <>[](link # "silent") => ("server" \in cancelled ~> main = "closed")

(* When a shell, subsystem or forward has ended and closed its channel,     *)
(* Serve and the other jobs of the channel end too, with the same proviso.  *)
JobEndEndsChannel ==
  <>[](link # "silent") =>
    \A c \in Channels : c \in closeSent ~> hc[c] = "done"
=============================================================================
