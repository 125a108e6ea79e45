------------------------- MODULE SSHConnectionProofs -------------------------
(***************************************************************************)
(* The safety properties of SSHConnection for any number of channels and   *)
(* jobs and any retry limit.  IInv is inductive (InitIInv, StepIInv) and   *)
(* implies each invariant; the two refinements of TaskScope take a step of *)
(* Next, from a state that satisfies IInv, to a step or a stutter of the   *)
(* scope.                                                                  *)
(***************************************************************************)
EXTENDS SSHConnection, TLAPS

(* A connection that has just been authenticated satisfies the invariant.  *)
LEMMA InitIInv == Init => IInv
  BY RetriesAssumption
  DEF Init, IInv, TypeOK, WaitGroupsExact, ActiveChannels, ServeHasWaiter,
      JobsInsideServe, MainOwns, KeepAliveBounded, RunningJobs,
      ConnDone, Contexts, MainPCs, Kinds

(* Every step of every goroutine, of the client and of the link preserves  *)
(* the invariant.                                                          *)
LEMMA StepIInv == IInv /\ [Next]_vars => IInv'
<1> SUFFICES ASSUME IInv, [Next]_vars PROVE IInv'
  OBVIOUS
<1> USE RetriesAssumption
<1> USE DEF IInv, TypeOK, WaitGroupsExact, ActiveChannels, ServeHasWaiter,
      JobsInsideServe, MainOwns, KeepAliveBounded, RunningJobs,
      ConnDone, Contexts, MainPCs, Kinds,
      clientVars, mainVars, kaVars, chanVars, serveVars, jobVars
<1>1. CASE StartConnection
  BY <1>1 DEF StartConnection
<1>2. CASE WriteFileReturns
  BY <1>2 DEF WriteFileReturns
<1>3. ASSUME NEW ok \in BOOLEAN, ResourcesReturn(ok) PROVE IInv'
  BY <1>3 DEF ResourcesReturn
<1>4. CASE StopChannels
  BY <1>4 DEF StopChannels, ChannelsDone
<1>5. CASE ChannelsDrained
  BY <1>5 DEF ChannelsDrained
<1>6. CASE CancelRequests
  BY <1>6 DEF CancelRequests
<1>7. CASE JoinRequests
  BY <1>7 DEF JoinRequests
<1>8. CASE CancelKeepAlive
  BY <1>8 DEF CancelKeepAlive
<1>9. CASE JoinKeepAlive
  BY <1>9 DEF JoinKeepAlive
<1>10. CASE CloseConnection
  BY <1>10 DEF CloseConnection
<1>11. CASE KeepAliveTick
  BY <1>11 DEF KeepAliveTick
<1>12. CASE KeepAliveAnswered
  BY <1>12 DEF KeepAliveAnswered
<1>13. CASE KeepAliveFailed
  <2>1. /\ retries \in Nat /\ retries <= MaxKeepAliveRetries
        /\ retries' = retries + 1
    BY <1>13 DEF KeepAliveFailed
  <2>2. CASE retries' > MaxKeepAliveRetries
    <3>1. ka' = "exiting" /\ cancelled' = cancelled \cup {"conn"}
      BY <1>13, <2>2 DEF KeepAliveFailed
    <3>2. TypeOK'
      BY <1>13, <2>1, <3>1 DEF KeepAliveFailed
    <3>3. WaitGroupsExact' /\ ServeHasWaiter' /\ JobsInsideServe'
      BY <1>13 DEF KeepAliveFailed
    <3>4. MainOwns' /\ KeepAliveBounded'
      BY <1>13, <3>1 DEF KeepAliveFailed
    <3> QED
      BY <3>2, <3>3, <3>4
  <2>3. CASE ~(retries' > MaxKeepAliveRetries)
    <3>1. ka' = "select" /\ cancelled' = cancelled
      BY <1>13, <2>3 DEF KeepAliveFailed
    <3>2. TypeOK'
      BY <1>13, <2>1, <2>3, <3>1 DEF KeepAliveFailed
    <3>3. WaitGroupsExact' /\ ServeHasWaiter' /\ JobsInsideServe'
      BY <1>13 DEF KeepAliveFailed
    <3>4. MainOwns' /\ KeepAliveBounded'
      BY <1>13, <2>1, <2>3, <3>1 DEF KeepAliveFailed
    <3> QED
      BY <3>2, <3>3, <3>4
  <2> QED
    BY <2>2, <2>3
<1>14. CASE KeepAliveStopped
  BY <1>14 DEF KeepAliveStopped
<1>15. CASE GlobalRequestsStopped
  BY <1>15 DEF GlobalRequestsStopped, RequestsDone
<1>16. ASSUME NEW c \in Channels, AcceptChannel(c) PROVE IInv'
  BY <1>16 DEF AcceptChannel, PendingChannels
<1>17. ASSUME NEW c \in Channels, RejectChannel(c) PROVE IInv'
  BY <1>17 DEF RejectChannel
<1>18. ASSUME NEW c \in Channels, ServeChannel(c) PROVE IInv'
  BY <1>18 DEF ServeChannel
<1>19. ASSUME NEW c \in Channels, ServeStartup(c) PROVE IInv'
  <2>1. CASE kind[c] = "direct-tcpip"
    <3>1. PICK j \in Jobs : StartJob(c, j)
      BY <1>19, <2>1 DEF ServeStartup
    <3> QED
      BY <1>19, <2>1, <3>1 DEF ServeStartup, StartJob
  <2>2. CASE kind[c] # "direct-tcpip"
    BY <1>19, <2>2 DEF ServeStartup
  <2> QED
    BY <2>1, <2>2
<1>20. ASSUME NEW c \in Channels, ServeStop(c) PROVE IInv'
  BY <1>20 DEF ServeStop
<1>21. ASSUME NEW c \in Channels, ServeDrained(c) PROVE IInv'
  BY <1>21 DEF ServeDrained
<1>22. ASSUME NEW c \in Channels, ServeJoined(c) PROVE IInv'
  BY <1>22 DEF ServeJoined
<1>23. ASSUME NEW c \in Channels, ClientCloses(c) PROVE IInv'
  BY <1>23 DEF ClientCloses
<1>24. ASSUME NEW c \in Channels, NEW j \in Jobs, ServeRequest(c, j) PROVE IInv'
  BY <1>24 DEF ServeRequest, StartJob
<1>25. ASSUME NEW c \in Channels, NEW j \in Jobs, JobReturns(c, j) PROVE IInv'
  BY <1>25 DEF JobReturns
<1>26. ASSUME NEW c \in Channels, NEW j \in Jobs, ClientRequests(c, j) PROVE IInv'
  BY <1>26 DEF ClientRequests
<1>27. ASSUME NEW c \in Channels, NEW k \in Kinds \ {"unopened"}, ClientOpens(c, k) PROVE IInv'
  BY <1>27 DEF ClientOpens
<1>28. CASE LinkStep
  <2>1. CASE LinkSilent
    BY <2>1 DEF LinkSilent, LinkChanges
  <2>2. CASE LinkResumes
    BY <2>2 DEF LinkResumes, LinkChanges
  <2>3. CASE LinkDown
    BY <2>3 DEF LinkDown, LinkChanges
  <2> QED
    BY <1>28, <2>1, <2>2, <2>3 DEF LinkStep
<1>29. CASE ServerShutdown
  BY <1>29 DEF ServerShutdown
<1>30. CASE UNCHANGED vars
  BY <1>30 DEF vars
<1>31. QED
  BY <1>1, <1>2, <1>3, <1>4, <1>5, <1>6, <1>7, <1>8, <1>9, <1>10, <1>11, <1>12, <1>13, <1>14, <1>15, <1>16, <1>17, <1>18, <1>19, <1>20, <1>21, <1>22, <1>23, <1>24, <1>25, <1>26, <1>27, <1>28, <1>29, <1>30
  DEF Next, MainStep, KeepAliveStep, ChannelStep, ClientStep, Finished

(* The inductive invariant holds in every reachable state.                 *)
THEOREM Invariance == Spec => []IInv
<1>1. Init => IInv
  BY InitIInv
<1>2. IInv /\ [Next]_vars => IInv'
  BY StepIInv
<1> QED
  BY <1>1, <1>2, PTL DEF Spec

(* Type correctness; in particular keepAlive never counts beyond one more  *)
(* than maxKeepAliveRetries.                                               *)
THEOREM TypeCorrect == Spec => []TypeOK
<1>1. IInv => TypeOK
  BY DEF IInv
<1> QED
  BY <1>1, Invariance, PTL

(* HandleGlobalConnection returns only after every goroutine of the        *)
(* connection has ended.                                                   *)
THEOREM NoLeak == Spec => []NoGoroutineLeft
<1>1. IInv => NoGoroutineLeft
  <2> SUFFICES ASSUME IInv, main = "closed" PROVE NoGoroutineLeft
    BY DEF NoGoroutineLeft
  <2>1. ka = "gone" /\ gr = "gone" /\ wg = {}
    BY DEF IInv, MainOwns
  <2>2. ASSUME NEW c \in Channels
        PROVE  /\ hc[c] \in {"none", "done"}
               /\ sv[c] \in {"off", "gone"}
               /\ RunningJobs(c) = {}
    <3>1. hc[c] \in {"none", "done"}
      BY <2>1 DEF IInv, TypeOK, WaitGroupsExact, ActiveChannels
    <3>2. sv[c] \in {"off", "gone"}
      BY <3>1 DEF IInv, TypeOK, ServeHasWaiter
    <3> QED
      BY <3>1, <3>2 DEF IInv, JobsInsideServe
  <2> QED
    BY <2>1, <2>2 DEF NoGoroutineLeft
<1> QED
  BY <1>1, Invariance, PTL

(* The deferred calls release the connection inside out.                   *)
THEOREM OrderlyTeardown == Spec => []TeardownOrder
<1>1. IInv => TeardownOrder
  <2> SUFFICES ASSUME IInv, NEW c \in Channels, RunningJobs(c) # {}
               PROVE  /\ main \in {"serving", "drain"}
                      /\ hc[c] = "waiting"
                      /\ sv[c] \in {"loop", "drain"}
                      /\ ka \in {"exiting", "gone"} => ConnDone
    BY DEF TeardownOrder
  <2>1. sv[c] \in {"loop", "drain"}
    BY DEF IInv, JobsInsideServe
  <2>2. hc[c] = "waiting"
    BY <2>1 DEF IInv, ServeHasWaiter
  <2>3. c \in wg
    BY <2>2 DEF IInv, WaitGroupsExact, ActiveChannels
  <2>4. main \in {"serving", "drain"}
    BY <2>3 DEF IInv, MainOwns
  <2> QED
    BY <2>1, <2>2, <2>4 DEF IInv, KeepAliveBounded
<1> QED
  BY <1>1, Invariance, PTL

-----------------------------------------------------------------------------
(* handleChannels implements TaskScope: no channel goroutine starts after  *)
(* the loop has ended, and c.wg.Wait() returns only when all have ended.   *)
THEOREM ChannelScopeRefined == Spec => ChannelsAreScoped
<1>1. Init => ChannelScope!Init
  BY DEF Init, ChannelScope!Init, ActiveChannels, ChannelPhase
<1>2. IInv /\ [Next]_vars => [ChannelScope!Next]_(ChannelScope!vars)
  <2> SUFFICES ASSUME IInv, [Next]_vars
               PROVE  \/ ChannelScope!Next
                      \/ ActiveChannels' = ActiveChannels /\ ChannelPhase' = ChannelPhase
    BY DEF ChannelScope!vars
  <2> USE DEF ActiveChannels, ChannelPhase, mainVars, chanVars
  <2>1. TypeOK /\ wg = ActiveChannels /\ (main \notin {"serving", "drain"} => wg = {})
    BY DEF IInv, WaitGroupsExact, MainOwns
  <2>2. ASSUME NEW c \in Channels, AcceptChannel(c) PROVE ChannelScope!Begin(c)
    BY <2>1, <2>2 DEF AcceptChannel, PendingChannels, ChannelScope!Begin, TypeOK
  <2>3. ASSUME NEW c \in Channels, RejectChannel(c) \/ ServeJoined(c)
        PROVE  ChannelScope!Finish(c)
    BY <2>1, <2>3 DEF RejectChannel, ServeJoined, ChannelScope!Finish, TypeOK
  <2>4. CASE StopChannels
    BY <2>4 DEF StopChannels, ChannelScope!Next, ChannelScope!Close
  <2>5. CASE ChannelsDrained
    BY <2>1, <2>5 DEF ChannelsDrained, ChannelScope!Next, ChannelScope!Join
  <2>6. ASSUME NEW ok \in BOOLEAN, ResourcesReturn(ok)
        PROVE  \/ ChannelScope!Join
               \/ ActiveChannels' = ActiveChannels /\ ChannelPhase' = ChannelPhase
    BY <2>1, <2>6 DEF ResourcesReturn, ChannelScope!Join
  <2>7. CASE \/ StartConnection \/ WriteFileReturns \/ CancelRequests
             \/ JoinRequests \/ CancelKeepAlive \/ JoinKeepAlive \/ CloseConnection
    BY <2>7 DEF StartConnection, WriteFileReturns, CancelRequests, JoinRequests,
        CancelKeepAlive, JoinKeepAlive, CloseConnection
  <2>8. CASE KeepAliveStep \/ GlobalRequestsStopped \/ ServerShutdown \/ LinkStep
    BY <2>8 DEF KeepAliveStep, KeepAliveTick, KeepAliveAnswered, KeepAliveFailed,
        KeepAliveStopped, GlobalRequestsStopped, ServerShutdown, LinkStep,
        LinkSilent, LinkResumes, LinkDown, LinkChanges
  <2>9. ASSUME NEW c \in Channels, ServeChannel(c)
        PROVE  ActiveChannels' = ActiveChannels /\ ChannelPhase' = ChannelPhase
    BY <2>1, <2>9 DEF ServeChannel, TypeOK
  <2>10. ASSUME NEW c \in Channels,
                \/ ServeStartup(c) \/ ServeStop(c) \/ ServeDrained(c)
                \/ \E j \in Jobs : ServeRequest(c, j) \/ JobReturns(c, j)
                \/ ClientStep(c)
         PROVE  ActiveChannels' = ActiveChannels /\ ChannelPhase' = ChannelPhase
    BY <2>10 DEF ServeStartup, ServeStop, ServeDrained, ServeRequest, JobReturns,
        ClientStep, ClientOpens, ClientRequests, ClientCloses
  <2>11. CASE UNCHANGED vars
    BY <2>11 DEF vars
  <2> QED
    BY <2>2, <2>3, <2>4, <2>5, <2>6, <2>7, <2>8, <2>9, <2>10, <2>11
    DEF Next, MainStep, ChannelStep, Finished, ChannelScope!Next
<1> QED
  BY <1>1, <1>2, Invariance, PTL DEF Spec, ChannelsAreScoped, ChannelScope!Spec

(* Every Serve implements TaskScope: no shell, subsystem or forward starts *)
(* after its loop has ended, and the waiter of the channel is released     *)
(* only when all of them have returned.                                    *)
THEOREM ServeScopeRefined == Spec => JobsAreScoped
<1> DEFINE ScopeStep(c) == \/ ServeScope(c)!Next
                           \/ RunningJobs(c)' = RunningJobs(c) /\ ServePhase(c)' = ServePhase(c)
<1>1. Init => \A c \in Channels : ServeScope(c)!Init
  <2> SUFFICES ASSUME Init, NEW c \in Channels
               PROVE  RunningJobs(c) = {} /\ ServePhase(c) = "open"
    BY DEF ServeScope!Init
  <2>1. sv[c] = "off" /\ \A j \in Jobs : job[c][j] = "idle"
    BY DEF Init
  <2> QED
    BY <2>1 DEF RunningJobs, ServePhase
<1>2. IInv /\ [Next]_vars =>
        \A c \in Channels : [ServeScope(c)!Next]_(ServeScope(c)!vars)
  <2> SUFFICES ASSUME IInv, [Next]_vars, NEW c \in Channels PROVE ScopeStep(c)
    BY DEF ServeScope!vars
  <2> USE DEF RunningJobs, ServePhase, serveVars, jobVars
  <2>1. /\ TypeOK
        /\ jobwg[c] = RunningJobs(c)
        /\ RunningJobs(c) # {} => sv[c] \in {"loop", "drain"}
    BY DEF IInv, WaitGroupsExact, JobsInsideServe
  <2>2. ASSUME NEW d \in Channels, ServeStartup(d) PROVE ScopeStep(c)
    <3>1. CASE kind[d] = "direct-tcpip"
      <4>1. PICK j \in Jobs : StartJob(d, j)
        BY <2>2, <3>1 DEF ServeStartup
      <4>2. CASE d = c
        <5>1. ServeScope(c)!Begin(j)
          BY <2>1, <2>2, <4>1, <4>2 DEF ServeStartup, StartJob, ServeScope!Begin, TypeOK
        <5> QED
          BY <5>1 DEF ServeScope!Next
      <4>3. CASE d # c
        BY <2>1, <2>2, <4>1, <4>3 DEF ServeStartup, StartJob, TypeOK
      <4> QED
        BY <4>2, <4>3
    <3>2. CASE kind[d] # "direct-tcpip"
      BY <2>1, <2>2, <3>2 DEF ServeStartup, TypeOK
    <3> QED
      BY <3>1, <3>2
  <2>3. ASSUME NEW d \in Channels, NEW j \in Jobs, ServeRequest(d, j) PROVE ScopeStep(c)
    <3>1. CASE d = c
      <4>1. ServeScope(c)!Begin(j)
        BY <2>1, <2>3, <3>1 DEF ServeRequest, StartJob, ServeScope!Begin, TypeOK
      <4> QED
        BY <4>1 DEF ServeScope!Next
    <3>2. CASE d # c
      BY <2>1, <2>3, <3>2 DEF ServeRequest, StartJob, TypeOK
    <3> QED
      BY <3>1, <3>2
  <2>4. ASSUME NEW d \in Channels, NEW j \in Jobs, JobReturns(d, j) PROVE ScopeStep(c)
    <3>1. CASE d = c
      <4>1. ServeScope(c)!Finish(j)
        BY <2>1, <2>4, <3>1 DEF JobReturns, ServeScope!Finish, TypeOK
      <4> QED
        BY <4>1 DEF ServeScope!Next
    <3>2. CASE d # c
      BY <2>1, <2>4, <3>2 DEF JobReturns, TypeOK
    <3> QED
      BY <3>1, <3>2
  <2>5. ASSUME NEW d \in Channels, ServeStop(d) PROVE ScopeStep(c)
    BY <2>1, <2>5 DEF ServeStop, ServeScope!Next, ServeScope!Close, TypeOK
  <2>6. ASSUME NEW d \in Channels, ServeDrained(d) PROVE ScopeStep(c)
    BY <2>1, <2>6 DEF ServeDrained, ServeScope!Next, ServeScope!Join, TypeOK
  <2>7. ASSUME NEW d \in Channels, ServeChannel(d) PROVE ScopeStep(c)
    <3>1. d = c => sv[c] \in {"off", "gone"}
      BY <2>7 DEF IInv, ServeHasWaiter, ServeChannel, TypeOK
    <3>2. d = c => sv[c] = "off"
      BY <2>7, <3>1 DEF IInv, ServeHasWaiter, ServeChannel
    <3> QED
      BY <2>1, <2>7, <3>2 DEF ServeChannel, TypeOK
  <2>8. ASSUME NEW d \in Channels, ServeJoined(d) PROVE ScopeStep(c)
    BY <2>1, <2>8 DEF ServeJoined, TypeOK
  <2>9. ASSUME NEW d \in Channels, NEW j \in Jobs, ClientRequests(d, j) PROVE ScopeStep(c)
    BY <2>1, <2>9 DEF ClientRequests, TypeOK
  <2>10. ASSUME NEW d \in Channels,
                \/ AcceptChannel(d) \/ RejectChannel(d) \/ ClientCloses(d)
                \/ \E k \in Kinds \ {"unopened"} : ClientOpens(d, k)
         PROVE  ScopeStep(c)
    BY <2>10 DEF AcceptChannel, RejectChannel, ClientCloses, ClientOpens
  <2>11. CASE MainStep
    BY <2>11 DEF MainStep, StartConnection, ResourcesReturn, WriteFileReturns,
        StopChannels, ChannelsDrained, CancelRequests, JoinRequests,
        CancelKeepAlive, JoinKeepAlive, CloseConnection
  <2>12. CASE KeepAliveStep \/ GlobalRequestsStopped \/ ServerShutdown \/ LinkStep
    BY <2>12 DEF KeepAliveStep, KeepAliveTick, KeepAliveAnswered, KeepAliveFailed,
        KeepAliveStopped, GlobalRequestsStopped, ServerShutdown, LinkStep,
        LinkSilent, LinkResumes, LinkDown, LinkChanges
  <2>13. CASE UNCHANGED vars
    BY <2>13 DEF vars
  <2> HIDE DEF ScopeStep
  <2> QED
    BY <2>2, <2>3, <2>4, <2>5, <2>6, <2>7, <2>8, <2>9, <2>10, <2>11, <2>12, <2>13
    DEF Next, ChannelStep, ClientStep, Finished
<1> QED
  BY <1>1, <1>2, Invariance, PTL DEF Spec, JobsAreScoped

-----------------------------------------------------------------------------
(***************************************************************************)
(* What DeadLinkReleases and ShutdownReleases rest on, for any number of   *)
(* channels and jobs.  The prover does not reach the liveness properties   *)
(* themselves, but their two halves are safety properties: once the link   *)
(* is down every step takes some goroutine nearer to its end and none      *)
(* back, and until HandleGlobalConnection has returned there is a step to  *)
(* take.  With finitely many channels and jobs the teardown can then       *)
(* neither run for ever nor stop half way.                                 *)
(***************************************************************************)

(* How far each goroutine has come.  keepAlive goes round its loop, but     *)
(* not more than maxKeepAliveRetries times without an answer.               *)
MainRank(m) ==
  CASE m = "start" -> 0 [] m = "resources" -> 1 [] m = "writing" -> 2
    [] m = "serving" -> 3 [] m = "drain" -> 4 [] m = "closeRequests" -> 5
    [] m = "waitRequests" -> 6 [] m = "closeKeepAlive" -> 7
    [] m = "waitKeepAlive" -> 8 [] m = "close" -> 9 [] m = "closed" -> 10

KeepAliveRank(k, r) ==
  CASE k = "off" -> 0
    [] k = "select" -> 2 * r + 1
    [] k = "sending" -> 2 * r + 2
    [] k = "exiting" -> 2 * MaxKeepAliveRetries + 3
    [] k = "gone" -> 2 * MaxKeepAliveRetries + 4

RequestsRank(g) ==
  CASE g = "off" -> 0 [] g = "select" -> 1 [] g = "exiting" -> 2 [] g = "gone" -> 3

HandlerRank(h) ==
  CASE h = "none" -> 0 [] h = "dispatch" -> 1 [] h = "waiting" -> 2 [] h = "done" -> 3

ServeRank(s) ==
  CASE s = "off" -> 0 [] s = "startup" -> 1 [] s = "loop" -> 2 [] s = "drain" -> 3
    [] s = "handoff" -> 4 [] s = "gone" -> 5

JobRank(j) ==
  CASE j = "idle" -> 0 [] j = "requested" -> 1 [] j = "running" -> 2 [] j = "done" -> 3

NothingGoesBack ==
  /\ cancelled \subseteq cancelled'
  /\ MainRank(main) <= MainRank(main')
  /\ KeepAliveRank(ka, retries) <= KeepAliveRank(ka', retries')
  /\ RequestsRank(gr) <= RequestsRank(gr')
  /\ \A c \in Channels :
       /\ HandlerRank(hc[c]) <= HandlerRank(hc'[c])
       /\ ServeRank(sv[c]) <= ServeRank(sv'[c])
       /\ \A j \in Jobs : JobRank(job[c][j]) <= JobRank(job'[c][j])

SomethingAdvances ==
  \/ cancelled # cancelled'
  \/ MainRank(main) < MainRank(main')
  \/ KeepAliveRank(ka, retries) < KeepAliveRank(ka', retries')
  \/ RequestsRank(gr) < RequestsRank(gr')
  \/ \E c \in Channels :
       \/ HandlerRank(hc[c]) < HandlerRank(hc'[c])
       \/ ServeRank(sv[c]) < ServeRank(sv'[c])
       \/ \E j \in Jobs : JobRank(job[c][j]) < JobRank(job'[c][j])

(* A channel has no job behind it when its Serve begins.                    *)
JobsStartInServe ==
  \A c \in Channels : sv[c] \in {"off", "startup"} =>
    \A j \in Jobs : job[c][j] \in {"idle", "requested"}

(* No channel is served twice.                                              *)
LEMMA FreshJobs == Spec => []JobsStartInServe
<1>1. Init => JobsStartInServe
  BY DEF Init, JobsStartInServe
<1>2. IInv /\ JobsStartInServe /\ [Next]_vars => JobsStartInServe'
  <2> SUFFICES ASSUME IInv, JobsStartInServe, [Next]_vars,
                      NEW d \in Channels, sv'[d] \in {"off", "startup"}, NEW i \in Jobs
               PROVE  job'[d][i] \in {"idle", "requested"}
    BY DEF JobsStartInServe
  <2> USE DEF IInv, TypeOK, JobsStartInServe, serveVars, jobVars
  <2>1. CASE MainStep \/ KeepAliveStep \/ GlobalRequestsStopped \/ LinkStep \/ ServerShutdown
    BY <2>1 DEF MainStep, StartConnection, ResourcesReturn, WriteFileReturns,
        StopChannels, ChannelsDrained, CancelRequests, JoinRequests,
        CancelKeepAlive, JoinKeepAlive, CloseConnection, KeepAliveStep, KeepAliveTick,
        KeepAliveAnswered, KeepAliveFailed, KeepAliveStopped, GlobalRequestsStopped,
        LinkStep, LinkSilent, LinkResumes, LinkDown, LinkChanges, ServerShutdown
  <2>2. ASSUME NEW c \in Channels, AcceptChannel(c) \/ RejectChannel(c)
        PROVE  job'[d][i] \in {"idle", "requested"}
    BY <2>2 DEF AcceptChannel, RejectChannel
  <2>3. ASSUME NEW c \in Channels, ServeChannel(c)
        PROVE  job'[d][i] \in {"idle", "requested"}
    BY <2>3 DEF ServeChannel, ServeHasWaiter
  <2>4. ASSUME NEW c \in Channels, ServeStartup(c)
        PROVE  job'[d][i] \in {"idle", "requested"}
    <3>1. d # c /\ sv'[d] = sv[d]
      BY <2>4 DEF ServeStartup
    <3>2. job'[d] = job[d]
      BY <2>4, <3>1 DEF ServeStartup, StartJob
    <3> QED
      BY <3>1, <3>2
  <2>5. ASSUME NEW c \in Channels, ServeStop(c) \/ ServeDrained(c) \/ ServeJoined(c)
        PROVE  job'[d][i] \in {"idle", "requested"}
    BY <2>5 DEF ServeStop, ServeDrained, ServeJoined
  <2>6. ASSUME NEW c \in Channels, NEW j \in Jobs, ServeRequest(c, j) \/ JobReturns(c, j)
        PROVE  job'[d][i] \in {"idle", "requested"}
    <3>1. sv' = sv /\ sv[c] \in {"loop", "drain"}
      BY <2>6 DEF ServeRequest, JobReturns, JobsInsideServe, RunningJobs
    <3>2. d # c
      BY <3>1
    <3>3. job'[d] = job[d]
      BY <2>6, <3>2 DEF ServeRequest, JobReturns, StartJob
    <3> QED
      BY <3>1, <3>3
  <2>7. ASSUME NEW c \in Channels, ClientStep(c)
        PROVE  job'[d][i] \in {"idle", "requested"}
    BY <2>7 DEF ClientStep, ClientOpens, ClientRequests, ClientCloses
  <2>8. CASE UNCHANGED vars
    BY <2>8 DEF vars
  <2> QED
    BY <2>1, <2>2, <2>3, <2>4, <2>5, <2>6, <2>7, <2>8 DEF Next, ChannelStep, Finished
<1> QED
  BY <1>1, <1>2, Invariance, PTL DEF Spec

(* With the link down every step is one forward.                            *)
DeadLinkAdvances == link = "down" => NothingGoesBack /\ SomethingAdvances

(* Every step of a connection whose link is down brings some goroutine      *)
(* nearer to its end and none back: nothing is retried for ever, no channel *)
(* and no job is started twice.                                             *)
THEOREM DeadLinkRunsDown == Spec => [][DeadLinkAdvances]_vars
<1>1. IInv /\ JobsStartInServe /\ [Next]_vars => [DeadLinkAdvances]_vars
  <2> SUFFICES ASSUME IInv, JobsStartInServe, Next, link = "down", vars' # vars
               PROVE  NothingGoesBack /\ SomethingAdvances
    BY DEF DeadLinkAdvances
  <2> USE RetriesAssumption
  <2> USE DEF IInv, TypeOK, MainPCs, NothingGoesBack, SomethingAdvances, MainRank, KeepAliveRank,
              RequestsRank, HandlerRank, ServeRank, JobRank,
              clientVars, mainVars, kaVars, chanVars, serveVars, jobVars
  <2>1. CASE MainStep
    BY <2>1 DEF MainStep, StartConnection, ResourcesReturn, WriteFileReturns,
        StopChannels, ChannelsDrained, CancelRequests, JoinRequests,
        CancelKeepAlive, JoinKeepAlive, CloseConnection, KeepAliveBounded, MainOwns
  <2>2. CASE KeepAliveStep
    BY <2>2 DEF KeepAliveStep, KeepAliveTick, KeepAliveAnswered, KeepAliveFailed,
        KeepAliveStopped, KeepAliveBounded
  <2>3. CASE GlobalRequestsStopped
    BY <2>3 DEF GlobalRequestsStopped
  <2>4. ASSUME NEW c \in Channels, AcceptChannel(c) \/ RejectChannel(c)
        PROVE  NothingGoesBack /\ SomethingAdvances
    BY <2>4 DEF AcceptChannel, RejectChannel, PendingChannels
  <2>5. ASSUME NEW c \in Channels, ServeStartup(c)
        PROVE  NothingGoesBack /\ SomethingAdvances
    <3>1. sv[c] = "startup" /\ sv' = [sv EXCEPT ![c] = "loop"]
      BY <2>5 DEF ServeStartup
    <3>2. \A d \in Channels : \A i \in Jobs : JobRank(job[d][i]) <= JobRank(job'[d][i])
      <4>1. CASE kind[c] = "direct-tcpip"
        <5>1. PICK j \in Jobs : StartJob(c, j)
          BY <2>5, <4>1 DEF ServeStartup
        <5>2. job[c][j] \in {"idle", "requested"}
          BY <3>1 DEF JobsStartInServe
        <5> QED
          BY <5>1, <5>2 DEF StartJob
      <4>2. CASE kind[c] # "direct-tcpip"
        BY <2>5, <4>2 DEF ServeStartup
      <4> QED
        BY <4>1, <4>2
    <3>3. UNCHANGED <<cancelled, main, ka, retries, gr, hc>>
      BY <2>5 DEF ServeStartup
    <3>4. \A d \in Channels : ServeRank(sv[d]) <= ServeRank(sv'[d])
      BY <3>1
    <3>5. ServeRank(sv[c]) < ServeRank(sv'[c])
      BY <3>1
    <3>6. /\ MainRank(main) <= MainRank(main')
          /\ KeepAliveRank(ka, retries) <= KeepAliveRank(ka', retries')
          /\ RequestsRank(gr) <= RequestsRank(gr')
      BY <3>3
    <3>7. \A d \in Channels : HandlerRank(hc[d]) <= HandlerRank(hc'[d])
      BY <3>3
    <3> HIDE DEF JobRank, ServeRank, MainRank, KeepAliveRank, RequestsRank, HandlerRank
    <3> QED
      BY <3>2, <3>3, <3>4, <3>5, <3>6, <3>7
  <2>6. ASSUME NEW c \in Channels, ServeStop(c) \/ ServeDrained(c) \/ ServeJoined(c)
        PROVE  NothingGoesBack /\ SomethingAdvances
    BY <2>6 DEF ServeStop, ServeDrained, ServeJoined
  <2>7. ASSUME NEW c \in Channels, NEW j \in Jobs, ServeRequest(c, j) \/ JobReturns(c, j)
        PROVE  NothingGoesBack /\ SomethingAdvances
    <3>1. JobRank(job[c][j]) < JobRank(job'[c][j])
      BY <2>7 DEF ServeRequest, JobReturns, StartJob
    <3>2. \A d \in Channels : \A i \in Jobs : JobRank(job[d][i]) <= JobRank(job'[d][i])
      BY <2>7 DEF ServeRequest, JobReturns, StartJob
    <3>3. UNCHANGED <<cancelled, main, ka, retries, gr, hc, sv>>
      BY <2>7 DEF ServeRequest, JobReturns
    <3> HIDE DEF JobRank
    <3> QED
      BY <3>1, <3>2, <3>3
  <2>8. ASSUME NEW c \in Channels, ServeChannel(c) \/ ClientStep(c) PROVE FALSE
    BY <2>8 DEF ServeChannel, ClientStep, ClientOpens, ClientRequests, ClientCloses
  <2>9. CASE LinkStep
    BY <2>9 DEF LinkStep, LinkSilent, LinkResumes, LinkDown, LinkChanges
  <2>10. CASE ServerShutdown
    BY <2>10 DEF ServerShutdown
  <2> QED
    BY <2>1, <2>2, <2>3, <2>4, <2>5, <2>6, <2>7, <2>8, <2>9, <2>10
    DEF Next, ChannelStep, Finished
<1> QED
  BY <1>1, Invariance, FreshJobs, PTL DEF Spec

(* The connection has been told to end and nothing depends on a client that *)
(* does not answer.                                                         *)
Ending == link = "down" \/ (link = "up" /\ ConnDone)

(* The condition of some step that Fairness lets happen: of                 *)
(* HandleGlobalConnection, of keepAlive, of handleGlobalRequests, or of a   *)
(* channel, its Serve or one of its jobs.                                   *)
CanMove ==
  \/ main \in {"start", "closeRequests", "closeKeepAlive", "close"}
  \/ main \in {"resources", "writing"} /\ ConnDone
  \/ main = "serving" /\ (ChannelsDone \/ link = "down")
  \/ main = "drain" /\ wg = {}
  \/ main = "waitRequests" /\ gr = "exiting"
  \/ main = "waitKeepAlive" /\ ka = "exiting"
  \/ ka = "select" /\ (ConnDone \/ link = "down")
  \/ ka = "sending" /\ link # "silent"
  \/ gr = "select" /\ (RequestsDone \/ link = "down")
  \/ \E c \in Channels :
       \/ hc[c] = "dispatch"
       \/ sv[c] = "startup"
       \/ sv[c] = "loop" /\ (ServeDone(c) \/ RequestsClosed(c))
       \/ sv[c] = "drain" /\ jobwg[c] = {}
       \/ sv[c] = "handoff" /\ hc[c] = "waiting"
       \/ \E j \in Jobs : job[c][j] = "running" /\ ServeDone(c) /\ link # "silent"

(* The deferred function of handleChannels cancels before it waits.         *)
CancelsFirst == main = "drain" => "channels" \in cancelled

(* StopChannels is the only way into the drain, and no context is revived.  *)
LEMMA DrainCancelled == Spec => []CancelsFirst
<1>1. Init => CancelsFirst
  BY DEF Init, CancelsFirst
<1>2. CancelsFirst /\ [Next]_vars => CancelsFirst'
  <2> SUFFICES ASSUME CancelsFirst, [Next]_vars PROVE CancelsFirst'
    OBVIOUS
  <2> USE DEF CancelsFirst, mainVars
  <2>1. CASE MainStep
    BY <2>1 DEF MainStep, StartConnection, ResourcesReturn, WriteFileReturns,
        StopChannels, ChannelsDrained, CancelRequests, JoinRequests,
        CancelKeepAlive, JoinKeepAlive, CloseConnection
  <2>2. CASE KeepAliveStep \/ GlobalRequestsStopped \/ LinkStep \/ ServerShutdown
    BY <2>2 DEF KeepAliveStep, KeepAliveTick, KeepAliveAnswered, KeepAliveFailed,
        KeepAliveStopped, GlobalRequestsStopped, LinkStep, LinkSilent, LinkResumes,
        LinkDown, LinkChanges, ServerShutdown
  <2>3. ASSUME NEW c \in Channels, ChannelStep(c) \/ ClientStep(c) PROVE CancelsFirst'
    BY <2>3 DEF ChannelStep, AcceptChannel, RejectChannel, ServeChannel, ServeStartup,
        ServeStop, ServeDrained, ServeJoined, ServeRequest, JobReturns, ClientStep,
        ClientOpens, ClientRequests, ClientCloses
  <2>4. CASE UNCHANGED vars
    BY <2>4 DEF vars
  <2> QED
    BY <2>1, <2>2, <2>3, <2>4 DEF Next, Finished
<1> QED
  BY <1>1, <1>2, PTL DEF Spec

(* Everyone never waits on everyone: while a connection ends, whatever its  *)
(* goroutines, channels and jobs wait for, one of them can go on, until     *)
(* HandleGlobalConnection has returned.                                     *)
THEOREM TeardownNeverStuck == Spec => [](Ending /\ main # "closed" => CanMove)
<1>1. IInv /\ CancelsFirst => (Ending /\ main # "closed" => CanMove)
  <2> SUFFICES ASSUME IInv, CancelsFirst, Ending, main # "closed" PROVE CanMove
    OBVIOUS
  <2> USE DEF IInv, TypeOK, Ending, CanMove
  <2>1. link # "silent"
    OBVIOUS
  <2>2. CASE main \in {"start", "closeRequests", "closeKeepAlive", "close", "serving"}
    BY <2>2 DEF ChannelsDone
  <2>3. CASE main \in {"resources", "writing"}
    BY <2>1, <2>3 DEF MainOwns, KeepAliveBounded
  <2>4. CASE main = "waitRequests"
    BY <2>4 DEF MainOwns, RequestsDone
  <2>5. CASE main = "waitKeepAlive"
    BY <2>1, <2>5 DEF MainOwns
  <2>6. CASE main = "drain" /\ wg # {}
    <3>1. PICK c \in Channels : hc[c] \in {"dispatch", "waiting"}
      BY <2>6 DEF WaitGroupsExact, ActiveChannels
    <3>2. ServeDone(c)
      BY <2>6 DEF CancelsFirst, ServeDone, ChannelsDone
    <3>3. CASE hc[c] = "waiting" /\ sv[c] = "drain" /\ jobwg[c] # {}
      <4>1. PICK j \in Jobs : job[c][j] = "running"
        BY <3>3 DEF WaitGroupsExact, RunningJobs
      <4> QED
        BY <2>1, <3>2, <4>1
    <3>4. CASE hc[c] = "waiting" /\ ~(sv[c] = "drain" /\ jobwg[c] # {})
      <4>1. sv[c] \in {"startup", "loop", "drain", "handoff"}
        BY <3>4 DEF ServeHasWaiter
      <4> QED
        BY <3>2, <3>4, <4>1
    <3> QED
      BY <3>1, <3>3, <3>4
  <2>7. CASE main = "drain" /\ wg = {}
    BY <2>7
  <2> QED
    BY <2>2, <2>3, <2>4, <2>5, <2>6, <2>7 DEF MainPCs
<1> QED
  BY <1>1, Invariance, DrainCancelled, PTL
(* The deferred function of Serve cancels before it waits, and only a job   *)
(* of a Serve that is past its start closes a channel.                      *)
ServeStages ==
  \A c \in Channels :
    /\ sv[c] \in {"drain", "handoff", "gone"} => c \in serveCancelled
    /\ c \in closeSent => sv[c] \notin {"off", "startup"}

(* ServeStop is the only way into the drain, and no Serve starts over.      *)
LEMMA ServeStaged == Spec => []ServeStages
<1>1. Init => ServeStages
  BY DEF Init, ServeStages
<1>2. IInv /\ ServeStages /\ [Next]_vars => ServeStages'
  <2> SUFFICES ASSUME IInv, ServeStages, [Next]_vars PROVE ServeStages'
    OBVIOUS
  <2> USE DEF IInv, TypeOK, ServeStages, serveVars, jobVars
  <2>1. CASE MainStep \/ KeepAliveStep \/ GlobalRequestsStopped \/ LinkStep \/ ServerShutdown
    BY <2>1 DEF MainStep, StartConnection, ResourcesReturn, WriteFileReturns,
        StopChannels, ChannelsDrained, CancelRequests, JoinRequests,
        CancelKeepAlive, JoinKeepAlive, CloseConnection, KeepAliveStep, KeepAliveTick,
        KeepAliveAnswered, KeepAliveFailed, KeepAliveStopped, GlobalRequestsStopped,
        LinkStep, LinkSilent, LinkResumes, LinkDown, LinkChanges, ServerShutdown
  <2>2. ASSUME NEW c \in Channels, AcceptChannel(c) \/ RejectChannel(c) \/ ClientStep(c)
        PROVE  ServeStages'
    BY <2>2 DEF AcceptChannel, RejectChannel, ClientStep, ClientOpens, ClientRequests,
        ClientCloses
  <2>3. ASSUME NEW c \in Channels, ServeChannel(c) PROVE ServeStages'
    <3>1. sv[c] = "off"
      BY <2>3 DEF ServeChannel, ServeHasWaiter
    <3> QED
      BY <2>3, <3>1 DEF ServeChannel
  <2>4. ASSUME NEW c \in Channels, ServeStartup(c) PROVE ServeStages'
    <3>1. closeSent' = closeSent /\ serveCancelled' = serveCancelled
      BY <2>4 DEF ServeStartup, StartJob
    <3> QED
      BY <2>4, <3>1 DEF ServeStartup
  <2>5. ASSUME NEW c \in Channels, ServeStop(c) \/ ServeDrained(c) \/ ServeJoined(c)
        PROVE  ServeStages'
    BY <2>5 DEF ServeStop, ServeDrained, ServeJoined
  <2>6. ASSUME NEW c \in Channels, NEW j \in Jobs, ServeRequest(c, j) \/ JobReturns(c, j)
        PROVE  ServeStages'
    <3>1. sv[c] \in {"loop", "drain"} /\ UNCHANGED serveVars
      BY <2>6 DEF ServeRequest, JobReturns, JobsInsideServe, RunningJobs
    <3> QED
      BY <2>6, <3>1 DEF ServeRequest, JobReturns, StartJob
  <2>7. CASE UNCHANGED vars
    BY <2>7 DEF vars
  <2> QED
    BY <2>1, <2>2, <2>3, <2>4, <2>5, <2>6, <2>7 DEF Next, ChannelStep, Finished
<1> QED
  BY <1>1, <1>2, Invariance, PTL DEF Spec

(* The condition of some step of one channel that Fairness lets happen: of  *)
(* Serve, of a job that it has cancelled, or of a client that answers the   *)
(* close.                                                                   *)
ChannelCanMove(c) ==
  \/ sv[c] = "loop" /\ (ServeDone(c) \/ RequestsClosed(c) \/ link = "up")
  \/ sv[c] = "drain" /\ jobwg[c] = {}
  \/ sv[c] = "handoff" /\ hc[c] = "waiting"
  \/ \E j \in Jobs : job[c][j] = "running" /\ ServeDone(c)

(* What JobEndEndsChannel rests on: a channel that one of its jobs has      *)
(* closed does not stay for want of anyone to end Serve or the other jobs,  *)
(* which the deferred function of Serve waits for.                          *)
THEOREM ClosedChannelNeverStuck ==
  Spec => [](\A c \in closeSent : link # "silent" /\ hc[c] # "done" => ChannelCanMove(c))
<1>1. IInv /\ ServeStages =>
        \A c \in closeSent : link # "silent" /\ hc[c] # "done" => ChannelCanMove(c)
  <2> SUFFICES ASSUME IInv, ServeStages, NEW c \in closeSent,
                      link # "silent", hc[c] # "done"
               PROVE  ChannelCanMove(c)
    OBVIOUS
  <2>1. c \in Channels /\ sv[c] \in {"loop", "drain", "handoff"} /\ hc[c] = "waiting"
    BY DEF IInv, TypeOK, ServeStages, ServeHasWaiter
  <2>2. CASE sv[c] = "loop"
    BY <2>1, <2>2 DEF IInv, TypeOK, ChannelCanMove, RequestsClosed
  <2>3. CASE sv[c] = "drain" /\ jobwg[c] # {}
    <3>1. PICK j \in Jobs : job[c][j] = "running"
      BY <2>1, <2>3 DEF IInv, TypeOK, WaitGroupsExact, RunningJobs
    <3> QED
      BY <2>1, <2>3, <3>1 DEF ServeStages, ServeDone, ChannelCanMove
  <2> QED
    BY <2>1, <2>2, <2>3 DEF ChannelCanMove
<1> QED
  BY <1>1, Invariance, ServeStaged, PTL
=============================================================================
