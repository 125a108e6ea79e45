# delegatio in TLA+

delegatio gives every student of a class a container in a kubernetes cluster
and lets them into it over ssh. This directory holds TLA+ specifications of its
core, the TLC models that check them on small instances, and TLAPS proofs of the
properties that matter most for every instance.

- `PROJECT.json`: components, runs, mutants, the map from definitions to source
  lines, findings, hazards and theorems.
- `<Component>.tla`: specification, properties and inductive invariant of a component.
- `<Component>Proofs.tla`: its theorems. `<Component>_<question>.cfg`: its TLC
  models, of the component itself or of `MC<Component>.tla`, which adds symmetry.

## 1. The system

| part (source) | state it keeps | operations | interacts with |
|---|---|---|---|
| ssh server process (`ssh/server.go`, `ssh/main.go`) | listener, `handleConnWG`, `currentConnections` | accept, handshake, count, shut down on SIGINT/SIGTERM | starts a connection handler per client; shares its context with all of them |
| authentication (`ssh/server.go`, `internal/storewrapper`, `ssh/ldap`) | two indices in the shared store: by uuid, by public key | public key callback, password callback (directory, key generation, two Puts) | etcd, LDAP; permissions travel to the connection |
| connection handler (`ssh/connection`) | contexts, `wg`, done channels, retry count | keepAlive, handleGlobalRequests, handleChannels, deferred teardown | kubernetes for the user's resources; a channel handler per channel |
| channel handlers (`ssh/connection/channels`) | request loop, `reqData.wg`, terminal size queue | Serve, Wait, shell, subsystem, port forward | the agent in the pod, the kubernetes api |
| user resources (`ssh/kubernetes/api.go`, `internal/k8sapi`) | namespace, service, statefulset, claim, volume, pod of each user | exists, create, wait, look up | kubernetes api server, shared by all replicas |
| exec stream and agent (`agent/vmapi`) | one gRPC stream, five goroutines on either side, a command with pipes or a pty | exec, resize, write file | ssh channel on one side, process on the other |
| port forward (`internal/k8sapi/portForward.go`) | error stream, data stream, three goroutines | forward | kubernetes api server, the ssh channel |
| stores (`internal/store`, `internal/storewrapper`) | key-value map, transaction lock, buffers | get, put, delete, transactions, iterate, transfer | etcd, or memory in tests; shared by replicas, installer and tool |
| qemu infrastructure, bootstrapper, installer, cli (`cli`) | libvirt objects, node addresses, kubernetes state | create, join, install, terminate | libvirt, agents in the machines, kubernetes, helm |
| grader (`grader`) | solution files, child processes | run a solution on the inputs of an exercise, compare, reply | the user's tool in a pod, the kernel |

What is hard here is concurrency and partial failure. A connection is at least
four goroutines whose contexts, wait groups and unbuffered channels must be used
in one order only; several replicas of the server share etcd and kubernetes
without locks; calls fail or lose their answers between two steps that belong
together; clients fall silent, and a shutdown meets all of this at once. The
list of hazards, each at its line, is in `PROJECT.json`.

What makes each part correct:

- **connection and channels**: nothing outlives the connection; it is released
  inside out; it is released whenever the client is gone or the server stops.
- **server**: a shutdown waits for the connections, ends, and the counter is right.
- **authentication**: a key opens the account it was made for and no other; a
  user who is registered can log in.
- **user resources**: a session starts only on complete resources, however many
  logins race; what is begun is finished.
- **exec stream, port forward**: the end of either side ends the other; output
  is not lost; nothing is left behind.
- **stores**: both implementations are the same transactional map; a listing is
  made of what was there.
- **cli**: what was created is what is deleted, also after an error, a signal, a
  kill or a restart of the host; what is installed finds what it needs; users are
  saved before the machine that holds them is deleted.
- **grader**: points go to whom they are due, and every request is answered.

## 2. Modules

    TaskScope <---- refined twice by ---- SSHConnection <-- SSHConnectionProofs
                                          Registration  <-- RegistrationProofs
                                          UserResources <-- UserResourcesProofs
                                          SSHServer     <-- SSHServerProofs
                                          ExecStream    <-- PodStreamProofs
                                          PortForward   <---|
    KVStore <---- refined by ------------ Stores        <-- StoresProofs
      StoreState <-- StdStore, EtcdStore <---|
      ... and by the indices of --------- Registration
    Infrastructure <--------------------- Cli           <-- CliProofs
                                          Grader        <-- GraderProofs

The components compose by their interfaces. SSHServer starts connections
(`Spawn`) and sees only whether their client is silent and whether they have
returned; SSHConnection is one of
them, and sees the resources of the user as a call that returns, succeeds or
fails (`ResourcesReturn`) and the delivery of the key as one that returns
(`WriteFileReturns`); UserResources and Registration are what happens inside
these calls for all users and replicas at once. ExecStream is one job of
SSHConnection, PortForward another one: CallReturns and ForwardEnds are what
`Fairness` of SSHConnection assumes of jobs. The assumption holds for a client
that is not silent only, since CallReturns needs one that reads its output; that
the api server takes what is copied to a pod, and answers the dial of a forward,
is assumed on top of it (the premises of ForwardEnds).
Registration uses Get and Put of a store: `OnlyPuts` shows that its two indices
are one KVStore, `Implements` that both stores are. Cli composes the machines (Infrastructure) with bootstrapper, installer and
the two servers that the installation starts; a running ssh server appears in it
only as the one that registers users.

### TaskScope
What a Go `sync.WaitGroup` is used for in this code, as an abstract
specification: tasks join a scope while it is open, leave it, and the scope ends
only when it is empty; no task joins afterwards.

### SSHConnection
One connection. Each goroutine is a program counter (`main`, `ka`, `gr`,
`hc[c]`, `sv[c]`, `job[c][j]`), each context a member of `cancelled` (or
`serveCancelled`), each wait group the set of its members. A send on an
unbuffered channel and its receive are one action. `link` is the transport as
the ssh library shows it: up, silent (alive, but nothing is answered) or down.
The client is an environment that opens channels of every kind, requests jobs
(shells, subsystems; a direct-tcpip channel starts its own), closes channels and
falls silent; the server may be shut down at any time. Requests that start no
goroutine do not change this state and are left out; the terminal size queue
they feed belongs to the exec stream.

### Registration
Logins are processes that run PasswordCallback call by call against the shared
store and then write the key file; public key logins read the store in one step.
A Put may fail with or without effect. A login may vanish at any point. Keys are
model values; `owner`, `interrupted` and `sessions` are history variables that
no action reads, except that a fresh key is one without an owner.

### UserResources
Logins are processes that run CreateAndWaitForRessources call by call against
the api server, which refuses to create what exists. Calls fail, answers get
lost, logins are cancelled; pods start once all they need exists and stop at any
time. `disturbed` records the users for whom a creating login was cut short.
A served login then asks for a shell or a subsystem; ExecuteCommandInPod looks
up the service by name, so names are modelled by how they are put together.

### SSHServer
The accept loop (`Accept`, `Add`, `Count`, `Spawn` are separate: the race with
the shutdown lies between them), the connection goroutines with their two
deferred steps, the signal and the main goroutine. `sync.WaitGroup` is modelled
with the window in which Wait has been woken but has not returned; an Add in it
panics. A client may fall silent in a session and resume (`FallsSilent`,
`Resumes`): while it is silent its connection can return, but need not.

### ExecStream
One command in a pod: the error group of CreateExecInPodgRPC with its three
members and the two goroutines below them, the stream, and the agent's handler,
receive loop and copies. Chunks of data are counters (`typed`, `taken`, `upIn` on
the way in; `produced`, `copied`, `delivered` on the way out), because everything
passes them on in order. `firstErr` is the error the group keeps. A pty and pipes
differ in what `Wait` waits for and in whether the end of stdin reaches the
command; both are modelled (`PtyModes`). The stream goes down for both sides at
once; a message sent before may or may not still be received. Between the receipt
of output and the next look at the context lies the write to the ssh channel
(`ReceiverWrites`), which waits for the client's window and for nothing else.

### PortForward
One direct-tcpip channel: the handler, the goroutine that reads the error stream
and the two copies, each with the state `send` when it is blocked in a send that
nobody may ever receive, and `write` while a piece it has read is not taken yet.
`closeSent` is the server's close of the channel, a message to the client;
`channel` is what the client has done, and only that ends a read from it. A write
to the pod that is under way also holds back the closing frames of the handler.
Its definitions carry the name Forward, since its proofs share
a module with those of ExecStream, the other way into a pod.

### KVStore, StoreState, StdStore, EtcdStore, Stores
KVStore is the interface Store as an abstract specification: a content and, for
each client, the writes of its transaction. StdStore and EtcdStore are the two
implementations over a common state (StoreState); `writes` is a history variable,
which no action of them reads. StdStore has both mutexes, the copy of each
transaction, and Transfer, which keeps `mut` when it fails. EtcdStore has the lock
key with its lease, the two buffers, plain writes and lost answers. Stores picks
one of the two (`kind`) and adds a listing of the store wrapper, key by key.

### Infrastructure, Cli
Infrastructure is what libvirt has (`network`, `domains`, `pool`, `files`) and
what the tool does to it, call by call: the concurrent goroutines of each
errgroup (`inst`), the two terminations (`del`), errors anywhere. Networks and
domains are transient, since they are created without being defined; the pool is
defined, but not started with the host; files stay. `HostRestarts` says what this
means. Cli adds the phases of `run`: the calls of the
bootstrapper, the concurrent joins, the calls of the installer in the order of the
code (`InstallSteps`), the servers that start as soon as their deployment exists,
users who register with two entries one after the other (`byUuid`, `byKey`), the
signal, with `known` the users it finds, the saving, a panic into the deferred cleanup,
kills and reruns. Errors of the tool all lead to `Panic`, as `DPanic` does in the
development configuration the tool uses.

### Grader
Requests from the tool of the user, whose dial waits for the grader without a limit
(`Dial`), to the reply. The kernel is modelled as far as
concurrent requests meet in it: a child forked while another request's file is
open for writing holds that file until its exec (`inherits`), and a file that is
held so cannot be executed. Output waits for the children of a program, the time
limit kills the program only (`held`, `killed`).

## 3. What TLC checks

| run | bounds | shows |
|---|---|---|
| connection_safety | 2 channels, 2 jobs each, retry limit 3 | IInv, NoGoroutineLeft, TeardownOrder; both wait groups refine TaskScope (ChannelsAreScoped, JobsAreScoped) |
| connection_liveness | 1 channel, 2 jobs, limit 1 | DeadLinkReleases, ShutdownReleases, JobEndEndsChannel |
| registration_safety | 2 users, 4 logins, 3 keys | IInv, PubKeyLoginIdentity, DeliveredKeyWorks, RegistrationCompletes |
| resources | 2 users, 3 logins | IInv (with ReadyIsComplete), AllOrNothing, CreationFinishes, LoginResolves |
| resources_subsystem | 1 user, 2 logins | *violated*: SubsystemServed |
| exec_pipes | pipes, 1 chunk in, 2 out | IInv, OutputBeforeExit, ResultIsTrue, CallReturns, StdinReaderEnds, AgentReleases |
| exec_pty | pty, 1 chunk out, 1 resize | CallReturns |
| server | 4 connections | IInv, AtMostOneCutOff, ShutdownTerminates |
| stores | 2 clients, 2 keys, 1 value, both stores | StdInv, EtcdInv, ListingFaithful; both refine KVStore (Implements) |
| forward | 2 pieces of data each way | ForwardInv, ForwardEnds, CopiesStop |
| cluster | 3 nodes, 1 user, 3 runs of the tool | CliInv, NoOrphans, FreshStart, UsersSaved, SignalEnds |
| grader | 2 requests, 2 inputs, every kind of program | GraderInv, RequestsEnd |

Why the bounds are enough to be interesting: two channels with two jobs let a
channel be opened, rejected or cancelled while another drains, and a job end
while its sibling runs; a limit of 3 is the production value. Three logins of two
users let two race on one user while another user shares the namespace, and four
let three race for one user's keys. Four connections can be in the backlog, in
the hand of the accept loop, in the handshake and in a session at once.
Two chunks of output let one be in the stream and one in the command
when either side ends; a chunk of input is enough for stdin to be idle, on its
way, or stuck behind a command that has exited. The window changes are checked with
the pty they belong to; one chunk of output is enough there for the receiver to be in
its write when the call is cancelled, and IInv and ResultIsTrue are proved for both
modes. Two clients and two keys of a
store let a lease expire under one transaction while the other begins, and a
listing lose one key and keep another; one value and Unset tell written from
unwritten. Three nodes let one goroutine fail, one finish and one be in between;
three runs let a tool be killed while it cleans up after another killed one. Two
inputs let a program fail on the second after it passed the first.
The safety properties of all components are also proved without bounds.
Symmetry is used in connection_safety, registration_safety and stores only, which
check no liveness.

Deadlock is checked for SSHConnection: an idle connection always has an enabled
step until it is closed, and then it stutters explicitly. It is switched off
where the system stops: when all logins or requests of the bound are over, when a
session or a forward is over, when a store is locked for good by a failed
Transfer, and when the process or the last run of the tool has ended.

Every property has a mutant in `PROJECT.json`: a definition of the same module,
placed before the one it mutates and marked `Mutant`, that changes it the way a
slip in the code would. TLC finds the property violated with it.

### Fairness
- A goroutine that can run eventually runs, and the ticker ticks: weak fairness
  of each goroutine's steps.
- Go's `select` chooses at random among the ready cases, so `keepAlive` cannot
  miss `ctx.Done` for ever in favour of its ticker: strong fairness of
  `KeepAliveStopped`. A forward that leaves its select takes turns with the copy to
  the pod at writing frames, and a mutex is handed on: strong fairness of `Select`
  between two writes. Nothing stronger than weak fairness is used elsewhere.
- Calls into kubernetes and the agent made by a connection return once their
  context is cancelled; before that nothing is assumed. A job also needs a client
  that is not silent, since a write to its channel blocks when the window is full.
- A client that is up answers keep-alives and channel closes. A silent client
  need not ever answer, a handshake need not ever finish (the code has no
  deadline for either), and the properties say so in their premises: ShutdownReleases
  for one connection, ShutdownTerminates for the process.
- A write to the ssh channel or to the pod is finished only when the other side
  takes it: no fairness for `ReceiverWrites`, `CopyDownWrites` and `CopyUpWrites`.
  CallReturns and ForwardEnds speak of behaviours in which no such write waits for
  ever, and need no more of the client or the pod.
- A command whose stdin is closed exits, as shells and the sftp server do. A
  command need not exit otherwise, and a client need not type or close anything.
- The api server answers; waits for a pod have a timeout.
- Opening a stream of a port forward has a time limit. Its dial takes no context
  and has none (no fairness); its client need not read, send or close anything.
- Every call of the tool returns: to libvirt, with a time limit, or with the
  context once the signal is there (weak fairness of `ToolStep`), except for those
  that take no context and have no limit (`Unlimited`): creating the join token, and
  every read or write of etcd, which includes saving the state. They may wait for
  ever, and SignalEnds has the premise that they do not. The machines need never come
  up, users never register (no fairness for `MachineStep`).
- The grader goes on with a request, and the timer of a program fires; a program,
  or a child it left, need not exit. Nothing is assumed of the tool of the user, whose
  dial blocks without a deadline.

## 4. What is proved

All theorems hold for arbitrary constants under the named assumptions
`RetriesAssumption`, `JobsAssumption`, `NoKeyAssumption`, `NoUserAssumption`,
`NoConnAssumption`, `FiniteAssumption`, `PtyAssumption`, `CapacityAssumption`,
`BoundsAssumption`, `MarkersAssumption`, `ListedAssumption`, `MaxDataAssumption`,
`InputsAssumption`, `BaseAssumption`, `MasterAssumption` and `MaxRunsAssumption` (limits are natural
numbers, the null values are not members, sets that are counted are finite, the
control plane is one of the nodes).

- **SSHConnection**: `IInv` ties each program counter to those of the goroutines
  it joins and to the wait groups: a channel counted in `wg` is exactly one whose
  handler has not finished, a job in `jobwg` exactly one that runs, and `main`
  passes each stage of the teardown only when the stage inside it is empty.
  NoGoroutineLeft alone is not inductive, since it says nothing until the end.
  From it: TypeCorrect, NoLeak, OrderlyTeardown. The two
  refinements of TaskScope (`ChannelScopeRefined`, `ServeScopeRefined`) are
  proved step by step: each action maps to a scope step or a stutter.
- **Registration**: `IInv` says that a key is known to the indices, logins and
  containers only of its owner and that a login past its first Put has a
  registered user. From it: Identity, Delivery, Completion, and two facts about
  steps: `KeysKept` (no step takes a key away from its user; the Puts do not compare
  with what is there, so this rests on who handles which key) and `OnlyPuts` (a
  refinement of KVStore in which every step is a plain write of one entry).
- **UserResources**: `IInv` says exactly what a creating login has created so
  far. It is needed because OneCreator rests on the service being the first
  object created and never removed. From it: Completeness, Exclusion.
- **SSHServer**: `IInv` says which connections the wait group counts and that,
  once Wait can return, at most one is alive. The counter needs cardinalities of
  the set of counted connections to change by one. From it: CutOff, Counter.

- **ExecStream**: `IInv` says that chunks only move forward, that the exit code
  enters the stream behind all output, and where the error of the group comes
  from. It is needed because a copy that gives up looks, to the handler, like one
  that is done: the two are told apart by the stream being down for good. From
  it: NoOutputLost, TrueResult.

- **Stores**: the copy of a transaction of the in-memory store is the content
  under its writes, because nobody else can write while `txmut` is held; the two
  buffers of an etcd transaction are what it was asked to write, whoever holds the
  lock. These make every commit the abstract one. From them: StdCorrect,
  EtcdCorrect, and `Refinement`, step by step. For the listing, what has been set
  all along is either got or pending: Listing.
- **PortForward**: ForwardInv is inductive once it is known that the goroutine of
  the error stream reports only what came in it while the connection is open. From
  it: Forwarding. The converse, that an error that came is returned, is false: a
  message that is read late loses the select.
- **Cli**: `IInv` follows a deletion and a creation through their stages: what
  each stage has made or removed, which goroutines may run, and that files outside
  of an active pool are left only by a restart of the host (`Leftovers`). This
  last one is what carries FreshStart over a kill at any point. For the servers it
  counts the steps of the installation: a deployment exists only after step 10 or
  18, the accounts are bound by steps 9 and 17. For the users it follows those
  registered at the signal through the listing into the file. From it: Orderly, CleanedUp,
  StartsFresh, SavedFirst.
- **Grader**: GraderInv speaks of replies; it is inductive together with `Stages`
  (how many inputs have passed, and whether there is a reply and a cause, follows
  from where a request is) and `Inheritance` (a child holds only files of other
  requests that were opened). Without the second a program could fail for a file
  that nobody ever had open. From it: Grading.

### The safety half of the liveness properties
Liveness itself is only model-checked, since the prover handles neither fairness
nor ENABLED. A liveness property has two halves that are safety, though, and these
are proved for every instance. *Never stuck*: whenever the premise holds and the
conclusion does not yet, the condition of some step that fairness is assumed of is
true. The conditions are written out (`CanMove` and the like), since ENABLED cannot
be used. Where a step waits for someone of whom nothing is assumed, the theorem says
so: ShutdownNeverStuck leaves out clients in the handshake and silent ones,
CallNeverStuck and ForwardNeverStuck a write that is under way (and the dial of a
forward), SignalNeverStuck the unlimited calls, RequestsNeverStuck the tool of the
user. CopiesNeverStuck says who each goroutine that a forward left behind waits for:
the client, never the pod or the api server. *Runs down*: every step takes a program counter forward and none back, or
reduces a measure, so that there are only finitely many. What is left to believe is
that a fair system which is never stuck and cannot run for ever reaches its end, and
that the written conditions enable the steps they stand for.

| property | never stuck | runs down |
|---|---|---|
| DeadLinkReleases, ShutdownReleases | TeardownNeverStuck | DeadLinkRunsDown (a link that is up may be used for ever) |
| ShutdownTerminates | ShutdownNeverStuck | ProcessRunsDown |
| JobEndEndsChannel | ClosedChannelNeverStuck | |
| CallReturns | CallNeverStuck | SessionRunsDown |
| AgentReleases | AgentNeverStuck | SessionRunsDown |
| StdinReaderEnds | | SessionRunsDown |
| ForwardEnds | ForwardNeverStuck | |
| CopiesStop | CopiesNeverStuck | ForwardRunsDown |
| CreationFinishes, LoginResolves | CreationNeverStuck | CreatorNeverRefused |
| RequestsEnd | RequestsNeverStuck | RequestsRunDown |
| SignalEnds | SignalNeverStuck | RunRunsDown |

SessionRunsDown gives a measure of a whole session: a chunk or a window size counts
where it enters a queue and again where it leaves it, and the sum grows with every
step up to a bound that is linear in `MaxInput`, `MaxOutput` and `MaxResizes`. With
unbounded data it says that nothing but data keeps a session busy.

They need a little more than the safety invariants: that handleChannels and Serve
cancel before they wait (`DrainCancelled`, `ServeStaged`), that no channel is served twice (`FreshJobs`),
that `Wait` blocks only on a group that is not empty (`NoLostWakeup`), that whoever
ends a stream leaves nobody on it unnoticed (`NobodyMissed`), and that the goroutines
of a forward exist by the time it selects (`ForwardStaged`). These are the places
where a wake-up could be lost, and the reason why a deadlock would not show in the
safety properties. Where a place of the table is empty there is nothing to prove
beyond the type of a program counter (StdinReaderEnds: the reader sends, reads what
is there, or sees the end), or the environment may go on for ever (a live client may
open channels, a pod may send).

Only model-checked: the liveness properties as such, and SubsystemServed, which is
violated.

## 5. Findings

One disagreement between the code and its documentation has a run of its own:

- **The sftp subsystem is never found** (`resources_subsystem`). handleSubsystem
  passes the name of the pod where that of the user is expected.

Others are visible in the models as steps or as premises of the properties:

- A silent client is kept for ever. The comment of keepAlive promises to release
  everything after four unanswered requests (`connection.go:173`), but `SendRequest`
  (`:188`) waits for the first answer without a timeout. A shutdown waits for the same
  goroutine, and with it the process: ShutdownReleases and ShutdownTerminates have to
  assume that the client answers, DeadLinkReleases that the transport breaks. No
  property here says that a silent client is released.
- A half-close ends a port forward. The comment at `portForward.go:114` says that only
  an error of the copy from the client ends the forward, but its mere end does (`:111`,
  `:126`); data of the pod on its way is then lost. ForwardEnds does not count the end
  of the client's data among what ends a forward.
- Saving the state has no timeout. `CleanUpTimeout` is said to cancel it
  (`global.go:20`), but SaveState drops the context (`terminate.go:52`) and etcd is read
  under `context.TODO`: with etcd out of reach the tool hangs after the signal, and the
  machines stay. SignalEnds has to assume that such calls return (`Unlimited`).
- The second password login of a user carries no private key (`server.go:108`,
  against the comment at `:87` and the log at `:105`), and the key file in the
  container is overwritten with nothing.
- `handleConnWG.Add` (`server.go:146`) races with `Wait`: a connection accepted just
  before the shutdown is cut off, or the process panics. AtMostOneCutOff, proved,
  bounds the damage.
- termSizeHandler returns after one Send (`vmapi.go:167`): only the first window
  change is forwarded, later ones fill the queue and are dropped.
- A failed creation of user resources is never repaired by later logins (AllOrNothing
  and its `disturbed`), and a registration interrupted between the two Puts locks the
  user out of public key logins (RegistrationCompletes and its `interrupted`).
- A session never ends without an error, since the exit code zero is returned as a
  non-nil one (ResultIsTrue). Without a pty the end of a command is noticed only with
  the next input or the end of the stream (CallReturns); with a pty, output in flight
  when the command exits may be lost (OutputBeforeExit) and a shell outlives its
  client (AgentReleases).
- Up to two goroutines of each forward stay blocked in a send for ever, and its copy
  from the ssh channel stays in its read until the client closes the channel too
  (CopiesStop): `Close` only sends a message.
- A write to the ssh channel is not bound to any context: a client that does not read
  keeps a cancelled session from ending (the premise of CallReturns).
- A failed `StdStore.Transfer` leaves the store locked; `EtcdStore.Iterator` panics
  when etcd cannot be reached; a transaction on etcd whose lease has expired commits
  all the same (EtcdInv, Implements).
- Files of a pool survive a restart of the host and the deletion of the then inactive
  pool, and make the next run fail when it creates its volumes (the premise `stale` of
  NoOrphans and FreshStart). The cleanup of that run removes them with the pool it has
  activated, so that the one after it succeeds.
- `getEtcdCredentials` returns nil without an error, and the installer panics on it;
  the cleanup still runs (CliInv, SignalEnds). When libvirt cannot be connected to,
  the deferred termination dereferences a nil connection.
- The saved users are never loaded again. Lost are users who register between the
  listing and the deletion or under a tool that is killed, and those with an entry for
  their uuid only, since the listing is of public keys (UsersSaved). The file calls
  them `UUIDToUser`, but has them under their keys (`k8sapi.go:94`).
- An exercise without inputs gives everybody full points; a solution that cannot be
  read is sent as an empty one; a good program may be refused because a concurrent
  request forks at the wrong time (GraderInv); a program that leaves a child behind
  holds its request for as long as the child lives (RequestsEnd); a grader out of
  reach keeps the tool of a user waiting for ever (`gradeapi.go:68`).
- The grading tool of a user reads a config map with etcd credentials in the
  namespace of the users, which the installer does not create.

## 6. Not modelled

Left out for good: generated protocol code, kubernetes templates, the libvirt
definitions, images and configuration constants (data without behaviour), logging,
the byte contents of terminals and files, the generated kubeadm configuration and
join commands. Single calls that nobody else waits for or reads (ingress, secrets,
storage classes, challenges in the store, reads of files through the agent) appear
only as a step that may fail. Data races inside libraries (two goroutines that call
Send on one gRPC stream, appends to shared slices that are never read) are named
among the hazards and not given a meaning. The directory, etcd, kubernetes, libvirt,
gRPC, the kernel and the ssh library are modelled only as far as the code depends on
them.

What remains worth doing: the agent's file service with concurrent writers.
