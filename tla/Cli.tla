---------------------------------- MODULE Cli ----------------------------------
(***************************************************************************)
(* The command line tool (cli): it creates the machines, turns them into a *)
(* kubernetes cluster (cli/bootstrapper/kubernetes), installs the ssh      *)
(* server and the grader (cli/installer), serves until a signal comes,     *)
(* saves the users (cli/terminate) and deletes the machines.  An error of  *)
(* any step panics into the deferred deletion.  The tool may be killed and *)
(* the host restarted at any time, and the tool be run again.              *)
(***************************************************************************)
EXTENDS Infrastructure, Naturals, Sequences

CONSTANTS
  Master,  \* the control plane node
  Users,
  MaxRuns  \* bound: how often the tool is run

ASSUME MasterAssumption == Master \in Nodes
ASSUME MaxRunsAssumption == MaxRuns \in Nat \ {0}

VARIABLES
  runs,      \* how often the tool has been run
  creds,     \* the etcd credentials: none, nil (with no error), ok
  joined,    \* the nodes of the kubernetes cluster
  installed, \* how many steps of the installation are done
  subjects,  \* the accounts of the cluster role binding
  server,    \* the ssh server and the grader in their pods: none, up, crashed
  byUuid,    \* the users in etcd: those with an entry for their uuid,
  byKey,     \* and those with one for their public key
  known,     \* history: byKey when the tool saw the signal
  listed,    \* what GetStoreUserData has returned
  save,      \* saving the state: none, saved, failed
  saved      \* the users in kubernetes-state.json

clusterVars == <<runs, creds, joined, installed, subjects, server, byUuid, byKey, known,
                 listed, save, saved>>
userVars == <<byUuid, byKey, known>>
vars == <<infraVars, clusterVars>>

(* The calls of the installer, with the application they are made for.      *)
ConfigMapSteps(app) == << <<app, "configMap">>, <<app, "configData">> >>

ChallengeSteps ==
  << <<"user", "storageClass">>, <<"user", "namespace">>, <<"user", "challenges">> >>

SSHSteps ==
  << <<"ssh", "namespace">> >> \o ConfigMapSteps("ssh") \o
  << <<"ssh", "privKey">>, <<"ssh", "account">>, <<"ssh", "binding">>,
     <<"ssh", "deployment">>, <<"ssh", "service">>, <<"ssh", "ingress">> >>

GraderSteps ==
  << <<"grader", "namespace">> >> \o ConfigMapSteps("grader") \o
  << <<"grader", "account">>, <<"grader", "binding">>,
     <<"grader", "deployment">>, <<"grader", "service">> >>

InstallSteps == ChallengeSteps \o SSHSteps \o GraderSteps

Has(app, call) == \E i \in 1..installed : InstallSteps[i] = <<app, call>>
NextInstall == InstallSteps[installed + 1]
Installed == installed = Len(InstallSteps)

Apps == {"ssh", "grader"}

(* What a server reads before it serves: both connect to etcd with the data *)
(* of their config map, the ssh server also takes its host key from there.  *)
Needed(app) ==
  {"namespace", "configData", "account"} \cup (IF app = "ssh" THEN {"privKey"} ELSE {})

Phases == {"connect", "sanity", "writeInit", "kubeadm", "kubeconfig", "client",
           "rootCert", "token", "join", "credentials", "etcd", "cilium",
           "install", "serving", "connectSave", "save", "write", "cleanup"}
          \cup Creating \cup Gone

TypeOK ==
  /\ InfraTypeOK
  /\ phase \in Phases
  /\ runs \in 1..MaxRuns
  /\ creds \in {"none", "nil", "ok"}
  /\ joined \subseteq Nodes
  /\ installed \in 0..Len(InstallSteps)
  /\ subjects \subseteq Apps
  /\ server \in [Apps -> {"none", "up", "crashed"}]
  /\ byUuid \subseteq Users /\ byKey \subseteq Users /\ known \subseteq Users
  /\ listed \subseteq Users
  /\ save \in {"none", "saved", "failed"}
  /\ saved \subseteq Users

Init ==
  /\ InfraInit
  /\ runs = 1
  /\ creds = "none"
  /\ joined = {}
  /\ installed = 0
  /\ subjects = {}
  /\ server = [a \in Apps |-> "none"]
  /\ byUuid = {} /\ byKey = {} /\ known = {}
  /\ listed = {}
  /\ save = "none"
  /\ saved = {}

SameMachines == UNCHANGED <<libvirt, signalled, stale>>

-----------------------------------------------------------------------------
(* BootstrapKubernetes, call by call.                                       *)
Call(from, to) ==
  /\ phase = from
  /\ Goto(to)
  /\ SameMachines
  /\ UNCHANGED <<inst, clusterVars>>

ExecuteWriteInitConfiguration == Call("writeInit", "kubeadm")

(* kubeadm init on the control plane.                                       *)
ExecuteKubeadm ==
  /\ phase = "kubeadm"
  /\ joined' = {Master}
  /\ Goto("kubeconfig")
  /\ SameMachines
  /\ UNCHANGED <<inst, runs, creds, installed, subjects, server, userVars, listed, save, saved>>

WriteKubeconfigToDisk == Call("kubeconfig", "client")
EstablishClientGoConnection == Call("client", "rootCert")
GetKubernetesRootCert == Call("rootCert", "token")

(* The join token, and then one goroutine for each worker.                  *)
GetJoinToken ==
  /\ phase = "token"
  /\ inst' = [Idle EXCEPT ![Master] = "done"]
  /\ Goto("join")
  /\ SameMachines
  /\ UNCHANGED clusterVars

JoinCluster(n) ==
  /\ phase = "join" /\ inst[n] = "idle"
  /\ inst' = [inst EXCEPT ![n] = "done"]
  /\ joined' = joined \cup {n}
  /\ SameMachines
  /\ UNCHANGED <<phase, del, delFailed, runs, creds, installed, subjects, server, userVars, listed, save, saved>>

JoinReturned ==
  /\ phase = "join"
  /\ GroupReturns("credentials")
  /\ UNCHANGED clusterVars

(* A file that cannot be read gives no credentials, and no error.           *)
GetEtcdCredentials ==
  /\ phase = "credentials"
  /\ creds' \in {"ok", "nil"}
  /\ Goto("etcd")
  /\ SameMachines
  /\ UNCHANGED <<inst, runs, joined, installed, subjects, server, userVars, listed, save, saved>>

-----------------------------------------------------------------------------
(* connectToEtcd reads the credentials: without them it panics.             *)
ConnectToEtcd ==
  /\ phase = "etcd"
  /\ IF creds = "nil" THEN Panic ELSE Goto("cilium")
  /\ SameMachines
  /\ UNCHANGED <<inst, clusterVars>>

InstallCilium == Call("cilium", "install")

(* Mutant: the account replaces the subjects of the binding.                *)
CreateClusterRoleBindingReplacing(app) == subjects' = {app}

(* Both accounts share one binding; the second call finds it and appends.   *)
CreateClusterRoleBinding(app) == subjects' = subjects \cup {app}

Install ==
  /\ phase = "install"
  /\ ~Installed
  /\ installed' = installed + 1
  /\ IF NextInstall[2] = "binding"
       THEN CreateClusterRoleBinding(NextInstall[1])
       ELSE UNCHANGED subjects
  /\ SameMachines
  /\ UNCHANGED <<phase, del, delFailed, inst, runs, creds, joined, server, userVars,
                 listed, save, saved>>

InstallDone ==
  /\ phase = "install"
  /\ Installed
  /\ Goto("serving")
  /\ SameMachines
  /\ UNCHANGED <<inst, clusterVars>>

(* A call of these parts fails, on its own or because of the signal.        *)
StepFails ==
  /\ phase \in {"writeInit", "kubeadm", "kubeconfig", "client", "rootCert", "token",
                "credentials", "etcd", "cilium", "install"}
  /\ ~Installed
  /\ Panic
  /\ SameMachines
  /\ UNCHANGED <<inst, clusterVars>>

-----------------------------------------------------------------------------
(* handleTermination: etcd, the users in it, and the file they go to.       *)
SignalSeen ==
  /\ phase = "serving"
  /\ signalled
  /\ Goto("connectSave")
  /\ known' = byKey
  /\ SameMachines
  /\ UNCHANGED <<inst, runs, creds, joined, installed, subjects, server, byUuid, byKey,
                 listed, save, saved>>

NewTerminate == Call("connectSave", "save")

(* Mutant: the error of the listing is dropped, and nobody is saved.        *)
GetStoreUserDataDropped ==
  /\ phase = "save"
  /\ listed' = {}
  /\ Goto("write")
  /\ SameMachines
  /\ UNCHANGED <<inst, runs, creds, joined, installed, subjects, server, userVars, save, saved>>

(* GetAllPublicKeys lists the entries for public keys only, under which the *)
(* users go into UUIDToUser.  Nothing deletes one, so that the keys of the  *)
(* listing, read one by one, are all found.                                 *)
GetStoreUserData ==
  /\ phase = "save"
  /\ listed' = byKey
  /\ Goto("write")
  /\ SameMachines
  /\ UNCHANGED <<inst, runs, creds, joined, installed, subjects, server, userVars, save, saved>>

SaveState ==
  /\ phase = "write"
  /\ saved' = listed
  /\ save' = "saved"
  /\ Panic
  /\ SameMachines
  /\ UNCHANGED <<inst, runs, creds, joined, installed, subjects, server, userVars, listed>>

SaveFails ==
  /\ phase \in {"connectSave", "save", "write"}
  /\ save' = "failed"
  /\ Panic
  /\ SameMachines
  /\ UNCHANGED <<inst, runs, creds, joined, installed, subjects, server, userVars, listed, saved>>

ClusterStep ==
  \/ ExecuteWriteInitConfiguration
  \/ WriteKubeconfigToDisk
  \/ EstablishClientGoConnection
  \/ GetKubernetesRootCert
  \/ GetJoinToken
  \/ JoinReturned
  \/ GetEtcdCredentials
  \/ ConnectToEtcd
  \/ InstallCilium
  \/ Install
  \/ InstallDone
  \/ StepFails
  \/ SignalSeen
  \/ NewTerminate
  \/ GetStoreUserData
  \/ SaveState
  \/ SaveFails

(* The tool.                                                                *)
ToolStep ==
  \/ (DeletionStep \/ CreationStep \/ CleanupDone) /\ UNCHANGED clusterVars
  \/ ClusterStep

(* What the machines do: they come up, and kubeadm ends on them.            *)
MachineStep ==
  \/ \E n \in Nodes : NodeReady(n) /\ UNCHANGED clusterVars
  \/ ExecuteKubeadm
  \/ \E n \in Nodes : JoinCluster(n)

-----------------------------------------------------------------------------
ClusterUp == domains = Nodes /\ joined # {}

(* It has its account, what it reads, and the right to read it.             *)
CanStart(app) == app \in subjects /\ \A o \in Needed(app) : Has(app, o)

(* kubernetes starts a server as soon as there is a deployment of it.       *)
ServerStarts(app) ==
  /\ server[app] = "none"
  /\ ClusterUp
  /\ Has(app, "deployment")
  /\ server' = [server EXCEPT ![app] = IF CanStart(app) THEN "up" ELSE "crashed"]
  /\ UNCHANGED <<infraVars, runs, creds, joined, installed, subjects, userVars, listed, save, saved>>

(* A user registers, until the machine with etcd is gone: first the entry   *)
(* for the uuid is put, then, unless the login fails in between, the one    *)
(* for the public key.                                                      *)
CanRegister == server["ssh"] = "up" /\ ClusterUp /\ Has("ssh", "service")

PutDataIdxByUuid(u) ==
  /\ CanRegister
  /\ u \notin byUuid
  /\ byUuid' = byUuid \cup {u}
  /\ UNCHANGED <<infraVars, runs, creds, joined, installed, subjects, server, byKey, known,
                 listed, save, saved>>

PutDataIdxByPubKey(u) ==
  /\ CanRegister
  /\ u \in byUuid \ byKey
  /\ byKey' = byKey \cup {u}
  /\ UNCHANGED <<infraVars, runs, creds, joined, installed, subjects, server, byUuid, known,
                 listed, save, saved>>

Signal ==
  /\ phase \notin Gone
  /\ ~signalled
  /\ signalled' = TRUE
  /\ UNCHANGED <<phase, del, delFailed, inst, libvirt, stale, clusterVars>>

(* The tool is run again.  A cluster whose tool was killed is still there   *)
(* until the new tool deletes it.                                           *)
RunAgain ==
  /\ phase \in Gone
  /\ runs < MaxRuns
  /\ runs' = runs + 1
  /\ phase' = "connect"
  /\ signalled' = FALSE
  /\ delFailed' = FALSE
  /\ creds' = "none"
  /\ joined' = {}
  /\ installed' = 0
  /\ subjects' = {}
  /\ server' = [a \in Apps |-> "none"]
  /\ byUuid' = {} /\ byKey' = {} /\ known' = {}
  /\ listed' = {}
  /\ save' = "none"
  /\ UNCHANGED <<del, inst, libvirt, stale, saved>>

Next ==
  \/ ToolStep
  \/ MachineStep
  \/ \E a \in Apps : ServerStarts(a)
  \/ \E u \in Users : PutDataIdxByUuid(u) \/ PutDataIdxByPubKey(u)
  \/ Signal
  \/ Killed /\ UNCHANGED clusterVars
  \/ HostRestarts /\ UNCHANGED clusterVars
  \/ RunAgain

Spec == Init /\ [][Next]_vars

(* The calls that take no context and have no time limit: the token is      *)
(* created and etcd is read and written under context.TODO, and SaveState   *)
(* drops the context with the CleanUpTimeout.                               *)
Unlimited ==
  \/ phase \in {"token", "save"}
  \/ phase = "install" /\ ~Installed /\ NextInstall[2] \in {"challenges", "privKey"}

(* Every other call of the tool returns: each has a time limit or ends with *)
(* the context, or it is a call to libvirt.  The machines may never come    *)
(* up, and an etcd or api server out of reach may never answer.             *)
FairSpec == Spec /\ WF_vars(~Unlimited /\ ToolStep)

-----------------------------------------------------------------------------
Preparing == Creating \ {"waiting", "nodes"}
Serving == {"serving", "connectSave", "save", "write"}

(* Creating and deleting never overlap: while TerminateInfrastructure runs, *)
(* no goroutine of an errgroup is left, since g.Wait waits for all of them; *)
(* what the tool finds at each step is what it has created itself; and the  *)
(* servers never start before what they read at their start is there.       *)
CliInv ==
  /\ TypeOK
  /\ del # "off" => phase \in {"sanity", "cleanup"} /\ inst = Idle
  /\ phase \in Phases \ ({"connect", "sanity", "cleanup"} \cup Gone \cup Preparing) =>
       network /\ domains = Nodes /\ pool = "active" /\ files = Volumes
  /\ phase \in {"credentials", "etcd", "cilium", "install"} \cup Serving => joined = Nodes
  /\ phase \in Serving => creds = "ok" /\ Installed
  /\ Has("grader", "deployment") => subjects = Apps
  /\ \A a \in Apps : server[a] # "crashed"

(* When the tool has ended and none of its deletions failed, libvirt has no *)
(* network, no domain and no pool of it (TerminateInfrastructure), and no   *)
(* file of the pool, unless the host was restarted while the pool had some. *)
NoOrphans ==
  (phase = "ended" /\ ~delFailed) =>
    /\ ~network /\ domains = {} /\ pool = "none"
    /\ files # {} => stale

(* A tool that starts after another one was killed anywhere, or whose       *)
(* deletions failed, finds none of the names it is about to create taken;   *)
(* only the files of a pool from before a restart of the host are in its    *)
(* way (deletePool only undefines an inactive pool).                        *)
FreshStart ==
  /\ phase \in Preparing \ {"instances"} => ~network /\ domains = {}
  /\ phase = "base" /\ files # {} => stale
  /\ \A n \in Nodes : (phase = "instances" /\ inst[n] = "idle") =>
       n \notin domains /\ (n \in files => stale)

(* The machine with etcd is deleted at the end of a tool that has served    *)
(* only after saving the users has failed or the file has everyone who was  *)
(* registered when the tool saw the signal.  Lost are those who register    *)
(* after the listing, and those whose registration stopped between its two  *)
(* entries.                                                                 *)
UsersSaved ==
  [][(Master \in domains \ domains' /\ phase' = "cleanup" /\ Installed) =>
       save = "failed" \/ (save = "saved" /\ known \subseteq saved)]_vars

(* After the first signal the tool ends, wherever it is, provided that none *)
(* of the calls without a time limit waits for ever.                        *)
SignalEnds == []<>~Unlimited => (signalled ~> phase \in Gone)
=============================================================================
