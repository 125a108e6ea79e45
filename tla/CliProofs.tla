------------------------------- MODULE CliProofs -------------------------------
(***************************************************************************)
(* Proofs about Cli and Infrastructure: for any nodes, users and number of *)
(* runs the tool cleans up after itself and after its killed predecessors, *)
(* what it starts finds what it needs, and users are saved before etcd is  *)
(* deleted.                                                                *)
(***************************************************************************)
EXTENDS Cli, TLAPS

(* Goroutines run only inside their errgroup, deletions only in the two     *)
(* terminations.                                                            *)
Phased ==
  /\ phase \in Phases
  /\ del # "off" => phase \in {"sanity", "cleanup"}
  /\ phase \notin {"instances", "waiting", "join"} => inst = Idle
  /\ phase = "join" => \A n \in Nodes : inst[n] # "half"

(* How far a deletion without an error has come.                            *)
Deleted ==
  /\ (phase \in {"sanity", "cleanup"} /\ ~delFailed) =>
       /\ del # "network" => ~network
       /\ del \notin {"network", "domains"} => domains = {}
       /\ del = "off" => pool = "none"
  /\ (phase = "ended" /\ ~delFailed) => ~network /\ domains = {} /\ pool = "none"
  /\ del \in {"destroyed", "undefine"} => pool = "inactive"
  /\ del = "volumes" => pool = "active"

(* Files outside of an active pool are there since a restart of the host.   *)
Leftovers == (pool # "active" /\ files # {}) => stale

(* How far the creation has come.                                           *)
Unmade == Preparing \ {"instances"}
Made == Phases \ ({"connect", "sanity", "cleanup"} \cup Gone \cup Preparing)

Created ==
  /\ phase \in Unmade => ~network /\ domains = {}
  /\ phase \in {"define", "build", "start"} => pool # "active"
  /\ phase \in {"base", "upload", "network", "instances"} => pool = "active"
  /\ (phase = "base" /\ files # {}) => stale
  /\ phase \in {"upload", "network", "instances"} => Base \in files
  /\ phase \in {"upload", "network"} => \A n \in Nodes : n \in files => stale
  /\ phase = "instances" =>
       /\ network
       /\ \A n \in Nodes :
            /\ inst[n] = "idle" => n \notin domains /\ (n \in files => stale)
            /\ inst[n] = "half" => n \notin domains
            /\ inst[n] \in {"half", "done"} => n \in files
            /\ inst[n] = "done" => n \in domains
  /\ phase \in Made => network /\ domains = Nodes /\ pool = "active" /\ files = Volumes

InfraIInv == InfraTypeOK /\ Phased /\ Deleted /\ Leftovers /\ Created

(* The cluster: who has joined, when the credentials are there, what the    *)
(* installation has created, and whether the users are saved.               *)
Early == Creating \cup {"connect", "sanity", "writeInit", "kubeadm", "kubeconfig", "client",
                        "rootCert", "token", "join", "credentials", "etcd", "cilium"}

ClusterTypeOK ==
  /\ runs \in 1..MaxRuns
  /\ creds \in {"none", "nil", "ok"}
  /\ joined \subseteq Nodes
  /\ installed \in 0..Len(InstallSteps)
  /\ subjects \subseteq Apps
  /\ server \in [Apps -> {"none", "up", "crashed"}]
  /\ byUuid \subseteq Users /\ byKey \subseteq Users /\ known \subseteq Users
  /\ listed \subseteq Users
  /\ save \in {"none", "saved", "failed"}
  /\ saved \subseteq Users

Joining ==
  /\ phase \in {"kubeconfig", "client", "rootCert", "token"} => Master \in joined
  /\ phase = "join" => \A n \in Nodes : inst[n] = "done" => n \in joined
  /\ phase \in {"credentials", "etcd", "cilium", "install"} \cup Serving => joined = Nodes

Installing ==
  /\ phase = "etcd" => creds \in {"nil", "ok"}
  /\ phase \in {"cilium", "install"} \cup Serving => creds = "ok"
  /\ phase \in Early => installed = 0
  /\ phase \in Serving => Installed
  /\ "ssh" \in subjects <=> installed >= 9
  /\ "grader" \in subjects <=> installed >= 17
  /\ \A a \in Apps : server[a] # "crashed"

(* Nobody who had registered at the signal is lost on the way to the file.  *)
Saving ==
  /\ phase \in {"connectSave", "save"} => known \subseteq byKey
  /\ phase = "write" => known \subseteq listed
  /\ (phase = "cleanup" /\ Installed) =>
       save = "failed" \/ (save = "saved" /\ known \subseteq saved)

ClusterIInv == ClusterTypeOK /\ Joining /\ Installing /\ Saving

IInv == InfraIInv /\ ClusterIInv

-----------------------------------------------------------------------------
(* The order of the installation (InstallKubernetesApplications).           *)
LEMMA InstallOrder ==
  /\ Len(InstallSteps) = 19
  /\ \A i \in 1..19 :
       /\ InstallSteps[i] = <<"ssh", "deployment">> => i = 10
       /\ InstallSteps[i] = <<"grader", "deployment">> => i = 18
       /\ InstallSteps[i][2] = "binding" <=> i \in {9, 17}
  /\ InstallSteps[9] = <<"ssh", "binding">> /\ InstallSteps[17] = <<"grader", "binding">>
  /\ InstallSteps[4] = <<"ssh", "namespace">> /\ InstallSteps[6] = <<"ssh", "configData">>
  /\ InstallSteps[7] = <<"ssh", "privKey">> /\ InstallSteps[8] = <<"ssh", "account">>
  /\ InstallSteps[13] = <<"grader", "namespace">> /\ InstallSteps[15] = <<"grader", "configData">>
  /\ InstallSteps[16] = <<"grader", "account">>
  BY DEF InstallSteps, ChallengeSteps, SSHSteps, GraderSteps, ConfigMapSteps

(* When its deployment exists a server can start (initializeSSH and         *)
(* initializeGrader create it after everything it reads).                   *)
LEMMA StartsWell ==
  ASSUME ClusterTypeOK, Installing, NEW a \in Apps, Has(a, "deployment")
  PROVE  CanStart(a)
<1>1. installed \in 0..19
  BY InstallOrder DEF ClusterTypeOK
<1>2. CASE a = "ssh"
  <2>1. installed >= 10
    BY <1>1, <1>2, InstallOrder DEF Has
  <2>2. \A i \in {4, 6, 7, 8} : i \in 1..installed
    BY <1>1, <2>1
  <2> QED
    BY <1>1, <1>2, <2>1, <2>2, InstallOrder DEF CanStart, Needed, Has, Installing
<1>3. CASE a = "grader"
  <2>1. installed >= 18
    BY <1>1, <1>3, InstallOrder DEF Has
  <2>2. \A i \in {13, 15, 16} : i \in 1..installed
    BY <1>1, <2>1
  <2> QED
    BY <1>1, <1>3, <2>1, <2>2, InstallOrder DEF CanStart, Needed, Has, Installing
<1> QED
  BY <1>2, <1>3 DEF Apps

(* The tool starts with nothing.                                            *)
LEMMA InitIInv == Init => IInv
<1> SUFFICES ASSUME Init PROVE IInv
  OBVIOUS
<1>1. InfraTypeOK
  <2>1. delFailed \in BOOLEAN /\ network \in BOOLEAN /\ signalled \in BOOLEAN /\ stale \in BOOLEAN
    BY DEF Init, InfraInit
  <2> QED
    BY <2>1 DEF Init, InfraInit, InfraTypeOK, Idle
<1>2. Phased /\ Deleted /\ Leftovers /\ Created
  BY DEF Init, InfraInit, Phased, Deleted, Leftovers, Created, Phases, Unmade, Made,
         Preparing, Creating, Gone
<1>3. ClusterTypeOK
  BY InstallOrder, MaxRunsAssumption DEF Init, ClusterTypeOK, Apps
<1>4. Joining /\ Installing /\ Saving
  BY InstallOrder DEF Init, InfraInit, Joining, Installing, Saving, Serving, Installed
<1> QED
  BY <1>1, <1>2, <1>3, <1>4 DEF IInv, InfraIInv, ClusterIInv

(* Every step of a deletion.                                                *)
LEMMA DeletionKeeps == InfraIInv /\ DeletionStep => InfraIInv'
<1> SUFFICES ASSUME InfraIInv, DeletionStep PROVE InfraIInv'
  OBVIOUS
<1>1. del # "off" /\ phase \in {"sanity", "cleanup"} /\ phase' = phase /\ inst' = inst
  BY DEF InfraIInv, Phased, DeletionStep, DeleteNetwork, DestroyDomain, DomainsDeleted, DeletePool,
     DeleteVolume, DestroyPool, DeletePoolDirectory, UndefinePool, DeletionFails
<1>2. Phased' /\ Created'
  BY <1>1 DEF InfraIInv, Phased, Created, Unmade, Made, Preparing, Creating, Phases, Gone
<1>3. InfraTypeOK' /\ Deleted' /\ Leftovers'
  <2> USE <1>1 DEF InfraIInv, InfraTypeOK, Deleted, Leftovers, libvirt
  <2>1. CASE DeleteNetwork
    BY <2>1 DEF DeleteNetwork
  <2>2. ASSUME NEW n \in Nodes, DestroyDomain(n) PROVE (InfraTypeOK /\ Deleted /\ Leftovers)'
    BY <2>2 DEF DestroyDomain
  <2>3. CASE DomainsDeleted
    BY <2>3 DEF DomainsDeleted
  <2>4. CASE DeletePool
    BY <2>4 DEF DeletePool
  <2>5. ASSUME NEW v \in Volumes, DeleteVolume(v) PROVE (InfraTypeOK /\ Deleted /\ Leftovers)'
    BY <2>5 DEF DeleteVolume
  <2>6. CASE DestroyPool
    BY <2>6 DEF DestroyPool
  <2>7. CASE DeletePoolDirectory
    BY <2>7 DEF DeletePoolDirectory
  <2>8. CASE UndefinePool
    BY <2>8 DEF UndefinePool
  <2>9. CASE DeletionFails
    BY <2>9 DEF DeletionFails
  <2> QED
    BY <2>1, <2>2, <2>3, <2>4, <2>5, <2>6, <2>7, <2>8, <2>9 DEF DeletionStep
<1> QED
  BY <1>2, <1>3 DEF InfraIInv

(* A deletion begins: no goroutine is left.                                 *)
LEMMA TerminationStarts ==
  ASSUME InfraIInv, NEW p \in {"sanity", "cleanup"}, StartTermination(p),
         inst' = Idle, UNCHANGED <<libvirt, signalled, stale>>
  PROVE  InfraIInv'
  BY DEF InfraIInv, InfraTypeOK, Phased, Deleted, Leftovers, Created, StartTermination, libvirt,
     Idle, Unmade, Made, Preparing, Creating, Phases, Gone

(* A group of goroutines has returned: an error leads to the deletion.      *)
LEMMA GroupKeeps ==
  ASSUME InfraIInv, NEW p \in Made, phase \in {"instances", "waiting", "join"},
         p \notin {"join"}, GroupReturns(p)
  PROVE  InfraIInv'
<1>1. CASE \E n \in Nodes : inst[n] = "failed"
  BY <1>1, TerminationStarts DEF GroupReturns, Panic
<1>2. CASE ~\E n \in Nodes : inst[n] = "failed"
  <2>1. \A n \in Nodes : inst[n] = "done"
    BY <1>2 DEF GroupReturns
  <2>2. network /\ domains = Nodes /\ pool = "active" /\ files = Volumes
    <3>1. CASE phase = "instances"
      BY <2>1, <3>1 DEF InfraIInv, InfraTypeOK, Created, Volumes
    <3>2. CASE phase # "instances"
      BY <3>2 DEF InfraIInv, Created, Made, Phases, Gone, Preparing, Creating
    <3> QED
      BY <3>1, <3>2
  <2>3. phase' = p /\ inst' = Idle /\ UNCHANGED <<del, delFailed, libvirt, signalled, stale>>
    BY <1>2 DEF GroupReturns, Goto
  <2>4. del = "off"
    BY DEF InfraIInv, Phased
  <2> QED
    BY <2>2, <2>3, <2>4
    DEF InfraIInv, InfraTypeOK, Phased, Deleted, Leftovers, Created, libvirt, Idle,
        Unmade, Made, Preparing, Creating, Phases, Gone
<1> QED
  BY <1>1, <1>2

(* Every step of the creation of the machines.                              *)
LEMMA CreationKeeps == InfraIInv /\ CreationStep => InfraIInv'
<1> SUFFICES ASSUME InfraIInv, CreationStep PROVE InfraIInv'
  OBVIOUS
<1> USE DEF Unmade, Made, Preparing, Creating, Phases, Gone
<1>1. CASE Connect
  <2>1. CASE StartTermination("sanity")
    BY <1>1, <2>1, TerminationStarts DEF Connect, InfraIInv, Phased
  <2>2. CASE Goto("dead")
    BY <1>1, <2>2 DEF Connect, Goto, InfraIInv, InfraTypeOK, Phased, Deleted, Leftovers, Created,
       libvirt
  <2> QED
    BY <1>1, <2>1, <2>2 DEF Connect
<1>2. CASE SanityDone
  <2>1. CASE delFailed
    BY <1>2, <2>1, TerminationStarts DEF SanityDone, Panic, InfraIInv, Phased
  <2>2. CASE ~delFailed
    BY <1>2, <2>2 DEF SanityDone, Goto, InfraIInv, InfraTypeOK, Phased, Deleted, Leftovers, Created,
       libvirt
  <2> QED
    BY <2>1, <2>2
<1>3. CASE DefinePool \/ BuildPool \/ StartPool
  BY <1>3 DEF DefinePool, BuildPool, StartPool, Goto, InfraIInv, InfraTypeOK, Phased, Deleted,
     Leftovers, Created, libvirt
<1>4. CASE CreateBaseImage
  BY <1>4, BaseAssumption DEF CreateBaseImage, Goto, InfraIInv, InfraTypeOK, Phased, Deleted,
     Leftovers, Created, Volumes
<1>5. CASE UploadBaseImage
  BY <1>5 DEF UploadBaseImage, Goto, InfraIInv, InfraTypeOK, Phased, Deleted, Leftovers, Created,
     libvirt
<1>6. CASE CreateNetwork
  BY <1>6 DEF CreateNetwork, Goto, InfraIInv, InfraTypeOK, Phased, Deleted, Leftovers, Created, Idle
<1>7. CASE CreationFails
  BY <1>7, TerminationStarts DEF CreationFails, Panic, InfraIInv, Phased
<1>8. CASE InstancesReturned
  BY <1>8, GroupKeeps DEF InstancesReturned
<1>9. CASE NodesReady
  BY <1>9, GroupKeeps DEF NodesReady
<1>10. CASE GetNodeInformation
  BY <1>10 DEF GetNodeInformation, Goto, InfraIInv, InfraTypeOK, Phased, Deleted, Leftovers,
     Created, libvirt
<1>11. ASSUME NEW n \in Nodes, CreateBootImage(n) PROVE InfraIInv'
  BY <1>11 DEF CreateBootImage, InfraIInv, InfraTypeOK, Phased, Deleted, Leftovers, Created, Volumes
<1>12. ASSUME NEW n \in Nodes, CreateDomain(n) PROVE InfraIInv'
  <2>1. phase = "instances"
    BY <1>12 DEF CreateDomain, InfraIInv, Phased, Idle
  <2> QED
    BY <1>12, <2>1 DEF CreateDomain, InfraIInv, InfraTypeOK, Phased, Deleted, Leftovers, Created
<1>13. ASSUME NEW n \in Nodes, GoroutineFails(n) PROVE InfraIInv'
  BY <1>13 DEF GoroutineFails, InfraIInv, InfraTypeOK, Phased, Deleted, Leftovers, Created, libvirt
<1> QED
  BY <1>1, <1>2, <1>3, <1>4, <1>5, <1>6, <1>7, <1>8, <1>9, <1>10, <1>11, <1>12, <1>13
  DEF CreationStep

(* A step that only goes on to the next phase after the machines are made.  *)
LEMMA PhaseKeeps ==
  ASSUME InfraIInv, phase \in Made, NEW p \in Made, p \notin {"instances", "waiting"},
         phase' = p, inst' = Idle \/ (p = "join" /\ inst' \in [Nodes -> {"idle", "done", "failed"}]),
         UNCHANGED <<del, delFailed, libvirt, stale>>, signalled' \in BOOLEAN
  PROVE  InfraIInv'
<1>1. del = "off"
  BY DEF InfraIInv, Phased, Made
<1> QED
  BY <1>1 DEF InfraIInv, InfraTypeOK, Phased, Deleted, Leftovers, Created, libvirt, Idle,
     Unmade, Made, Preparing, Creating, Phases, Gone

(* Every step keeps the invariant of the machines.                          *)
LEMMA StepInfra == InfraIInv /\ [Next]_vars => InfraIInv'
<1> SUFFICES ASSUME InfraIInv, [Next]_vars PROVE InfraIInv'
  OBVIOUS
<1>1. ASSUME UNCHANGED infraVars PROVE InfraIInv'
  BY <1>1 DEF infraVars, libvirt, InfraIInv, InfraTypeOK, Phased, Deleted, Leftovers, Created
<1>2. CASE DeletionStep \/ CreationStep
  BY <1>2, DeletionKeeps, CreationKeeps
<1>3. CASE CleanupDone
  BY <1>3 DEF CleanupDone, Goto, InfraIInv, InfraTypeOK, Phased, Deleted, Leftovers, Created,
     libvirt, Unmade, Made, Preparing, Creating, Phases, Gone
<1>4. CASE ClusterStep
  <2> USE DEF Made, Preparing, Creating, Phases, Gone, SameMachines
  <2>1. ASSUME NEW p \in {"kubeadm", "kubeconfig", "client", "rootCert", "token", "credentials", "etcd", "cilium",
                          "install", "serving", "connectSave", "save", "write"},
               phase \in Made \ {"instances", "waiting", "join"}, Goto(p), inst' = inst, SameMachines
        PROVE  InfraIInv'
    <3>1. inst = Idle /\ signalled \in BOOLEAN
      BY <2>1 DEF InfraIInv, Phased, InfraTypeOK
    <3> QED
      BY <2>1, <3>1, PhaseKeeps DEF Goto
  <2>2. ASSUME phase \in Made \ {"instances", "waiting", "join"}, Panic, inst' = inst, SameMachines
        PROVE  InfraIInv'
    BY <2>2, TerminationStarts DEF Panic, InfraIInv, Phased
  <2>3. CASE ExecuteWriteInitConfiguration \/ WriteKubeconfigToDisk \/ EstablishClientGoConnection
             \/ GetKubernetesRootCert \/ InstallCilium \/ NewTerminate
    BY <2>1, <2>3 DEF ExecuteWriteInitConfiguration, WriteKubeconfigToDisk,
       EstablishClientGoConnection, GetKubernetesRootCert, InstallCilium, NewTerminate, Call
  <2>4. CASE GetJoinToken
    BY <2>4, PhaseKeeps, MasterAssumption
    DEF GetJoinToken, Goto, Idle, InfraIInv, InfraTypeOK
  <2>5. CASE JoinReturned
    BY <2>5, GroupKeeps DEF JoinReturned
  <2>6. CASE GetEtcdCredentials \/ InstallDone \/ SignalSeen \/ GetStoreUserData
    BY <2>1, <2>6 DEF GetEtcdCredentials, InstallDone, SignalSeen, GetStoreUserData
  <2>7. CASE ConnectToEtcd
    BY <2>1, <2>2, <2>7 DEF ConnectToEtcd
  <2>8. CASE Install
    BY <1>1, <2>8 DEF Install, infraVars
  <2>9. CASE StepFails \/ SaveState \/ SaveFails
    BY <2>2, <2>9 DEF StepFails, SaveState, SaveFails
  <2> QED
    BY <1>4, <2>3, <2>4, <2>5, <2>6, <2>7, <2>8, <2>9 DEF ClusterStep
<1>5. CASE MachineStep
  <2> USE DEF Made, Preparing, Creating, Phases, Gone, SameMachines
  <2>1. ASSUME NEW n \in Nodes, NodeReady(n) PROVE InfraIInv'
    BY <2>1 DEF NodeReady, InfraIInv, InfraTypeOK, Phased, Deleted, Leftovers, Created, libvirt, Unmade
  <2>2. CASE ExecuteKubeadm
    BY <2>2, PhaseKeeps DEF ExecuteKubeadm, Goto, InfraIInv, Phased, InfraTypeOK
  <2>3. ASSUME NEW n \in Nodes, JoinCluster(n) PROVE InfraIInv'
    BY <2>3 DEF JoinCluster, InfraIInv, InfraTypeOK, Phased, Deleted, Leftovers, Created, libvirt, Unmade
  <2> QED
    BY <1>5, <2>1, <2>2, <2>3 DEF MachineStep
<1>6. CASE \/ \E a \in Apps : ServerStarts(a)
           \/ \E u \in Users : PutDataIdxByUuid(u) \/ PutDataIdxByPubKey(u)
           \/ UNCHANGED vars
  BY <1>1, <1>6 DEF ServerStarts, PutDataIdxByUuid, PutDataIdxByPubKey, vars
<1>7. CASE Signal
  <2>1. signalled' \in BOOLEAN
    BY <1>7 DEF Signal
  <2> QED
    BY <1>7, <2>1 DEF Signal, libvirt, InfraIInv, InfraTypeOK, Phased, Deleted, Leftovers, Created
<1>8. CASE Killed \/ HostRestarts
  <2>1. stale' \in BOOLEAN /\ network' \in BOOLEAN
    BY <1>8 DEF Killed, HostRestarts, libvirt, InfraIInv, InfraTypeOK
  <2> QED
    BY <1>8, <2>1 DEF Killed, HostRestarts, libvirt, InfraIInv, InfraTypeOK, Phased, Deleted,
       Leftovers, Created, Idle, Unmade, Made, Preparing, Creating, Phases, Gone
<1>9. CASE RunAgain
  <2>1. del = "off" /\ inst = Idle
    BY <1>9 DEF RunAgain, InfraIInv, Phased, Gone
  <2>2. delFailed' \in BOOLEAN /\ signalled' \in BOOLEAN
    BY <1>9 DEF RunAgain
  <2> QED
    BY <1>9, <2>1, <2>2 DEF RunAgain, libvirt, InfraIInv, InfraTypeOK, Phased, Deleted, Leftovers,
       Created, Unmade, Made, Preparing, Creating, Phases, Gone
<1> QED
  BY <1>2, <1>3, <1>4, <1>5, <1>6, <1>7, <1>8, <1>9 DEF Next, ToolStep

(* Every step keeps the invariant of the cluster.                           *)
LEMMA StepCluster == IInv /\ [Next]_vars => ClusterIInv'
<1> SUFFICES ASSUME IInv, [Next]_vars PROVE ClusterIInv'
  OBVIOUS
<1>0. installed \in 0..19 /\ Len(InstallSteps) = 19
  BY InstallOrder DEF IInv, ClusterIInv, ClusterTypeOK
<1> USE DEF Serving, Early, Creating, Phases, Gone, Installed, userVars
<1>1. ASSUME UNCHANGED clusterVars,
             \/ UNCHANGED <<phase, inst>>
             \/ phase' \in {"dead", "ended"}
             \/ phase' = "cleanup" /\ ~Installed
             \/ phase' \in Creating \cup {"sanity", "writeInit", "kubeadm"} /\ phase \in Early
      PROVE  ClusterIInv'
  BY <1>1 DEF clusterVars, IInv, ClusterIInv, ClusterTypeOK, Joining, Installing, Saving
<1>2. phase \in Early => ~Installed
  BY <1>0 DEF IInv, ClusterIInv, Installing
<1>3. CASE (DeletionStep \/ CreationStep \/ CleanupDone) /\ UNCHANGED clusterVars
  <2>1. CASE DeletionStep
    BY <1>1, <1>3, <2>1 DEF DeletionStep, DeleteNetwork, DestroyDomain, DomainsDeleted, DeletePool,
       DeleteVolume, DestroyPool, DeletePoolDirectory, UndefinePool, DeletionFails
  <2>2. CASE CleanupDone
    BY <1>1, <1>3, <2>2 DEF CleanupDone, Goto
  <2>3. ASSUME NEW n \in Nodes, CreateBootImage(n) \/ CreateDomain(n) PROVE ClusterIInv'
    <3>1. phase = "instances" /\ phase' = phase
      BY <2>3 DEF CreateBootImage, CreateDomain, IInv, InfraIInv, Phased, Idle
    <3> QED
      BY <1>1, <1>3, <3>1
  <2>4. ASSUME NEW n \in Nodes, GoroutineFails(n) PROVE ClusterIInv'
    <3>1. CASE phase = "join"
      BY <1>3, <2>4, <3>1
      DEF GoroutineFails, clusterVars, IInv, InfraIInv, InfraTypeOK, ClusterIInv, ClusterTypeOK,
          Joining, Installing, Saving
    <3>2. CASE phase # "join"
      BY <1>1, <1>3, <2>4, <3>2 DEF GoroutineFails
    <3> QED
      BY <3>1, <3>2
  <2>5. CASE Connect \/ SanityDone \/ CreationFails
    BY <1>1, <1>2, <1>3, <2>5
    DEF Connect, SanityDone, CreationFails, StartTermination, Panic, Goto
  <2>6. CASE DefinePool \/ BuildPool \/ StartPool \/ CreateBaseImage \/ UploadBaseImage
             \/ CreateNetwork \/ GetNodeInformation
    BY <1>1, <1>3, <2>6 DEF DefinePool, BuildPool, StartPool, CreateBaseImage, UploadBaseImage,
       CreateNetwork, GetNodeInformation, Goto
  <2>7. CASE InstancesReturned \/ NodesReady
    BY <1>1, <1>2, <1>3, <2>7
    DEF InstancesReturned, NodesReady, GroupReturns, StartTermination, Panic, Goto
  <2> QED
    BY <1>3, <2>1, <2>2, <2>3, <2>4, <2>5, <2>6, <2>7 DEF CreationStep
<1>4. CASE ClusterStep
  <2> USE DEF IInv, ClusterIInv, ClusterTypeOK, Joining, Installing, Saving, Goto
  <2>1. CASE ExecuteWriteInitConfiguration \/ WriteKubeconfigToDisk \/ EstablishClientGoConnection
             \/ GetKubernetesRootCert \/ InstallCilium \/ NewTerminate
    BY <2>1 DEF ExecuteWriteInitConfiguration, WriteKubeconfigToDisk, clusterVars,
       EstablishClientGoConnection, GetKubernetesRootCert, InstallCilium, NewTerminate, Call
  <2>2. CASE GetJoinToken
    BY <2>2, MasterAssumption DEF GetJoinToken, Idle, clusterVars
  <2>3. CASE JoinReturned
    <3>1. CASE \E n \in Nodes : inst[n] = "failed"
      BY <1>1, <1>2, <2>3, <3>1 DEF JoinReturned, GroupReturns, Panic, StartTermination
    <3>2. CASE ~\E n \in Nodes : inst[n] = "failed"
      <4>1. joined = Nodes
        BY <2>3, <3>2 DEF JoinReturned, GroupReturns
      <4> QED
        BY <2>3, <3>2, <4>1 DEF JoinReturned, GroupReturns, clusterVars
    <3> QED
      BY <3>1, <3>2
  <2>4. CASE GetEtcdCredentials
    BY <2>4 DEF GetEtcdCredentials
  <2>5. CASE ConnectToEtcd
    <3>1. CASE creds = "nil"
      BY <1>1, <1>2, <2>5, <3>1 DEF ConnectToEtcd, Panic, StartTermination
    <3>2. CASE creds # "nil"
      BY <2>5, <3>2 DEF ConnectToEtcd, clusterVars
    <3> QED
      BY <3>1, <3>2
  <2>6. CASE Install
    <3>1. installed + 1 \in 1..19 /\ installed' = installed + 1
      BY <1>0, <2>6 DEF Install
    <3>2. /\ "ssh" \in subjects' <=> installed' >= 9
          /\ "grader" \in subjects' <=> installed' >= 17
          /\ subjects' \subseteq Apps
      <4>1. CASE installed + 1 = 9
        <5>1. NextInstall = <<"ssh", "binding">>
          BY <4>1, InstallOrder DEF NextInstall
        <5>2. NextInstall[1] = "ssh" /\ NextInstall[2] = "binding"
          BY <5>1
        <5>3. subjects' = subjects \cup {"ssh"}
          BY <2>6, <5>2 DEF Install, CreateClusterRoleBinding
        <5> QED
          BY <1>0, <3>1, <4>1, <5>3 DEF Apps
      <4>2. CASE installed + 1 = 17
        <5>1. NextInstall = <<"grader", "binding">>
          BY <4>2, InstallOrder DEF NextInstall
        <5>2. NextInstall[1] = "grader" /\ NextInstall[2] = "binding"
          BY <5>1
        <5>3. subjects' = subjects \cup {"grader"}
          BY <2>6, <5>2 DEF Install, CreateClusterRoleBinding
        <5> QED
          BY <1>0, <3>1, <4>2, <5>3 DEF Apps
      <4>3. CASE installed + 1 \notin {9, 17}
        <5>1. subjects' = subjects
          BY <2>6, <3>1, <4>3, InstallOrder DEF Install, NextInstall
        <5> QED
          BY <1>0, <3>1, <4>3, <5>1
      <4> QED
        BY <4>1, <4>2, <4>3
    <3> QED
      BY <1>0, <2>6, <3>1, <3>2 DEF Install
  <2>7. CASE InstallDone \/ SignalSeen
    BY <2>7 DEF InstallDone, SignalSeen, clusterVars
  <2>8. CASE StepFails
    BY <1>1, <2>8 DEF StepFails, Panic, StartTermination
  <2>9. CASE GetStoreUserData
    BY <2>9 DEF GetStoreUserData
  <2>10. CASE SaveState \/ SaveFails
    BY <2>10 DEF SaveState, SaveFails, Panic, StartTermination
  <2> QED
    BY <1>4, <2>1, <2>2, <2>3, <2>4, <2>5, <2>6, <2>7, <2>8, <2>9, <2>10 DEF ClusterStep
<1>5. CASE MachineStep
  <2>1. ASSUME NEW n \in Nodes, NodeReady(n), UNCHANGED clusterVars PROVE ClusterIInv'
    BY <1>1, <2>1 DEF NodeReady
  <2>2. CASE ExecuteKubeadm
    BY <2>2, MasterAssumption DEF ExecuteKubeadm, Goto, IInv, ClusterIInv, ClusterTypeOK, Joining,
       Installing, Saving
  <2>3. ASSUME NEW n \in Nodes, JoinCluster(n) PROVE ClusterIInv'
    BY <2>3 DEF JoinCluster, IInv, InfraIInv, InfraTypeOK, ClusterIInv, ClusterTypeOK, Joining,
       Installing, Saving
  <2> QED
    BY <1>5, <2>1, <2>2, <2>3 DEF MachineStep
<1>6. ASSUME NEW a \in Apps, ServerStarts(a) PROVE ClusterIInv'
  <2>1. CanStart(a)
    BY <1>6, StartsWell DEF ServerStarts, IInv, ClusterIInv
  <2> QED
    BY <1>6, <2>1 DEF ServerStarts, infraVars, IInv, ClusterIInv, ClusterTypeOK, Joining,
       Installing, Saving
<1>7. ASSUME NEW u \in Users, PutDataIdxByUuid(u) \/ PutDataIdxByPubKey(u) PROVE ClusterIInv'
  BY <1>7 DEF PutDataIdxByUuid, PutDataIdxByPubKey, infraVars, IInv, ClusterIInv, ClusterTypeOK,
     Joining, Installing, Saving
<1>8. CASE Signal \/ UNCHANGED vars
  BY <1>1, <1>8 DEF Signal, vars, infraVars
<1>9. CASE (Killed \/ HostRestarts) /\ UNCHANGED clusterVars
  BY <1>1, <1>9 DEF Killed, HostRestarts
<1>10. CASE RunAgain
  BY <1>0, <1>10, MaxRunsAssumption
  DEF RunAgain, IInv, ClusterIInv, ClusterTypeOK, Joining, Installing, Saving, Apps
<1> QED
  BY <1>3, <1>4, <1>5, <1>6, <1>7, <1>8, <1>9, <1>10 DEF Next, ToolStep

-----------------------------------------------------------------------------
(* The invariant of machines and cluster holds always.                      *)
THEOREM Invariance == Spec => []IInv
<1>1. Init => IInv
  BY InitIInv
<1>2. IInv /\ [Next]_vars => IInv'
  BY StepInfra, StepCluster DEF IInv
<1> QED
  BY <1>1, <1>2, PTL DEF Spec

(* Creating and deleting never overlap, every phase of run (cli/run.go)     *)
(* finds what the earlier ones made, and no server starts too early.        *)
THEOREM Orderly == Spec => []CliInv
<1>1. IInv => CliInv
  <2> SUFFICES ASSUME IInv PROVE CliInv
    OBVIOUS
  <2>1. TypeOK
    BY DEF IInv, InfraIInv, Phased, ClusterIInv, ClusterTypeOK, TypeOK
  <2>2. del # "off" => phase \in {"sanity", "cleanup"} /\ inst = Idle
    BY DEF IInv, InfraIInv, Phased
  <2>3. Has("grader", "deployment") => subjects = Apps
    <3> SUFFICES ASSUME Has("grader", "deployment") PROVE subjects = Apps
      OBVIOUS
    <3>1. installed \in 0..19
      BY InstallOrder DEF IInv, ClusterIInv, ClusterTypeOK
    <3>2. installed >= 18
      BY <3>1, InstallOrder DEF Has
    <3>3. "ssh" \in subjects /\ "grader" \in subjects
      BY <3>1, <3>2 DEF IInv, ClusterIInv, Installing
    <3>4. subjects \subseteq Apps
      BY DEF IInv, ClusterIInv, ClusterTypeOK
    <3> QED
      BY <3>3, <3>4 DEF Apps
  <2> QED
    BY <2>1, <2>2, <2>3
    DEF IInv, InfraIInv, Created, Made, ClusterIInv, Joining, Installing, Serving, CliInv
<1> QED
  BY <1>1, Invariance, PTL

(* A tool that has ended without a failed deletion leaves nothing behind    *)
(* (TerminateInfrastructure), but for files from before a restart.          *)
THEOREM CleanedUp == Spec => []NoOrphans
<1>1. IInv => NoOrphans
  BY DEF IInv, InfraIInv, Deleted, Leftovers, NoOrphans
<1> QED
  BY <1>1, Invariance, PTL

(* Whatever became of earlier runs, a new one finds no name taken           *)
(* (InitializeInfrastructure), but for files from before a restart.         *)
THEOREM StartsFresh == Spec => []FreshStart
<1>1. IInv => FreshStart
  BY DEF IInv, InfraIInv, Created, Unmade, FreshStart
<1> QED
  BY <1>1, Invariance, PTL

(* The machine with etcd is deleted by a tool that has served only after    *)
(* everyone who was registered at the signal is in the file, or saving the  *)
(* users failed (handleTermination).                                        *)
THEOREM SavedFirst == Spec => UsersSaved
<1> DEFINE Safe == (Master \in domains \ domains' /\ phase' = "cleanup" /\ Installed) =>
                     save = "failed" \/ (save = "saved" /\ known \subseteq saved)
<1>1. IInv /\ [Next]_vars => [Safe]_vars
  <2> SUFFICES ASSUME IInv, Next, Master \in domains \ domains', phase' = "cleanup", Installed
               PROVE  save = "failed" \/ (save = "saved" /\ known \subseteq saved)
    OBVIOUS
  <2>1. phase = "cleanup"
    <3>1. CASE DeletionStep
      BY <3>1 DEF DeletionStep, DeleteNetwork, DestroyDomain, DomainsDeleted, DeletePool,
         DeleteVolume, DestroyPool, DeletePoolDirectory, UndefinePool, DeletionFails
    <3>2. CASE CreationStep \/ CleanupDone
      BY <3>2 DEF CreationStep, Connect, SanityDone, DefinePool, BuildPool, StartPool,
         CreateBaseImage, UploadBaseImage, CreateNetwork, CreationFails, InstancesReturned,
         NodesReady, GetNodeInformation, CreateBootImage, CreateDomain, GoroutineFails,
         GroupReturns, CleanupDone, libvirt
    <3>3. CASE ClusterStep
      BY <3>3 DEF ClusterStep, Call, ExecuteWriteInitConfiguration, WriteKubeconfigToDisk,
         EstablishClientGoConnection, GetKubernetesRootCert, InstallCilium, NewTerminate,
         GetJoinToken, JoinReturned, GroupReturns, GetEtcdCredentials, ConnectToEtcd, Install,
         InstallDone, StepFails, SignalSeen, GetStoreUserData, SaveState, SaveFails,
         SameMachines, libvirt
    <3>4. CASE MachineStep
      BY <3>4 DEF MachineStep, NodeReady, ExecuteKubeadm, JoinCluster, SameMachines, libvirt
    <3>5. CASE \/ \E a \in Apps : ServerStarts(a)
               \/ \E u \in Users : PutDataIdxByUuid(u) \/ PutDataIdxByPubKey(u)
      BY <3>5 DEF ServerStarts, PutDataIdxByUuid, PutDataIdxByPubKey, infraVars, libvirt
    <3>6. CASE Signal \/ Killed \/ HostRestarts \/ RunAgain
      BY <3>6 DEF Signal, Killed, HostRestarts, RunAgain, libvirt
    <3> QED
      BY <3>1, <3>2, <3>3, <3>4, <3>5, <3>6 DEF Next, ToolStep
  <2> QED
    BY <2>1 DEF IInv, ClusterIInv, Saving
<1> QED
  BY <1>1, Invariance, PTL DEF Spec, UsersSaved
-----------------------------------------------------------------------------
(***************************************************************************)
(* What SignalEnds rests on, for any nodes, users and number of runs: a    *)
(* run of the tool goes through its phases in one direction only, and      *)
(* under a signal nothing keeps it from going on.                          *)
(***************************************************************************)

(* The order in which run (cli/run.go) goes through its phases.             *)
PhaseRank(p) ==
  CASE p = "connect" -> 0 [] p = "sanity" -> 1 [] p = "define" -> 2 [] p = "build" -> 3
    [] p = "start" -> 4 [] p = "base" -> 5 [] p = "upload" -> 6 [] p = "network" -> 7
    [] p = "instances" -> 8 [] p = "waiting" -> 9 [] p = "nodes" -> 10
    [] p = "writeInit" -> 11 [] p = "kubeadm" -> 12 [] p = "kubeconfig" -> 13
    [] p = "client" -> 14 [] p = "rootCert" -> 15 [] p = "token" -> 16 [] p = "join" -> 17
    [] p = "credentials" -> 18 [] p = "etcd" -> 19 [] p = "cilium" -> 20
    [] p = "install" -> 21 [] p = "serving" -> 22 [] p = "connectSave" -> 23
    [] p = "save" -> 24 [] p = "write" -> 25 [] p = "cleanup" -> 26 [] p = "ended" -> 27
    [] p = "dead" -> 28

DeletionRank(d) ==
  CASE d = "network" -> 0 [] d = "domains" -> 1 [] d = "pool" -> 2 [] d = "volumes" -> 3
    [] d = "destroyed" -> 4 [] d = "undefine" -> 5 [] d = "off" -> 6

GoroutineRank(g) ==
  CASE g = "idle" -> 0 [] g = "half" -> 1 [] g = "done" -> 2 [] g = "failed" -> 3

(* Within a phase: a deletion comes to its next stage or has one object     *)
(* less to delete, one goroutine of the errgroup gets further, or one more  *)
(* object is installed.                                                     *)
DeletionAdvances ==
  /\ phase \in {"sanity", "cleanup"}
  /\ domains' \subseteq domains /\ files' \subseteq files
  /\ \/ DeletionRank(del) < DeletionRank(del')
     \/ del' = del /\ (domains' # domains \/ files' # files)

GroupAdvances ==
  /\ phase \in {"instances", "waiting", "join"}
  /\ \E n \in Nodes :
       /\ GoroutineRank(inst[n]) < GoroutineRank(inst'[n])
       /\ \A m \in Nodes \ {n} : inst'[m] = inst[m]

InstallAdvances == phase = "install" /\ installed' = installed + 1

(* What happens beside the tool: the signal comes, once; a server starts;   *)
(* a user makes an entry; or the host restarts while no tool runs.        *)
Beside ==
  /\ UNCHANGED <<del, inst, installed>>
  /\ \/ phase = "dead"
     \/ /\ UNCHANGED libvirt
        /\ \/ ~signalled /\ signalled'
           \/ \E a \in Apps : server[a] = "none" /\ server'[a] # "none"
           \/ /\ byUuid \subseteq byUuid' /\ byKey \subseteq byKey'
              /\ byUuid' # byUuid \/ byKey' # byKey

RunAdvances ==
  \/ phase \in Gone /\ runs' = runs + 1
  \/ runs' = runs /\ PhaseRank(phase) < PhaseRank(phase')
  \/ /\ UNCHANGED <<runs, phase>>
     /\ DeletionAdvances \/ GroupAdvances \/ InstallAdvances \/ Beside

(* No phase of a run comes back, no deletion starts over and no goroutine   *)
(* is started twice: every step of a run uses up one of finitely many.      *)
THEOREM RunRunsDown == Spec => [][RunAdvances]_vars
<1>1. IInv /\ [Next]_vars => [RunAdvances]_vars
  <2> SUFFICES ASSUME IInv, Next, vars' # vars PROVE RunAdvances
    OBVIOUS
  <2> USE DEF RunAdvances, PhaseRank, clusterVars
  <2>1. CASE DeletionStep /\ UNCHANGED clusterVars
    <3>1. phase \in {"sanity", "cleanup"} /\ phase' = phase
      BY <2>1 DEF IInv, InfraIInv, Phased, DeletionStep, DeleteNetwork, DestroyDomain,
         DomainsDeleted, DeletePool, DeleteVolume, DestroyPool, DeletePoolDirectory,
         UndefinePool, DeletionFails
    <3>2. DeletionAdvances
      BY <2>1, <3>1 DEF DeletionAdvances, DeletionRank, DeletionStep, DeleteNetwork,
         DestroyDomain, DomainsDeleted, DeletePool, DeleteVolume, DestroyPool,
         DeletePoolDirectory, UndefinePool, DeletionFails, IInv, InfraIInv, InfraTypeOK, libvirt
    <3> QED
      BY <2>1, <3>1, <3>2
  <2>2. CASE CreationStep /\ UNCHANGED clusterVars
    <3>1. CASE \/ Connect \/ SanityDone \/ DefinePool \/ BuildPool \/ StartPool
               \/ CreateBaseImage \/ UploadBaseImage \/ CreateNetwork \/ CreationFails
               \/ InstancesReturned \/ NodesReady \/ GetNodeInformation
      BY <2>2, <3>1 DEF Connect, SanityDone, DefinePool, BuildPool, StartPool, CreateBaseImage,
         UploadBaseImage, CreateNetwork, CreationFails, InstancesReturned, NodesReady,
         GroupReturns, GetNodeInformation, Goto, Panic, StartTermination, Creating
    <3>2. ASSUME NEW n \in Nodes, CreateBootImage(n) \/ CreateDomain(n) \/ GoroutineFails(n)
          PROVE  RunAdvances
      <4>1. phase \in {"instances", "waiting", "join"} /\ phase' = phase
        BY <3>2 DEF CreateBootImage, CreateDomain, GoroutineFails, IInv, InfraIInv, Phased, Idle
      <4>2. GroupAdvances
        BY <3>2, <4>1 DEF GroupAdvances, GoroutineRank, CreateBootImage, CreateDomain,
           GoroutineFails, IInv, InfraIInv, InfraTypeOK
      <4> QED
        BY <2>2, <4>1, <4>2
    <3> QED
      BY <2>2, <3>1, <3>2 DEF CreationStep
  <2>3. CASE CleanupDone /\ UNCHANGED clusterVars
    BY <2>3 DEF CleanupDone, Goto
  <2>4. CASE ClusterStep
    <3>1. CASE Install
      BY <3>1 DEF Install, InstallAdvances
    <3>2. CASE ~Install
      BY <2>4, <3>2 DEF ClusterStep, Call, ExecuteWriteInitConfiguration, WriteKubeconfigToDisk,
         EstablishClientGoConnection, GetKubernetesRootCert, InstallCilium, NewTerminate,
         GetJoinToken, JoinReturned, GroupReturns, GetEtcdCredentials, ConnectToEtcd,
         InstallDone, StepFails, SignalSeen, GetStoreUserData, SaveState, SaveFails,
         Goto, Panic, StartTermination
    <3> QED
      BY <3>1, <3>2
  <2>5. CASE MachineStep
    <3>1. ASSUME NEW n \in Nodes, NodeReady(n), UNCHANGED clusterVars PROVE RunAdvances
      BY <3>1 DEF NodeReady, GroupAdvances, GoroutineRank, IInv, InfraIInv, InfraTypeOK
    <3>2. CASE ExecuteKubeadm
      BY <3>2 DEF ExecuteKubeadm, Goto
    <3>3. ASSUME NEW n \in Nodes, JoinCluster(n) PROVE RunAdvances
      BY <3>3 DEF JoinCluster, GroupAdvances, GoroutineRank, IInv, InfraIInv, InfraTypeOK
    <3> QED
      BY <2>5, <3>1, <3>2, <3>3 DEF MachineStep
  <2>6. ASSUME NEW a \in Apps, ServerStarts(a) PROVE RunAdvances
    BY <2>6 DEF ServerStarts, infraVars, Beside, IInv, ClusterIInv, ClusterTypeOK
  <2>7. ASSUME NEW u \in Users, PutDataIdxByUuid(u) \/ PutDataIdxByPubKey(u) PROVE RunAdvances
    <3>1. CASE PutDataIdxByUuid(u)
      BY <3>1 DEF PutDataIdxByUuid, infraVars, Beside
    <3>2. CASE PutDataIdxByPubKey(u)
      BY <3>2 DEF PutDataIdxByPubKey, infraVars, Beside
    <3> QED
      BY <2>7, <3>1, <3>2
  <2>8. CASE Signal
    BY <2>8 DEF Signal, Beside
  <2>9. CASE Killed /\ UNCHANGED clusterVars
    BY <2>9 DEF Killed, Gone, IInv, InfraIInv, Phased, Phases, Creating
  <2>10. CASE HostRestarts /\ UNCHANGED clusterVars
    <3>1. CASE phase = "dead"
      BY <2>10, <3>1 DEF HostRestarts, Beside, IInv, InfraIInv, Phased
    <3>2. CASE phase # "dead"
      BY <2>10, <3>2 DEF HostRestarts, IInv, InfraIInv, Phased, Phases, Creating, Gone
    <3> QED
      BY <3>1, <3>2
  <2>11. CASE RunAgain
    BY <2>11 DEF RunAgain
  <2> QED
    BY <2>1, <2>2, <2>3, <2>4, <2>5, <2>6, <2>7, <2>8, <2>9, <2>10, <2>11 DEF Next, ToolStep
<1> QED
  BY <1>1, Invariance, PTL DEF Spec

(* The conditions under which the tool goes on without an error of its own: *)
(* libvirt has not got what is about to be created, a group of goroutines   *)
(* can be waited for, and only the signal ends a wait for the machines.     *)
CanGoOn ==
  \/ phase \in {"connect", "sanity", "define", "build", "start", "upload", "nodes", "writeInit",
                "kubeconfig", "client", "rootCert", "credentials", "etcd", "cilium",
                "connectSave", "write", "cleanup"}
  \/ phase = "install" /\ (Installed \/ NextInstall[2] \notin {"challenges", "privKey"})
  \/ phase \in {"kubeadm", "serving"} /\ signalled
  \/ phase = "base" /\ Base \notin files
  \/ phase = "network" /\ ~network
  \/ /\ phase = "instances"
     /\ \E n \in Nodes : \/ inst[n] = "idle" /\ n \notin files
                         \/ inst[n] = "half" /\ n \notin domains
  \/ phase \in {"waiting", "join"} /\ signalled /\ \E n \in Nodes : inst[n] \in {"idle", "half"}
  \/ phase \in {"instances", "waiting", "join"} /\ \A n \in Nodes : inst[n] \in {"done", "failed"}

(* After the signal the tool is never stuck, wherever it is and whatever    *)
(* its killed predecessors left, but in a call without a time limit, which  *)
(* etcd or the api server may never answer.  libvirt refuses a name only    *)
(* for files from before a restart of the host, and that ends in the        *)
(* deletion as well.                                                        *)
THEOREM SignalNeverStuck ==
  Spec => [](signalled /\ phase \notin Gone =>
               CanGoOn \/ Unlimited \/ (stale /\ phase \in {"base", "instances"}))
<1>1. IInv => (signalled /\ phase \notin Gone =>
                 CanGoOn \/ Unlimited \/ (stale /\ phase \in {"base", "instances"}))
  BY DEF IInv, InfraIInv, InfraTypeOK, Phased, Created, Unmade, Preparing, Phases, Creating,
     Gone, CanGoOn, Unlimited
<1> QED
  BY <1>1, Invariance, PTL
=============================================================================
