---------------------------- MODULE Infrastructure ----------------------------
(***************************************************************************)
(* The virtual machines of the cluster (cli/infrastructure/qemu), as the   *)
(* command line tool creates and deletes them: a storage pool with a base  *)
(* image and one boot image per node, a network, and one domain per node.  *)
(* The nodes are created, and waited for, by one goroutine each; the tool  *)
(* goes on when all of them have returned.  Everything is deleted at the   *)
(* end of the tool, and before it creates anything, by looking for what    *)
(* libvirt has under the names of the tool, not for what it registered.    *)
(*                                                                         *)
(* Networks and domains are transient: they are gone when the host is      *)
(* restarted.  The pool is persistent, but not started with the host, and  *)
(* the files in its directory stay.                                        *)
(***************************************************************************)
CONSTANTS Nodes, Base \* the domains, and the name of the base image

ASSUME BaseAssumption == Base \notin Nodes

VARIABLES
  phase,     \* where run (cli/run.go) is
  del,       \* where TerminateInfrastructure is, or off
  delFailed, \* a part of it has failed
  inst,      \* the goroutines of the errgroup at hand: idle, half, done, failed
  network, domains, pool, files, \* what libvirt has; the files of the pool
  signalled, \* the context of the tool is cancelled
  stale      \* history: the pool lost its domains and its state to a restart
             \* of the host, and its files have not been deleted since

libvirt == <<network, domains, pool, files>>
infraVars == <<phase, del, delFailed, inst, libvirt, signalled, stale>>

Volumes == Nodes \cup {Base}
Idle == [n \in Nodes |-> "idle"]

(* The steps of InitializeInfrastructure.                                   *)
Creating == {"define", "build", "start", "base", "upload", "network",
             "instances", "waiting", "nodes"}
(* The process is not there: it has ended, or it was killed.                *)
Gone == {"ended", "dead"}

InfraTypeOK ==
  /\ del \in {"off", "network", "domains", "pool", "volumes", "destroyed", "undefine"}
  /\ delFailed \in BOOLEAN
  /\ inst \in [Nodes -> {"idle", "half", "done", "failed"}]
  /\ network \in BOOLEAN
  /\ domains \subseteq Nodes
  /\ pool \in {"none", "inactive", "active"}
  /\ files \subseteq Volumes
  /\ signalled \in BOOLEAN
  /\ stale \in BOOLEAN

InfraInit ==
  /\ phase = "connect"
  /\ del = "off"
  /\ delFailed = FALSE
  /\ inst = Idle
  /\ network = FALSE
  /\ domains = {}
  /\ pool = "none"
  /\ files = {}
  /\ signalled = FALSE
  /\ stale = FALSE

-----------------------------------------------------------------------------
(* TerminateInfrastructure: the three parts are tried one after the other,  *)
(* whatever becomes of the earlier ones, and their errors are joined.       *)
StartTermination(p) ==
  /\ phase' = p
  /\ del' = "network"
  /\ delFailed' = FALSE

(* A step of the tool fails: DPanic unwinds to the deferred termination.    *)
Panic == StartTermination("cleanup")

DeleteNetwork ==
  /\ del = "network"
  /\ network' = FALSE
  /\ del' = "domains"
  /\ UNCHANGED <<phase, delFailed, inst, domains, pool, files, signalled, stale>>

DestroyDomain(n) ==
  /\ del = "domains"
  /\ n \in domains
  /\ domains' = domains \ {n}
  /\ UNCHANGED <<phase, del, delFailed, inst, network, pool, files, signalled, stale>>

DomainsDeleted ==
  /\ del = "domains"
  /\ domains = {}
  /\ del' = "pool"
  /\ UNCHANGED <<phase, delFailed, inst, libvirt, signalled, stale>>

(* deletePool: the volumes of an active pool are deleted one by one and the *)
(* pool is stopped, its directory removed; an inactive one is only          *)
(* undefined, with the files in its directory left where they are.          *)
DeletePool ==
  /\ del = "pool"
  /\ del' = CASE pool = "none" -> "off"
              [] pool = "inactive" -> "undefine"
              [] OTHER -> "volumes"
  /\ UNCHANGED <<phase, delFailed, inst, libvirt, signalled, stale>>

DeleteVolume(v) ==
  /\ del = "volumes"
  /\ v \in files
  /\ files' = files \ {v}
  /\ UNCHANGED <<phase, del, delFailed, inst, network, domains, pool, signalled, stale>>

DestroyPool ==
  /\ del = "volumes"
  /\ files = {}
  /\ pool' = "inactive"
  /\ del' = "destroyed"
  /\ stale' = FALSE
  /\ UNCHANGED <<phase, delFailed, inst, network, domains, files, signalled>>

DeletePoolDirectory ==
  /\ del = "destroyed"
  /\ del' = "undefine"
  /\ UNCHANGED <<phase, delFailed, inst, libvirt, signalled, stale>>

UndefinePool ==
  /\ del = "undefine"
  /\ pool' = "none"
  /\ del' = "off"
  /\ UNCHANGED <<phase, delFailed, inst, network, domains, files, signalled, stale>>

(* A call fails, the first of a list included: the rest of that part is     *)
(* skipped.                                                                 *)
DeletionFails ==
  /\ del # "off"
  /\ delFailed' = TRUE
  /\ del' = CASE del = "network" -> "domains"
              [] del = "domains" -> "pool"
              [] OTHER -> "off"
  /\ UNCHANGED <<phase, inst, libvirt, signalled, stale>>

DeletionStep ==
  \/ DeleteNetwork
  \/ \E n \in Nodes : DestroyDomain(n)
  \/ DomainsDeleted
  \/ DeletePool
  \/ \E v \in Volumes : DeleteVolume(v)
  \/ DestroyPool
  \/ DeletePoolDirectory
  \/ UndefinePool
  \/ DeletionFails

-----------------------------------------------------------------------------
Goto(p) == phase' = p /\ UNCHANGED <<del, delFailed>>

(* ConnectWithInfrastructureService, and the termination InitializeInfra-   *)
(* structure begins with.  The deferred termination of a tool without a     *)
(* connection dereferences it: the process dies.                            *)
Connect ==
  /\ phase = "connect"
  /\ \/ StartTermination("sanity")
     \/ Goto("dead")
  /\ UNCHANGED <<inst, libvirt, signalled, stale>>

(* Mutant: the errors of the first termination are ignored.                 *)
SanityIgnoresErrors ==
  /\ phase = "sanity"
  /\ del = "off"
  /\ Goto("define")
  /\ UNCHANGED <<inst, libvirt, signalled, stale>>

SanityDone ==
  /\ phase = "sanity"
  /\ del = "off"
  /\ IF delFailed THEN Panic ELSE Goto("define")
  /\ UNCHANGED <<inst, libvirt, signalled, stale>>

(* createStoragePool: the pool is defined, built and started, and then has  *)
(* the files of its directory.                                              *)
DefinePool ==
  /\ phase = "define"
  /\ pool' = "inactive"
  /\ Goto("build")
  /\ UNCHANGED <<inst, network, domains, files, signalled, stale>>

BuildPool ==
  /\ phase = "build"
  /\ Goto("start")
  /\ UNCHANGED <<inst, libvirt, signalled, stale>>

StartPool ==
  /\ phase = "start"
  /\ pool' = "active"
  /\ Goto("base")
  /\ UNCHANGED <<inst, network, domains, files, signalled, stale>>

(* createBaseImage: a volume of that name must not exist.                   *)
CreateBaseImage ==
  /\ phase = "base"
  /\ Base \notin files
  /\ files' = files \cup {Base}
  /\ Goto("upload")
  /\ UNCHANGED <<inst, network, domains, pool, signalled, stale>>

UploadBaseImage ==
  /\ phase = "upload"
  /\ Goto("network")
  /\ UNCHANGED <<inst, libvirt, signalled, stale>>

CreateNetwork ==
  /\ phase = "network"
  /\ ~network
  /\ network' = TRUE
  /\ Goto("instances")
  /\ UNCHANGED <<inst, domains, pool, files, signalled, stale>>

(* Any of these fails; the upload also because the context is cancelled.    *)
CreationFails ==
  /\ phase \in Creating \ {"instances", "waiting"}
  /\ Panic
  /\ UNCHANGED <<inst, libvirt, signalled, stale>>

-----------------------------------------------------------------------------
(* createInstance: the boot image, then the domain.  Nothing stops a        *)
(* goroutine between the two.                                               *)
CreateBootImage(n) ==
  /\ phase = "instances" /\ inst[n] = "idle"
  /\ n \notin files
  /\ files' = files \cup {n}
  /\ inst' = [inst EXCEPT ![n] = "half"]
  /\ UNCHANGED <<phase, del, delFailed, network, domains, pool, signalled, stale>>

CreateDomain(n) ==
  /\ inst[n] = "half" /\ phase # "waiting"
  /\ n \notin domains
  /\ domains' = domains \cup {n}
  /\ inst' = [inst EXCEPT ![n] = "done"]
  /\ UNCHANGED <<phase, del, delFailed, network, pool, files, signalled, stale>>

(* blockUntilInstanceReady: an address, then an answer of the agent.        *)
NodeReady(n) ==
  /\ phase = "waiting" /\ inst[n] \in {"idle", "half"}
  /\ n \in domains
  /\ inst' = [inst EXCEPT ![n] = IF @ = "idle" THEN "half" ELSE "done"]
  /\ UNCHANGED <<phase, del, delFailed, libvirt, signalled, stale>>

(* Mutant: nothing ends the wait for a node.                                *)
GoroutineWaits(n) ==
  /\ phase \in {"instances", "join"}
  /\ inst[n] \in {"idle", "half"}
  /\ inst' = [inst EXCEPT ![n] = "failed"]
  /\ UNCHANGED <<phase, del, delFailed, libvirt, signalled, stale>>

(* A goroutine returns an error: of libvirt, of a time limit, of the agent, *)
(* or because the context is cancelled.                                     *)
GoroutineFails(n) ==
  /\ phase \in {"instances", "waiting", "join"}
  /\ inst[n] \in {"idle", "half"}
  /\ inst' = [inst EXCEPT ![n] = "failed"]
  /\ UNCHANGED <<phase, del, delFailed, libvirt, signalled, stale>>

(* g.Wait returns when all goroutines of the group have.                    *)
GroupReturns(next) ==
  /\ \A n \in Nodes : inst[n] \in {"done", "failed"}
  /\ IF \E n \in Nodes : inst[n] = "failed" THEN Panic ELSE Goto(next)
  /\ inst' = Idle
  /\ UNCHANGED <<libvirt, signalled, stale>>

(* Mutant: the first error is returned while goroutines still run.          *)
InstancesReturnedEarly ==
  /\ phase = "instances"
  /\ \/ GroupReturns("waiting")
     \/ /\ \E n \in Nodes : inst[n] = "failed"
        /\ Panic
        /\ UNCHANGED <<inst, libvirt, signalled, stale>>

InstancesReturned == phase = "instances" /\ GroupReturns("waiting")

NodesReady == phase = "waiting" /\ GroupReturns("nodes")

(* getNodeInformation asks for the addresses, and the tool goes on.         *)
GetNodeInformation ==
  /\ phase = "nodes"
  /\ Goto("writeInit")
  /\ UNCHANGED <<inst, libvirt, signalled, stale>>

(* What the tool does; NodeReady is up to the machines.                     *)
CreationStep ==
  \/ Connect
  \/ SanityDone
  \/ DefinePool
  \/ BuildPool
  \/ StartPool
  \/ CreateBaseImage
  \/ UploadBaseImage
  \/ CreateNetwork
  \/ CreationFails
  \/ InstancesReturned
  \/ NodesReady
  \/ GetNodeInformation
  \/ \E n \in Nodes : CreateBootImage(n) \/ CreateDomain(n) \/ GoroutineFails(n)

-----------------------------------------------------------------------------
(* The deferred termination is over, and with it the process.               *)
CleanupDone ==
  /\ phase = "cleanup"
  /\ del = "off"
  /\ Goto("ended")
  /\ UNCHANGED <<inst, libvirt, signalled, stale>>

(* The process is killed: by a second signal, which is not caught any more, *)
(* or by the system.  What libvirt has, it keeps.                           *)
Killed ==
  /\ phase \notin Gone
  /\ phase' = "dead"
  /\ del' = "off"
  /\ inst' = Idle
  /\ UNCHANGED <<delFailed, libvirt, signalled, stale>>

(* The host is restarted.                                                   *)
HostRestarts ==
  /\ phase' = "dead"
  /\ del' = "off"
  /\ inst' = Idle
  /\ network' = FALSE
  /\ domains' = {}
  /\ pool' = IF pool = "none" THEN "none" ELSE "inactive"
  /\ stale' = (stale \/ files # {})
  /\ UNCHANGED <<delFailed, files, signalled>>
=============================================================================
