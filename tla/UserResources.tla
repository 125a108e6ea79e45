---------------------------- MODULE UserResources ----------------------------
(***************************************************************************)
(* CreateAndWaitForRessources (ssh/kubernetes/api.go) and the kubernetes   *)
(* objects it creates (internal/k8sapi): before the channels of a          *)
(* connection are served, the user must have a service, a statefulset, a   *)
(* volume claim and a volume, and a running pod.                           *)
(*                                                                         *)
(* Every login runs the function on its own: logins of one user, from      *)
(* several terminals or replicas, and logins of different users, who share *)
(* the namespace, interleave call by call.  The kubernetes api server      *)
(* refuses to create an object that exists.  A call may fail, or its       *)
(* answer may be lost, and a login may be cancelled or crash between two   *)
(* calls; nothing that was created is removed.                             *)
(***************************************************************************)
CONSTANTS Users, Logins

VARIABLES
  ns,         \* whether the namespace of the users exists
  created,    \* the objects of each user that exist
  podRunning, \* the users whose pod runs
  step, user, \* program counter and user of each login
  disturbed   \* history: users whose creation was cut short by an error

vars == <<ns, created, podRunning, step, user, disturbed>>

Objects == {"service", "statefulset", "pvc", "pv"}

(* A login that has created the service and not yet the volume.             *)
CreatingSteps == {"statefulset", "waitSet", "pvc", "pv"}
Steps == {"idle", "exists", "namespace", "createNamespace", "service",
          "podWait", "ready", "failed", "connected", "noShell", "noSubsystem"}
         \cup CreatingSteps

(* The calls of CreateUserRessources in their order.                        *)
After == [service |-> "statefulset", statefulset |-> "waitSet",
          pvc |-> "pv", pv |-> "podWait"]

Creating(l) == step[l] \in CreatingSteps

(* Every variable has a value of its type.                                  *)
TypeOK ==
  /\ ns \in BOOLEAN
  /\ created \in [Users -> SUBSET Objects]
  /\ podRunning \subseteq Users
  /\ step \in [Logins -> Steps]
  /\ user \in [Logins -> Users]
  /\ disturbed \subseteq Users

Init ==
  /\ ns = FALSE
  /\ created = [u \in Users |-> {}]
  /\ podRunning = {}
  /\ step = [l \in Logins |-> "idle"]
  /\ user \in [Logins -> Users]
  /\ disturbed = {}

Goto(l, s) == step' = [step EXCEPT ![l] = s]

-----------------------------------------------------------------------------
Begin(l) ==
  /\ step[l] = "idle"
  /\ Goto(l, "exists")
  /\ UNCHANGED <<ns, created, podRunning, user, disturbed>>

(* UserRessourcesExist asks for the statefulset only.                       *)
UserRessourcesExist(l) ==
  /\ step[l] = "exists"
  /\ Goto(l, IF "statefulset" \in created[user[l]] THEN "podWait" ELSE "namespace")
  /\ UNCHANGED <<ns, created, podRunning, user, disturbed>>

(* Mutant: the service is not created.                                      *)
NamespaceExistsSkipsService(l) ==
  /\ step[l] = "namespace"
  /\ Goto(l, IF ns THEN "statefulset" ELSE "createNamespace")
  /\ UNCHANGED <<ns, created, podRunning, user, disturbed>>

NamespaceExists(l) ==
  /\ step[l] = "namespace"
  /\ Goto(l, IF ns THEN "service" ELSE "createNamespace")
  /\ UNCHANGED <<ns, created, podRunning, user, disturbed>>

CreateNamespace(l) ==
  /\ step[l] = "createNamespace"
  /\ Goto(l, IF ns THEN "failed" ELSE "service")
  /\ ns' = TRUE
  /\ UNCHANGED <<created, podRunning, user, disturbed>>

(* CreateHeadlessService, the Create of the statefulset,                    *)
(* CreatePersistentVolumeClaim and CreatePersistentVolume: each ends the    *)
(* login when the object exists.                                            *)
Create(l, o) ==
  /\ step[l] = o
  /\ IF o \in created[user[l]]
       THEN Goto(l, "failed") /\ UNCHANGED created
       ELSE /\ created' = [created EXCEPT ![user[l]] = @ \cup {o}]
            /\ Goto(l, After[o])
  /\ UNCHANGED <<ns, podRunning, user, disturbed>>

(* Mutant: the claim and the volume are forgotten.                          *)
WaitForStatefulSetOnly(l) ==
  /\ step[l] = "waitSet"
  /\ "statefulset" \in created[user[l]]
  /\ Goto(l, "podWait")
  /\ UNCHANGED <<ns, created, podRunning, user, disturbed>>

(* Mutant: the pod is waited for before its claim is created.               *)
WaitForStatefulSetPod(l) ==
  /\ step[l] = "waitSet"
  /\ user[l] \in podRunning
  /\ Goto(l, "pvc")
  /\ UNCHANGED <<ns, created, podRunning, user, disturbed>>

(* WaitForStatefulSet polls until the statefulset can be read.              *)
WaitForStatefulSet(l) ==
  /\ step[l] = "waitSet"
  /\ "statefulset" \in created[user[l]]
  /\ Goto(l, "pvc")
  /\ UNCHANGED <<ns, created, podRunning, user, disturbed>>

(* WaitForPodRunning polls until the pod runs.  A login that created the    *)
(* objects does so twice in a row, for four minutes and for one.            *)
WaitForPodRunning(l) ==
  /\ step[l] = "podWait"
  /\ user[l] \in podRunning
  /\ Goto(l, "ready")
  /\ UNCHANGED <<ns, created, podRunning, user, disturbed>>

(* Mutant: the poll gives up only once the pod has been seen running.       *)
PodTimeoutMissing(l) ==
  /\ step[l] = "podWait"
  /\ user[l] \in podRunning
  /\ Goto(l, "failed")
  /\ UNCHANGED <<ns, created, podRunning, user, disturbed>>

(* The poll times out.                                                      *)
PodTimeout(l) ==
  /\ step[l] = "podWait"
  /\ Goto(l, "failed")
  /\ UNCHANGED <<ns, created, podRunning, user, disturbed>>

(* The identifier under which a channel asks for its user's objects:        *)
(* handleShell passes that of the user, handleSubsystem that of the pod.    *)
PodName(u) == <<u, "statefulset-0">>
Identifier(u, request) == IF request = "shell" THEN u ELSE PodName(u)

ServiceName(id) == <<id, "service">>
Services == {ServiceName(u) : u \in {v \in Users : "service" \in created[v]}}

(* ExecuteCommandInPod for a request of a served login: the service is      *)
(* looked up, then the pod, which may have gone meanwhile.                  *)
ExecuteCommandInPod(l, request) ==
  /\ step[l] = "ready"
  /\ Goto(l, IF ServiceName(Identifier(user[l], request)) \notin Services
                THEN IF request = "shell" THEN "noShell" ELSE "noSubsystem"
                ELSE IF user[l] \in podRunning THEN "connected" ELSE "failed")
  /\ UNCHANGED <<ns, created, podRunning, user, disturbed>>

(* A call returns an error, the context is cancelled or the replica         *)
(* crashes; a creating login leaves its objects behind.                     *)
CallFails(l) ==
  /\ step[l] \in CreatingSteps \cup {"exists", "namespace", "createNamespace",
                                    "service", "podWait"}
  /\ Goto(l, "failed")
  /\ disturbed' = IF Creating(l) THEN disturbed \cup {user[l]} ELSE disturbed
  /\ UNCHANGED <<ns, created, podRunning, user>>

(* The object is created but the answer is lost.                            *)
AnswerLost(l, o) ==
  /\ step[l] = o
  /\ o \notin created[user[l]]
  /\ created' = [created EXCEPT ![user[l]] = @ \cup {o}]
  /\ Goto(l, "failed")
  /\ disturbed' = disturbed \cup {user[l]}
  /\ UNCHANGED <<ns, podRunning, user>>

-----------------------------------------------------------------------------
(* Kubernetes: the statefulset controller and the scheduler start the pod   *)
(* once its claim is bound to the volume; a pod may stop at any time.       *)
PodStarts(u) ==
  /\ u \notin podRunning
  /\ {"statefulset", "pvc", "pv"} \subseteq created[u]
  /\ podRunning' = podRunning \cup {u}
  /\ UNCHANGED <<ns, created, step, user, disturbed>>

PodStops(u) ==
  /\ u \in podRunning
  /\ podRunning' = podRunning \ {u}
  /\ UNCHANGED <<ns, created, step, user, disturbed>>

-----------------------------------------------------------------------------
ApiStep(l) ==
  \/ UserRessourcesExist(l) \/ NamespaceExists(l) \/ CreateNamespace(l)
  \/ \E o \in Objects : Create(l, o)
  \/ WaitForStatefulSet(l)

LoginStep(l) ==
  \/ Begin(l) \/ ApiStep(l)
  \/ WaitForPodRunning(l) \/ PodTimeout(l)
  \/ \E request \in {"shell", "subsystem"} : ExecuteCommandInPod(l, request)
  \/ CallFails(l)
  \/ \E o \in Objects : AnswerLost(l, o)

Next ==
  \/ \E l \in Logins : LoginStep(l)
  \/ \E u \in Users : PodStarts(u) \/ PodStops(u)

Spec == Init /\ [][Next]_vars

(* The api server answers, and the waits for the pod have a timeout.        *)
Fairness ==
  \A l \in Logins :
    /\ WF_vars(ApiStep(l))
    /\ WF_vars(WaitForPodRunning(l) \/ PodTimeout(l))

FairSpec == Spec /\ Fairness

-----------------------------------------------------------------------------
(* A login is served only when all four objects exist, in particular the    *)
(* service, which UserRessourcesExist does not ask for and which            *)
(* ExecuteCommandInPod and WriteFileInPod look up.                          *)
ReadyIsComplete ==
  \A l \in Logins : step[l] = "ready" => created[user[l]] = Objects

(* The shell of a served login is never refused for want of a service,      *)
(* however its user's objects came about.                                   *)
ShellServed == \A l \in Logins : step[l] # "noShell"

(* handleSubsystem "is used by "scp" to copy files from the localhost to    *)
(* the pod or vice versa" (callback.go:75): the subsystem of a served login *)
(* is not refused for want of a service, either.                            *)
SubsystemServed == \A l \in Logins : step[l] # "noSubsystem"

(* The creation of the service works as a lock: of several logins of one    *)
(* user at most one goes on to create the other objects.                    *)
OneCreator ==
  \A l, m \in Logins : Creating(l) /\ Creating(m) /\ user[l] = user[m] => l = m

(* A user has none or all of the objects, or a login is about to create the *)
(* missing ones, unless a call of a creating login failed.  After such a    *)
(* failure no later login creates what is missing.                          *)
AllOrNothing ==
  \A u \in Users \ disturbed :
    \/ created[u] \in {{}, Objects}
    \/ \E l \in Logins : user[l] = u /\ Creating(l)

(* What is begun is finished: once a user has a service the other objects   *)
(* follow, unless a call fails, and even if other logins race with the      *)
(* creator.                                                                 *)
CreationFinishes ==
  \A u \in Users :
    created[u] # {} ~> (created[u] = Objects \/ u \in disturbed)

(* Every login is eventually served or refused; none waits for ever.        *)
LoginResolves ==
  \A l \in Logins : step[l] = "exists" ~> step[l] \in {"ready", "failed"}

-----------------------------------------------------------------------------
(* What a creating login has created so far is all there is, and a pod      *)
(* only runs for a user who has everything.  The invariant is inductive.    *)
Progress ==
  /\ \A l \in Logins :
       /\ step[l] = "statefulset" => created[user[l]] = {"service"}
       /\ step[l] \in {"waitSet", "pvc"} => created[user[l]] = {"service", "statefulset"}
       /\ step[l] = "pv" => created[user[l]] = {"service", "statefulset", "pvc"}
  /\ \A u \in Users :
       /\ created[u] # {} => "service" \in created[u]
       /\ u \in podRunning => created[u] = Objects

IInv ==
  /\ TypeOK
  /\ OneCreator
  /\ Progress
  /\ AllOrNothing
  /\ ReadyIsComplete
  /\ ShellServed
=============================================================================
