------------------------- MODULE UserResourcesProofs -------------------------
(***************************************************************************)
(* The safety properties of UserResources for any number of users and      *)
(* logins.  The point of the induction is Progress: it fixes the objects   *)
(* that exist at each point of a creation, so a second login that reaches  *)
(* the creation of the service finds it there and fails.                   *)
(***************************************************************************)
EXTENDS UserResources, TLAPS

(* A namespace without users satisfies the invariant.                      *)
LEMMA InitIInv == Init => IInv
  BY DEF Init, IInv, TypeOK, Steps, CreatingSteps, Creating, OneCreator, Progress,
         AllOrNothing, ReadyIsComplete, ShellServed, Objects

(* Every call of a login, its failure, and every pod event preserve the    *)
(* invariant.                                                              *)
LEMMA StepIInv == IInv /\ [Next]_vars => IInv'
<1> SUFFICES ASSUME IInv, [Next]_vars PROVE IInv'
  OBVIOUS
<1> USE DEF IInv, TypeOK, Steps, CreatingSteps, Creating, OneCreator, Progress,
            AllOrNothing, ReadyIsComplete, ShellServed, Objects, Goto
<1>1. ASSUME NEW l \in Logins, Begin(l) PROVE IInv'
  BY <1>1 DEF Begin
<1>2. ASSUME NEW l \in Logins, UserRessourcesExist(l) PROVE IInv'
  BY <1>2 DEF UserRessourcesExist
<1>3. ASSUME NEW l \in Logins, NamespaceExists(l) PROVE IInv'
  BY <1>3 DEF NamespaceExists
<1>4. ASSUME NEW l \in Logins, CreateNamespace(l) PROVE IInv'
  BY <1>4 DEF CreateNamespace
<1>5. ASSUME NEW l \in Logins, NEW o \in Objects, Create(l, o) PROVE IInv'
  <2>1. CASE o \in created[user[l]]
    BY <1>5, <2>1 DEF Create
  <2>2. CASE o \notin created[user[l]]
    <3>1. CASE o = "service"
      BY <1>5, <2>2, <3>1 DEF Create, After
    <3>2. CASE o = "statefulset"
      BY <1>5, <2>2, <3>2 DEF Create, After
    <3>3. CASE o = "pvc"
      BY <1>5, <2>2, <3>3 DEF Create, After
    <3>4. CASE o = "pv"
      BY <1>5, <2>2, <3>4 DEF Create, After
    <3> QED
      BY <3>1, <3>2, <3>3, <3>4
  <2> QED
    BY <2>1, <2>2
<1>6. ASSUME NEW l \in Logins, WaitForStatefulSet(l) PROVE IInv'
  BY <1>6 DEF WaitForStatefulSet
<1>7. ASSUME NEW l \in Logins, WaitForPodRunning(l) PROVE IInv'
  BY <1>7 DEF WaitForPodRunning
<1>8. ASSUME NEW l \in Logins, PodTimeout(l) PROVE IInv'
  BY <1>8 DEF PodTimeout
<1>9. ASSUME NEW l \in Logins, CallFails(l) PROVE IInv'
  BY <1>9 DEF CallFails
<1>10. ASSUME NEW l \in Logins, NEW o \in Objects, AnswerLost(l, o) PROVE IInv'
  BY <1>10 DEF AnswerLost
<1>11. ASSUME NEW u \in Users, PodStarts(u) \/ PodStops(u) PROVE IInv'
  BY <1>11 DEF PodStarts, PodStops
<1>12. ASSUME NEW l \in Logins, NEW request \in {"shell", "subsystem"},
              ExecuteCommandInPod(l, request)
       PROVE  IInv'
  <2>1. request = "shell" => ServiceName(Identifier(user[l], request)) \in Services
    BY <1>12 DEF ExecuteCommandInPod, Identifier, Services
  <2>2. PICK s \in {"noSubsystem", "connected", "failed"} : Goto(l, s)
    BY <1>12, <2>1 DEF ExecuteCommandInPod
  <2>3. UNCHANGED <<ns, created, podRunning, user, disturbed>> /\ step[l] = "ready"
    BY <1>12 DEF ExecuteCommandInPod
  <2>4. TypeOK'
    BY <2>2, <2>3
  <2>5. \A m \in Logins : step'[m] # step[m] => m = l /\ step'[m] = s
    BY <2>2
  <2>6. OneCreator' /\ Progress' /\ ReadyIsComplete' /\ ShellServed'
    BY <2>3, <2>5
  <2>7. AllOrNothing'
    BY <2>3, <2>5
  <2> QED
    BY <2>4, <2>6, <2>7
<1>13. CASE UNCHANGED vars
  BY <1>13 DEF vars
<1> HIDE DEF IInv, Goto, Creating
<1> QED
  BY <1>1, <1>2, <1>3, <1>4, <1>5, <1>6, <1>7, <1>8, <1>9, <1>10, <1>11, <1>12,
     <1>13
  DEF Next, LoginStep, ApiStep

(* The inductive invariant holds in every reachable state.                 *)
THEOREM Invariance == Spec => []IInv
<1>1. Init => IInv
  BY InitIInv
<1>2. IInv /\ [Next]_vars => IInv'
  BY StepIInv
<1> QED
  BY <1>1, <1>2, PTL DEF Spec

(* A login that is served finds the service, the statefulset and the       *)
(* volume of its user, and its shell the service.                          *)
THEOREM Completeness == Spec => [](ReadyIsComplete /\ ShellServed)
<1>1. IInv => ReadyIsComplete /\ ShellServed
  BY DEF IInv
<1> QED
  BY <1>1, Invariance, PTL

(* At most one login of a user creates the objects, and unless a call of   *)
(* it failed the user has none or all of them when it is done.             *)
THEOREM Exclusion == Spec => [](OneCreator /\ AllOrNothing)
<1>1. IInv => OneCreator /\ AllOrNothing
  BY DEF IInv
<1> QED
  BY <1>1, Invariance, PTL

-----------------------------------------------------------------------------
(* What CreationFinishes and LoginResolves rest on, for any number of users *)
(* and logins.                                                              *)

(* Where a creating login goes when its call succeeds.                      *)
NextCall(s) == IF s = "waitSet" THEN "pvc" ELSE After[s]

(* A creating login only ever moves to its next call, with the object it    *)
(* has created in place, unless a call of its own fails.                    *)
CreatorGoesOn ==
  \A l \in Logins :
    Creating(l) /\ step'[l] # step[l] =>
      \/ user[l] \in disturbed'
      \/ step'[l] = NextCall(step[l]) /\ created[user[l]] \subseteq created'[user[l]]

(* The login that has created the service is never turned away because an   *)
(* object exists: no race with another login of the user, or of other       *)
(* users, ends a creation half way.                                         *)
THEOREM CreatorNeverRefused == Spec => [][CreatorGoesOn]_vars
<1>1. IInv /\ [Next]_vars => CreatorGoesOn
  <2> SUFFICES ASSUME IInv, [Next]_vars, NEW m \in Logins, Creating(m), step'[m] # step[m]
               PROVE  \/ user[m] \in disturbed'
                      \/ /\ step'[m] = NextCall(step[m])
                         /\ created[user[m]] \subseteq created'[user[m]]
    BY DEF CreatorGoesOn
  <2> USE DEF IInv, TypeOK, Steps, CreatingSteps, Creating, Progress, Objects, Goto,
              NextCall, After
  <2>1. ASSUME NEW l \in Logins, NEW o \in Objects, Create(l, o)
        PROVE  /\ step'[m] = NextCall(step[m])
               /\ created[user[m]] \subseteq created'[user[m]]
    <3>1. m = l /\ o \notin created[user[l]]
      BY <2>1 DEF Create
    <3> QED
      BY <2>1, <3>1 DEF Create
  <2>2. ASSUME NEW l \in Logins, WaitForStatefulSet(l)
        PROVE  /\ step'[m] = NextCall(step[m])
               /\ created[user[m]] \subseteq created'[user[m]]
    BY <2>2 DEF WaitForStatefulSet
  <2>3. ASSUME NEW l \in Logins,
               CallFails(l) \/ \E o \in Objects : AnswerLost(l, o)
        PROVE  user[m] \in disturbed'
    BY <2>3 DEF CallFails, AnswerLost
  <2>4. ASSUME NEW l \in Logins,
               \/ Begin(l) \/ UserRessourcesExist(l) \/ NamespaceExists(l)
               \/ CreateNamespace(l) \/ WaitForPodRunning(l) \/ PodTimeout(l)
               \/ \E request \in {"shell", "subsystem"} : ExecuteCommandInPod(l, request)
        PROVE  FALSE
    BY <2>4 DEF Begin, UserRessourcesExist, NamespaceExists, CreateNamespace,
                WaitForPodRunning, PodTimeout, ExecuteCommandInPod
  <2>5. ASSUME NEW v \in Users, PodStarts(v) \/ PodStops(v) PROVE FALSE
    BY <2>5 DEF PodStarts, PodStops
  <2>6. CASE UNCHANGED vars
    BY <2>6 DEF vars
  <2> QED
    BY <2>1, <2>2, <2>3, <2>4, <2>5, <2>6 DEF Next, LoginStep, ApiStep
<1> QED
  BY <1>1, Invariance, PTL DEF Spec

(* A login that has begun and is neither served nor refused.                *)
Pending(l) ==
  step[l] \in CreatingSteps \cup {"exists", "namespace", "createNamespace", "service", "podWait"}

(* The call a pending login is at can be answered with what there is: for a *)
(* creating one, with success.                                              *)
CanMove(l) ==
  /\ step[l] = "waitSet" => "statefulset" \in created[user[l]]
  /\ step[l] \in {"statefulset", "pvc", "pv"} => step[l] \notin created[user[l]]

(* No login waits for an object that nobody creates, and an unfinished set  *)
(* of objects always has a login that is about to complete it, unless a     *)
(* call of its creator failed.                                              *)
THEOREM CreationNeverStuck ==
  Spec => [](/\ \A l \in Logins : Pending(l) => CanMove(l)
             /\ \A u \in Users \ disturbed : created[u] \notin {{}, Objects} =>
                  \E l \in Logins : user[l] = u /\ Creating(l) /\ CanMove(l))
<1>1. IInv =>
        /\ \A l \in Logins : Pending(l) => CanMove(l)
        /\ \A u \in Users \ disturbed : created[u] \notin {{}, Objects} =>
             \E l \in Logins : user[l] = u /\ Creating(l) /\ CanMove(l)
  <2> SUFFICES ASSUME IInv
               PROVE  /\ \A l \in Logins : CanMove(l)
                      /\ \A u \in Users \ disturbed : created[u] \notin {{}, Objects} =>
                           \E l \in Logins : user[l] = u /\ Creating(l)
    OBVIOUS
  <2>1. \A l \in Logins : CanMove(l)
    BY DEF IInv, TypeOK, Progress, CanMove
  <2> QED
    BY <2>1 DEF IInv, AllOrNothing
<1> QED
  BY <1>1, Invariance, PTL
=============================================================================
