------------------------- MODULE ClusterRolloutProofs -------------------------
(***************************************************************************)
(* ClusterReload implements Rollout, for any set of configurations and     *)
(* pods and any bounds, in the steady environments of ClusterReloadProofs. *)
(***************************************************************************)
EXTENDS ClusterRollout, ClusterReloadProofs

\* Pods do not run ahead of the ConfigMap, nor servers of their volume, and a
\* reconcile at work with an outdated hash meets no volume that has the desired
\* configuration.
ForwardInv ==
    \A p \in Pods :
        /\ {mounted[p], loaded[p]} \subseteq rendered \cup {None}
        /\ phase[p] # "Running" => loaded[p] = None
        /\ loaded[p] = desired => mounted[p] = desired
        /\ mounted[p] = desired => configMap \in {desired, None}
        /\ mounted[p] = desired => hash \in {desired, None}

\* All that is known.
RolloutInv == TypeOK /\ FreshInv /\ LiveInv /\ ForwardInv

\* Each action preserves ForwardInv: volumes only take what the ConfigMap has,
\* servers only what the volume has.
LEMMA ForwardStep ==
    ASSUME Steady, RolloutInv, [Next]_vars
    PROVE  ForwardInv'
<1> SUFFICES ASSUME NEW q \in Pods
             PROVE  /\ {mounted'[q], loaded'[q]} \subseteq rendered' \cup {None}
                    /\ phase'[q] # "Running" => loaded'[q] = None
                    /\ loaded'[q] = desired' => mounted'[q] = desired'
                    /\ mounted'[q] = desired' => configMap' \in {desired', None}
                    /\ mounted'[q] = desired' => hash' \in {desired', None}
  BY DEF ForwardInv
<1> USE DEF RolloutInv, ForwardInv, apiVars, podVars, localVars
<1>1. CASE FetchCluster
  BY <1>1 DEF FetchCluster, ReturnAndRequeue, EndReconcile
<1>2. CASE CollectAndRender
  BY <1>2 DEF CollectAndRender, ReturnAndRequeue, EndReconcile
<1>3. CASE EnsureConfigMap
  BY <1>3 DEF EnsureConfigMap, LiveInv, HashInv, Rendering
<1>4. CASE DecideReload
  BY <1>4 DEF DecideReload
<1>5. CASE \E p \in Pods : CheckPod(p)
  BY <1>5 DEF CheckPod
<1>6. CASE ReloadPod
  BY <1>6 DEF ReloadPod, TypeOK, PodTypes
<1>7. CASE EndPass
  BY <1>7 DEF EndPass
<1>8. CASE UpdateStatus
  BY <1>8, StatusWrite DEF UpdateStatus, EndReconcile, ReturnAndRequeue
<1>9. CASE ReportError
  BY <1>9, StatusWrite DEF ReportError, EndReconcile, ReturnAndRequeue
<1>10. CASE TimerFires
  BY <1>10 DEF TimerFires
<1>11. CASE RestartOperator
  BY <1>11 DEF RestartOperator, EndReconcile
<1>12. CASE \E c \in Configs : EditResources(c)
  BY <1>12, SteadyFacts, ConstantsAssumption DEF EditResources
<1>13. CASE EditServerRef
  BY <1>13, SteadyFacts DEF EditServerRef
<1>14. CASE \E c \in Hashes : ChangeConfigMap(c)
  BY <1>14, SteadyFacts DEF ChangeConfigMap
<1>15. CASE OtherEvent
  BY <1>15 DEF OtherEvent
<1>16. CASE ClusterEvent
  BY <1>16 DEF ClusterEvent
<1>17. CASE ConfigMapEvent
  BY <1>17 DEF ConfigMapEvent
<1>18. ASSUME NEW p \in Pods, PodStep(p) PROVE ForwardInv'
  <2> USE <1>18 DEF OnlyPods, TypeOK, ObjectTypes, PodTypes
  <2>1. CASE CreatePod(p)
    BY <2>1 DEF CreatePod
  <2>2. CASE MountVolume(p)
    BY <2>2, ConstantsAssumption DEF MountVolume, LiveInv, KnownInv, OutdatedInv
  <2>3. CASE StartServer(p)
    BY <2>3 DEF StartServer
  <2>4. CASE RestartServer(p)
    BY <2>4 DEF RestartServer
  <2>5. CASE SyncVolume(p)
    BY <2>5, ConstantsAssumption DEF SyncVolume, LiveInv, KnownInv, OutdatedInv
  <2>6. CASE PodCached(p)
    BY <2>6 DEF PodCached
  <2>7. CASE StopPod(p, "Absent") \/ StopPod(p, "Failed")
    BY <2>7, ConstantsAssumption DEF StopPod
  <2>8. QED
    BY <2>1, <2>2, <2>3, <2>4, <2>5, <2>6, <2>7 DEF PodStep
<1>19. CASE UNCHANGED vars
  BY <1>19 DEF vars
<1>20. QED
  BY <1>1, <1>2, <1>3, <1>4, <1>5, <1>6, <1>7, <1>8, <1>9, <1>10, <1>11, <1>12, <1>13,
     <1>14, <1>15, <1>16, <1>17, <1>18, <1>19
  DEF Next, Worker, Users

\* The initial states are initial states of the rollout.
LEMMA RolloutInit == Init => Promise!Init
BY NewClusterFields DEF Init, Promise!Init

\* A step that touches neither what is asked for, nor the ConfigMap, nor a
\* server, nor the hash in the status is invisible.
LEMMA Invisible ==
    ASSUME UNCHANGED <<desired, rendered, configMap, loaded>>,
           cluster'.lastConfigHash = cluster.lastConfigHash
    PROVE  UNCHANGED Promise!vars
BY DEF Promise!vars

\* A server that loads its volume takes a step of the rollout.
LEMMA LoadsVolume ==
    ASSUME RolloutInv, NEW p \in Pods, phase[p] \in {"Running", "Pending"}, mounted[p] # None,
           loaded' = [loaded EXCEPT ![p] = mounted[p]],
           UNCHANGED <<desired, rendered, configMap, cluster>>
    PROVE  [Promise!Next]_(Promise!vars)
<1> USE DEF RolloutInv, ForwardInv, TypeOK, ObjectTypes, PodTypes, Hashes
<1>1. mounted[p] \in Configs /\ mounted[p] \in rendered
  OBVIOUS
<1>2. CASE loaded[p] = desired
  <2>1. loaded' = loaded
    BY <1>2
  <2>2. QED
    BY <2>1, Invisible
<1>3. CASE loaded[p] # desired
  <2>1. HasServerRef /\ cluster.lastConfigHash = desired => mounted[p] = desired
    BY DEF LiveInv, TrueHashInv, Settled
  <2>2. Promise!Load(p, mounted[p])
    BY <1>1, <1>3, <2>1 DEF Promise!Load
  <2>3. QED
    BY <1>1, <2>2 DEF Promise!Next
<1>4. QED
  BY <1>2, <1>3

\* Writing the ConfigMap is publishing: what is written was asked for, and it
\* does not take the place of the desired configuration.
LEMMA EnsurePublishes ==
    ASSUME RolloutInv, EnsureConfigMap
    PROVE  [Promise!Next]_(Promise!vars)
<1>1. UNCHANGED <<desired, rendered, cluster, loaded>>
  BY DEF EnsureConfigMap, podVars
<1>2. CASE configMap' = configMap
  BY <1>1, <1>2, Invisible
<1>3. CASE configMap' # configMap
  <2>1. configMap' = hash /\ cmCached # hash /\ WriteAccepted /\ pc = "ensure"
    BY <1>3 DEF EnsureConfigMap
  <2>2. hash \in Configs /\ hash \in rendered
    BY <2>1 DEF RolloutInv, LiveInv, KnownInv, HashInv, Rendering, TypeOK, ObjectTypes, Hashes
  <2>3. configMap # desired
    BY <2>1, <2>2, ConstantsAssumption
    DEF RolloutInv, LiveInv, OutdatedInv, FreshInv, WriteAccepted, TypeOK, ObjectTypes
  <2>4. Promise!Publish(hash)
    BY <1>1, <2>1, <2>2, <2>3 DEF Promise!Publish
  <2>5. QED
    BY <2>2, <2>4 DEF Promise!Next
<1>4. QED
  BY <1>2, <1>3

\* A status update is a confirmation, or says nothing new.
LEMMA StatusConfirms ==
    ASSUME RolloutInv, UpdateStatus \/ ReportError
    PROVE  [Promise!Next]_(Promise!vars)
<1>1. /\ UNCHANGED <<desired, rendered, configMap, loaded>>
      /\ \/ cluster'.lastConfigHash = cluster.lastConfigHash
         \/ pc = "status" /\ allInSync /\ cluster'.lastConfigHash = hash
  BY StatusWrite DEF RolloutInv, podVars
<1>2. CASE cluster'.lastConfigHash = cluster.lastConfigHash
  BY <1>1, <1>2, Invisible
<1>3. CASE cluster'.lastConfigHash # cluster.lastConfigHash
  <2>1. pc = "status" /\ allInSync /\ cluster'.lastConfigHash = hash
    BY <1>1, <1>3
  <2>2. hash \in Configs /\ hash \in rendered
    BY <2>1 DEF RolloutInv, LiveInv, KnownInv, HashInv, Rendering, TypeOK, ObjectTypes, Hashes
  <2>3. cluster.lastConfigHash # desired
    BY <1>3, <2>1, <2>2, ConstantsAssumption DEF RolloutInv, LiveInv, OutdatedInv
  <2>4. configMap \in {None, hash}
    BY <2>1 DEF RolloutInv, LiveInv, HashInv, Written
  <2>5. ASSUME HasServerRef, hash = desired, NEW p \in Pods
        PROVE  loaded[p] \in {None, hash}
    <3>1. Settled(p, desired)
      BY <2>1, <2>5 DEF RolloutInv, LiveInv, VerdictInv, Judged
    <3>2. QED
      BY <2>5, <3>1 DEF RolloutInv, ForwardInv, Settled
  <2>6. Promise!Confirm(hash)
    BY <1>1, <2>1, <2>2, <2>3, <2>4, <2>5 DEF Promise!Confirm, Promise!Everywhere
  <2>7. QED
    BY <2>2, <2>6 DEF Promise!Next
<1>4. QED
  BY <1>2, <1>3

\* Every step is a step of the rollout or invisible.
LEMMA RolloutStep ==
    ASSUME Steady, RolloutInv, [Next]_vars
    PROVE  [Promise!Next]_(Promise!vars)
<1> USE DEF apiVars, podVars
<1>1. CASE FetchCluster \/ CollectAndRender
  BY <1>1, Invisible DEF FetchCluster, CollectAndRender
<1>2. CASE EnsureConfigMap
  BY <1>2, EnsurePublishes
<1>3. CASE DecideReload \/ EndPass \/ \E p \in Pods : CheckPod(p)
  BY <1>3, Invisible DEF DecideReload, EndPass, CheckPod
<1>4. CASE ReloadPod
  <2>1. UNCHANGED <<desired, rendered, configMap, cluster>> /\ target \in Pods
    BY <1>4 DEF ReloadPod, RolloutInv, LiveInv, HashInv
  <2>2. CASE loaded' = loaded
    BY <2>1, <2>2, Invisible
  <2>3. CASE loaded' # loaded
    <3>1. phase[target] = "Running" /\ loaded' = [loaded EXCEPT ![target] = mounted[target]]
      BY <1>4, <2>3 DEF ReloadPod
    <3>2. mounted[target] # None
      BY <2>1, <3>1 DEF RolloutInv, LiveInv, PodInv
    <3>3. QED
      BY <2>1, <3>1, <3>2, LoadsVolume
  <2>4. QED
    BY <2>2, <2>3
<1>5. CASE UpdateStatus \/ ReportError
  BY <1>5, StatusConfirms
<1>6. CASE TimerFires \/ RestartOperator \/ OtherEvent \/ ClusterEvent \/ ConfigMapEvent
  BY <1>6, Invisible DEF TimerFires, RestartOperator, OtherEvent, ClusterEvent, ConfigMapEvent
<1>7. ASSUME NEW c \in Configs, EditResources(c) PROVE [Promise!Next]_(Promise!vars)
  <2>1. Promise!Ask(c)
    BY <1>7, SteadyFacts DEF EditResources, Promise!Ask
  <2>2. QED
    BY <1>7, <2>1 DEF Promise!Next
<1>8. CASE EditServerRef
  BY <1>8, SteadyFacts
<1>9. ASSUME NEW c \in Hashes, ChangeConfigMap(c) PROVE [Promise!Next]_(Promise!vars)
  <2>1. Promise!Withdraw
    BY <1>9, SteadyFacts DEF ChangeConfigMap, Promise!Withdraw
  <2>2. QED
    BY <2>1 DEF Promise!Next
<1>10. ASSUME NEW p \in Pods, PodStep(p) PROVE [Promise!Next]_(Promise!vars)
  <2>1. UNCHANGED <<desired, rendered, configMap, cluster>>
    BY <1>10 DEF PodStep, CreatePod, MountVolume, StartServer, RestartServer, SyncVolume,
       PodCached, StopPod, OnlyPods
  <2>2. CASE CreatePod(p) \/ MountVolume(p) \/ SyncVolume(p) \/ PodCached(p)
    BY <2>1, <2>2, Invisible DEF CreatePod, MountVolume, SyncVolume, PodCached
  <2>3. CASE StartServer(p)
    BY <2>1, <2>3, LoadsVolume DEF StartServer
  <2>4. CASE RestartServer(p)
    BY <2>1, <2>4, LoadsVolume DEF RestartServer, RolloutInv, LiveInv, PodInv
  <2>5. CASE StopPod(p, "Absent") \/ StopPod(p, "Failed")
    <3>1. Promise!Stop(p)
      BY <2>1, <2>5 DEF StopPod, Promise!Stop
    <3>2. QED
      BY <1>10, <3>1 DEF Promise!Next
  <2>6. QED
    BY <1>10, <2>2, <2>3, <2>4, <2>5 DEF PodStep
<1>11. CASE UNCHANGED vars
  BY <1>11, Invisible DEF vars
<1>12. QED
  BY <1>1, <1>2, <1>3, <1>4, <1>5, <1>6, <1>7, <1>8, <1>9, <1>10, <1>11
  DEF Next, Worker, Users

\* In a steady environment the operator keeps the promise of Rollout: ConfigMap,
\* servers and status only ever move on to what is desired, and the status
\* (lastConfigHash, step 8 of Reconcile) never runs ahead of a server.
THEOREM PromiseKept == ASSUME Steady PROVE Spec => KeepsPromise
<1>1. Init => FreshInv /\ LiveInv /\ ForwardInv
  <2>1. Init => ForwardInv
    BY ConstantsAssumption DEF Init, ForwardInv
  <2>2. QED
    BY <2>1, LiveInit
<1>2. TypeOK /\ FreshInv /\ LiveInv /\ ForwardInv /\ [Next]_vars
         => (FreshInv /\ LiveInv /\ ForwardInv)'
  BY FreshStep, LiveStep, ForwardStep DEF RolloutInv
<1>3. TypeOK /\ FreshInv /\ LiveInv /\ ForwardInv /\ [Next]_vars
         => [Promise!Next]_(Promise!vars)
  BY RolloutStep DEF RolloutInv
<1>4. QED
  BY <1>1, <1>2, <1>3, RolloutInit, TypeCorrect, PTL DEF Spec, KeepsPromise, Promise!Spec
=============================================================================
