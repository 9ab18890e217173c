------------------------- MODULE ClusterReloadProofs -------------------------
(***************************************************************************)
(* Theorems about ClusterReload, for any set of configurations and pods    *)
(* and any bounds:                                                         *)
(*   - the type invariant;                                                 *)
(*   - NoLostWork, in every environment;                                   *)
(*   - SighupOnExpected and RestMeansLive, in the environments where       *)
(*     only the operator writes the ConfigMap's content, configurations    *)
(*     do not come back, spec.serverRef stays and the pod cache knows      *)
(*     every pod.                                                          *)
(***************************************************************************)
EXTENDS ClusterReload, TLAPS

Rendering == {"ensure", "decide", "pass", "sighup", "status"}
Written   == {"decide", "pass", "sighup", "status"}
Judged    == {"pass", "sighup", "status"}

\* Copies marked current are the current object.
FreshInv ==
    /\ cacheFresh => cached = cluster
    /\ cmFresh => cmCached = configMap
    /\ copyFresh => copy = cluster

\* Whenever what has been done falls short of what is desired, something is
\* left that leads to another reconcile.
WorkInv ==
    /\ pc = "idle" => \/ queued \/ timer \/ ~cacheFresh \/ ~cmFresh
                      \/ configMap = desired /\ cluster.lastConfigHash = desired
    /\ pc \in Rendering => queued \/ hash = desired
    /\ pc \in Written => queued \/ ~cmFresh \/ configMap = hash

\* The environments of the theorems on the pods.
Steady == Environment \cap {"revert", "serverRef", "cmEdit", "podLag"} = {}

\* Every configuration in the system was rendered before.
KnownInv ==
    /\ desired \in rendered
    /\ {configMap, cmCached, hash, cluster.lastConfigHash, cached.lastConfigHash,
        copy.lastConfigHash} \subseteq rendered \cup {None}

\* serverRef is what it was.
RefInv ==
    /\ cluster.serverRef = HasServerRef
    /\ cached.serverRef = HasServerRef
    /\ copy.serverRef = HasServerRef

\* What is known of a single pod.
PodInv ==
    \A p \in Pods : /\ phase[p] \in {"Absent", "Failed"} => mounted[p] = None
                    /\ phase[p] = "Running" => mounted[p] # None
                    /\ podSeen[p] = "Absent" => phase[p] = "Absent"

\* A reconcile at work with an outdated hash: nothing has seen the desired
\* configuration yet.
OutdatedInv ==
    hash \notin {None, desired} =>
        desired \notin {configMap, cmCached, cluster.lastConfigHash,
                        cached.lastConfigHash, copy.lastConfigHash}

\* Copies of the ConfigMap and of the status do not run ahead.
CopyInv ==
    /\ cmCached = desired => configMap \in {desired, None}
    /\ cmCached = hash /\ hash # None => configMap \in {hash, None}
    /\ cached.lastConfigHash = desired => cluster.lastConfigHash = desired
    /\ copy.lastConfigHash = desired => cluster.lastConfigHash = desired

\* While a reconcile is past step 6 the ConfigMap holds its hash.
HashInv ==
    /\ pc \in Rendering => hash # None
    /\ pc \in Written => configMap \in {hash, None}
    /\ pc = "sighup" => target \in Pods /\ mounted[target] \in {None, hash}

\* Pod p runs h, or will run it once it runs, as long as the ConfigMap holds h.
Settled(p, h) ==
    /\ phase[p] = "Running" => mounted[p] = h /\ loaded[p] = h
    /\ phase[p] = "Pending" => mounted[p] \in {None, h}

\* A status that names the desired configuration is true of every pod.
TrueHashInv ==
    HasServerRef /\ cluster.lastConfigHash = desired =>
        /\ configMap \in {desired, None}
        /\ \A p \in Pods : Settled(p, desired)

\* The verdict of a reload pass covers every pod it has looked at.
VerdictInv ==
    HasServerRef /\ pc \in Judged /\ allInSync /\ hash = desired =>
        \A p \in Pods : \/ Settled(p, desired)
                        \/ pc # "status" /\ p \in todo
                        \/ pc = "sighup" /\ p = target

LiveInv == /\ KnownInv /\ RefInv /\ PodInv /\ OutdatedInv /\ CopyInv /\ HashInv
           /\ TrueHashInv /\ VerdictInv

-----------------------------------------------------------------------------
(* Types.  Each part of TypeOK is a lemma of its own.                      *)

\* A cluster without status is a cluster.
LEMMA NewClusterType == NewCluster \in Cluster
BY ConstantsAssumption DEF NewCluster, Cluster, Hashes

\* The resources, the API objects, their copies and the hash keep their types.
LEMMA ObjectTypesStep == TypeOK /\ [Next]_vars => ObjectTypes'
<1> SUFFICES ASSUME TypeOK, [Next]_vars PROVE ObjectTypes'
  OBVIOUS
<1> USE DEF TypeOK, ObjectTypes, apiVars, localVars, Hashes
<1>1. CASE FetchCluster
  BY <1>1, NewClusterType DEF FetchCluster, ReturnAndRequeue, EndReconcile
<1>2. CASE CollectAndRender
  BY <1>2, NewClusterType DEF CollectAndRender, ReturnAndRequeue, EndReconcile
<1>3. CASE EnsureConfigMap
  BY <1>3 DEF EnsureConfigMap
<1>4. CASE DecideReload
  BY <1>4 DEF DecideReload
<1>5. CASE \E p \in Pods : CheckPod(p)
  BY <1>5 DEF CheckPod
<1>6. CASE ReloadPod
  BY <1>6 DEF ReloadPod
<1>7. CASE EndPass
  BY <1>7 DEF EndPass
<1>8. CASE UpdateStatus
  <2>1. ReconciledStatus(copy, hash, allInSync) \in Cluster
    BY DEF ReconciledStatus, Cluster
  <2>2. cluster' \in {cluster, ReconciledStatus(copy, hash, allInSync)}
    BY <1>8 DEF UpdateStatus, WriteStatus
  <2>3. /\ UNCHANGED <<desired, rendered, cached, configMap, cmCached>>
        /\ copy' = NewCluster /\ hash' = None
    BY <1>8 DEF UpdateStatus, WriteStatus, ReturnAndRequeue, EndReconcile
  <2> QED
    BY <2>1, <2>2, <2>3, NewClusterType
<1>9. CASE ReportError
  BY <1>9, NewClusterType
  DEF ReportError, ReturnAndRequeue, EndReconcile, WriteStatus, Cluster
<1>10. CASE TimerFires
  BY <1>10 DEF TimerFires
<1>11. CASE RestartOperator
  BY <1>11, NewClusterType DEF RestartOperator, EndReconcile
<1>12. CASE \E c \in Configs : EditResources(c)
  BY <1>12 DEF EditResources
<1>13. CASE EditServerRef
  <2>1. [cluster EXCEPT !.serverRef = ~@] \in Cluster
    BY Zenon DEF Cluster
  <2> QED
    BY <1>13, <2>1 DEF EditServerRef
<1>14. CASE \E c \in Hashes : ChangeConfigMap(c)
  BY <1>14 DEF ChangeConfigMap
<1>15. CASE OtherEvent
  BY <1>15 DEF OtherEvent
<1>16. CASE ClusterEvent
  BY <1>16 DEF ClusterEvent
<1>17. CASE ConfigMapEvent
  BY <1>17 DEF ConfigMapEvent
<1>18. ASSUME NEW p \in Pods, PodStep(p) PROVE ObjectTypes'
  <2>1. CASE CreatePod(p)
    BY <2>1 DEF CreatePod, OnlyPods
  <2>2. CASE MountVolume(p)
    BY <2>2 DEF MountVolume, OnlyPods
  <2>3. CASE StartServer(p)
    BY <2>3 DEF StartServer, OnlyPods
  <2>4. CASE RestartServer(p)
    BY <2>4 DEF RestartServer, OnlyPods
  <2>5. CASE SyncVolume(p)
    BY <2>5 DEF SyncVolume, OnlyPods
  <2>6. CASE PodCached(p)
    BY <2>6 DEF PodCached, OnlyPods
  <2>7. CASE StopPod(p, "Absent") \/ StopPod(p, "Failed")
    BY <2>7 DEF StopPod, OnlyPods
  <2>8. QED
    BY <1>18, <2>1, <2>2, <2>3, <2>4, <2>5, <2>6, <2>7 DEF PodStep
<1>19. CASE UNCHANGED vars
  BY <1>19 DEF vars
<1>20. QED
  BY <1>1, <1>2, <1>3, <1>4, <1>5, <1>6, <1>7, <1>8, <1>9, <1>10, <1>11, <1>12, <1>13,
     <1>14, <1>15, <1>16, <1>17, <1>18, <1>19
  DEF Next, Worker, Users

\* The pods, and what Reconcile remembers of them, keep their types.
LEMMA PodTypesStep == TypeOK /\ [Next]_vars => PodTypes'
<1> SUFFICES ASSUME TypeOK, [Next]_vars PROVE PodTypes'
  OBVIOUS
<1> USE DEF TypeOK, PodTypes, podVars, localVars, Phases, Hashes
<1>1. CASE FetchCluster
  BY <1>1 DEF FetchCluster, ReturnAndRequeue, EndReconcile
<1>2. CASE CollectAndRender
  BY <1>2 DEF CollectAndRender, ReturnAndRequeue, EndReconcile
<1>3. CASE EnsureConfigMap
  BY <1>3 DEF EnsureConfigMap
<1>4. CASE DecideReload
  BY <1>4 DEF DecideReload
<1>5. CASE \E p \in Pods : CheckPod(p)
  BY <1>5 DEF CheckPod
<1>6. CASE ReloadPod
  BY <1>6 DEF ReloadPod
<1>7. CASE EndPass
  BY <1>7 DEF EndPass
<1>8. CASE UpdateStatus
  BY <1>8 DEF UpdateStatus, ReturnAndRequeue, EndReconcile, WriteStatus
<1>9. CASE ReportError
  BY <1>9 DEF ReportError, ReturnAndRequeue, EndReconcile, WriteStatus
<1>10. CASE TimerFires
  BY <1>10 DEF TimerFires
<1>11. CASE RestartOperator
  BY <1>11 DEF RestartOperator, EndReconcile
<1>12. CASE \E c \in Configs : EditResources(c)
  BY <1>12 DEF EditResources
<1>13. CASE EditServerRef
  BY <1>13 DEF EditServerRef
<1>14. CASE \E c \in Hashes : ChangeConfigMap(c)
  BY <1>14 DEF ChangeConfigMap
<1>15. CASE OtherEvent
  BY <1>15 DEF OtherEvent
<1>16. CASE ClusterEvent
  BY <1>16 DEF ClusterEvent
<1>17. CASE ConfigMapEvent
  BY <1>17 DEF ConfigMapEvent
<1>18. ASSUME NEW p \in Pods, PodStep(p) PROVE PodTypes'
  <2>1. CASE CreatePod(p)
    BY <2>1 DEF CreatePod, OnlyPods
  <2>2. CASE MountVolume(p)
    BY <2>2 DEF MountVolume, OnlyPods, ObjectTypes
  <2>3. CASE StartServer(p)
    BY <2>3 DEF StartServer, OnlyPods
  <2>4. CASE RestartServer(p)
    BY <2>4 DEF RestartServer, OnlyPods
  <2>5. CASE SyncVolume(p)
    BY <2>5 DEF SyncVolume, OnlyPods, ObjectTypes
  <2>6. CASE PodCached(p)
    BY <2>6 DEF PodCached, OnlyPods
  <2>7. CASE StopPod(p, "Absent") \/ StopPod(p, "Failed")
    BY <2>7 DEF StopPod, OnlyPods
  <2>8. QED
    BY <1>18, <2>1, <2>2, <2>3, <2>4, <2>5, <2>6, <2>7 DEF PodStep
<1>19. CASE UNCHANGED vars
  BY <1>19 DEF vars
<1>20. QED
  BY <1>1, <1>2, <1>3, <1>4, <1>5, <1>6, <1>7, <1>8, <1>9, <1>10, <1>11, <1>12, <1>13,
     <1>14, <1>15, <1>16, <1>17, <1>18, <1>19
  DEF Next, Worker, Users

\* The flags and the program counter keep their types.
LEMMA FlagTypesStep == TypeOK /\ [Next]_vars => FlagTypes'
<1> SUFFICES ASSUME TypeOK, [Next]_vars PROVE FlagTypes'
  OBVIOUS
<1> USE DEF TypeOK, FlagTypes, apiVars, localVars
<1>1. CASE FetchCluster
  BY <1>1 DEF FetchCluster, ReturnAndRequeue, EndReconcile
<1>2. CASE CollectAndRender
  BY <1>2 DEF CollectAndRender, ReturnAndRequeue, EndReconcile
<1>3. CASE EnsureConfigMap
  BY <1>3 DEF EnsureConfigMap
<1>4. CASE DecideReload
  BY <1>4 DEF DecideReload, ListedInSync
<1>5. CASE \E p \in Pods : CheckPod(p)
  BY <1>5 DEF CheckPod
<1>6. CASE ReloadPod
  BY <1>6 DEF ReloadPod
<1>7. CASE EndPass
  BY <1>7 DEF EndPass
<1>8. CASE UpdateStatus
  BY <1>8 DEF UpdateStatus, ReturnAndRequeue, EndReconcile, WriteStatus, RequeueAfter
<1>9. CASE ReportError
  BY <1>9 DEF ReportError, ReturnAndRequeue, EndReconcile, WriteStatus
<1>10. CASE TimerFires
  BY <1>10 DEF TimerFires
<1>11. CASE RestartOperator
  BY <1>11 DEF RestartOperator, EndReconcile
<1>12. CASE \E c \in Configs : EditResources(c)
  BY <1>12 DEF EditResources
<1>13. CASE EditServerRef
  BY <1>13 DEF EditServerRef
<1>14. CASE \E c \in Hashes : ChangeConfigMap(c)
  BY <1>14 DEF ChangeConfigMap
<1>15. CASE OtherEvent
  BY <1>15 DEF OtherEvent
<1>16. CASE ClusterEvent
  BY <1>16 DEF ClusterEvent
<1>17. CASE ConfigMapEvent
  BY <1>17 DEF ConfigMapEvent
<1>18. ASSUME NEW p \in Pods, PodStep(p) PROVE FlagTypes'
  <2>1. CASE CreatePod(p)
    BY <2>1 DEF CreatePod, OnlyPods
  <2>2. CASE MountVolume(p)
    BY <2>2 DEF MountVolume, OnlyPods
  <2>3. CASE StartServer(p)
    BY <2>3 DEF StartServer, OnlyPods
  <2>4. CASE RestartServer(p)
    BY <2>4 DEF RestartServer, OnlyPods
  <2>5. CASE SyncVolume(p)
    BY <2>5 DEF SyncVolume, OnlyPods
  <2>6. CASE PodCached(p)
    BY <2>6 DEF PodCached, OnlyPods
  <2>7. CASE StopPod(p, "Absent") \/ StopPod(p, "Failed")
    BY <2>7 DEF StopPod, OnlyPods
  <2>8. QED
    BY <1>18, <2>1, <2>2, <2>3, <2>4, <2>5, <2>6, <2>7 DEF PodStep
<1>19. CASE UNCHANGED vars
  BY <1>19 DEF vars
<1>20. QED
  BY <1>1, <1>2, <1>3, <1>4, <1>5, <1>6, <1>7, <1>8, <1>9, <1>10, <1>11, <1>12, <1>13,
     <1>14, <1>15, <1>16, <1>17, <1>18, <1>19
  DEF Next, Worker, Users

\* The counters keep within their bounds.
LEMMA BoundTypesStep == TypeOK /\ [Next]_vars => BoundTypes'
<1> SUFFICES ASSUME TypeOK, [Next]_vars PROVE BoundTypes'
  OBVIOUS
<1> USE DEF TypeOK, BoundTypes, apiVars
<1>1. CASE FetchCluster
  BY <1>1, ConstantsAssumption DEF FetchCluster, Fault
<1>2. CASE CollectAndRender
  BY <1>2, ConstantsAssumption DEF CollectAndRender, Fault
<1>3. CASE EnsureConfigMap
  BY <1>3, ConstantsAssumption DEF EnsureConfigMap, Fault
<1>4. CASE DecideReload
  BY <1>4, ConstantsAssumption DEF DecideReload, Fault
<1>5. CASE \E p \in Pods : CheckPod(p)
  BY <1>5, ConstantsAssumption DEF CheckPod, Fault
<1>6. CASE ReloadPod
  BY <1>6, ConstantsAssumption DEF ReloadPod, Fault
<1>7. CASE EndPass
  BY <1>7 DEF EndPass
<1>8. CASE UpdateStatus
  BY <1>8, ConstantsAssumption DEF UpdateStatus, Fault
<1>9. CASE ReportError
  BY <1>9, ConstantsAssumption DEF ReportError, Fault
<1>10. CASE TimerFires
  BY <1>10 DEF TimerFires
<1>11. CASE RestartOperator
  BY <1>11, ConstantsAssumption DEF RestartOperator, Fault
<1>12. CASE \E c \in Configs : EditResources(c)
  BY <1>12, ConstantsAssumption DEF EditResources, Upset
<1>13. CASE EditServerRef
  BY <1>13, ConstantsAssumption DEF EditServerRef, Upset
<1>14. CASE \E c \in Hashes : ChangeConfigMap(c)
  BY <1>14, ConstantsAssumption DEF ChangeConfigMap, Upset
<1>15. CASE OtherEvent
  BY <1>15 DEF OtherEvent
<1>16. CASE ClusterEvent
  BY <1>16 DEF ClusterEvent
<1>17. CASE ConfigMapEvent
  BY <1>17 DEF ConfigMapEvent
<1>18. ASSUME NEW p \in Pods, PodStep(p) PROVE BoundTypes'
  <2>1. CASE CreatePod(p)
    BY <2>1 DEF CreatePod, OnlyPods
  <2>2. CASE MountVolume(p)
    BY <2>2 DEF MountVolume, OnlyPods
  <2>3. CASE StartServer(p)
    BY <2>3 DEF StartServer, OnlyPods
  <2>4. CASE RestartServer(p)
    BY <2>4, ConstantsAssumption DEF RestartServer, OnlyPods, Upset
  <2>5. CASE SyncVolume(p)
    BY <2>5 DEF SyncVolume, OnlyPods
  <2>6. CASE PodCached(p)
    BY <2>6 DEF PodCached, OnlyPods
  <2>7. CASE StopPod(p, "Absent") \/ StopPod(p, "Failed")
    BY <2>7, ConstantsAssumption DEF StopPod, OnlyPods, Upset
  <2>8. QED
    BY <1>18, <2>1, <2>2, <2>3, <2>4, <2>5, <2>6, <2>7 DEF PodStep
<1>19. CASE UNCHANGED vars
  BY <1>19 DEF vars
<1>20. QED
  BY <1>1, <1>2, <1>3, <1>4, <1>5, <1>6, <1>7, <1>8, <1>9, <1>10, <1>11, <1>12, <1>13,
     <1>14, <1>15, <1>16, <1>17, <1>18, <1>19
  DEF Next, Worker, Users

\* Every variable keeps its type, whatever the operator, the pods and the
\* users do.
THEOREM TypeCorrect == Spec => []TypeOK
<1>1. Init => TypeOK
  <2> SUFFICES ASSUME Init PROVE TypeOK
    OBVIOUS
  <2>1. ObjectTypes
    BY NewClusterType DEF Init, ObjectTypes, Hashes
  <2>2. PodTypes
    BY DEF Init, PodTypes, Phases, Hashes
  <2>3. FlagTypes
    BY DEF Init, FlagTypes
  <2>4. BoundTypes
    BY ConstantsAssumption DEF Init, BoundTypes
  <2>5. QED
    BY <2>1, <2>2, <2>3, <2>4 DEF TypeOK
<1>2. TypeOK /\ [Next]_vars => TypeOK'
  BY ObjectTypesStep, PodTypesStep, FlagTypesStep, BoundTypesStep DEF TypeOK
<1>3. QED
  BY <1>1, <1>2, PTL DEF Spec

-----------------------------------------------------------------------------
(* No lost work.                                                           *)

\* A copy marked current follows the object, or loses the mark.
LEMMA FreshStep ==
    FreshInv /\ [Next]_vars => FreshInv'
<1> SUFFICES ASSUME FreshInv, [Next]_vars PROVE FreshInv'
  OBVIOUS
<1> USE DEF FreshInv, apiVars, localVars
<1>1. CASE FetchCluster
  BY <1>1 DEF FetchCluster, ReturnAndRequeue, EndReconcile
<1>2. CASE CollectAndRender
  BY <1>2 DEF CollectAndRender, ReturnAndRequeue, EndReconcile
<1>3. CASE EnsureConfigMap
  BY <1>3 DEF EnsureConfigMap
<1>4. CASE DecideReload
  BY <1>4 DEF DecideReload
<1>5. CASE \E p \in Pods : CheckPod(p)
  BY <1>5 DEF CheckPod
<1>6. CASE ReloadPod
  BY <1>6 DEF ReloadPod
<1>7. CASE EndPass
  BY <1>7 DEF EndPass
<1>8. CASE UpdateStatus
  BY <1>8 DEF UpdateStatus, ReturnAndRequeue, EndReconcile, WriteStatus
<1>9. CASE ReportError
  BY <1>9 DEF ReportError, ReturnAndRequeue, EndReconcile, WriteStatus
<1>10. CASE TimerFires
  BY <1>10 DEF TimerFires
<1>11. CASE RestartOperator
  BY <1>11 DEF RestartOperator, EndReconcile
<1>12. CASE \E c \in Configs : EditResources(c)
  BY <1>12 DEF EditResources
<1>13. CASE EditServerRef
  BY <1>13 DEF EditServerRef
<1>14. CASE \E c \in Hashes : ChangeConfigMap(c)
  BY <1>14 DEF ChangeConfigMap
<1>15. CASE OtherEvent
  BY <1>15 DEF OtherEvent
<1>16. CASE ClusterEvent
  BY <1>16 DEF ClusterEvent
<1>17. CASE ConfigMapEvent
  BY <1>17 DEF ConfigMapEvent
<1>18. ASSUME NEW p \in Pods, PodStep(p) PROVE FreshInv'
  BY <1>18
  DEF PodStep, CreatePod, MountVolume, StartServer, RestartServer, SyncVolume,
      PodCached, StopPod, OnlyPods
<1>19. CASE UNCHANGED vars
  BY <1>19 DEF vars
<1>20. QED
  BY <1>1, <1>2, <1>3, <1>4, <1>5, <1>6, <1>7, <1>8, <1>9, <1>10, <1>11, <1>12, <1>13,
     <1>14, <1>15, <1>16, <1>17, <1>18, <1>19
  DEF Next, Worker, Users

\* Every step that leaves something undone leaves a reason to come back:
\* an event on the way, a delayed requeue, or the key in the queue.
LEMMA WorkStep ==
    TypeOK /\ FreshInv /\ WorkInv /\ [Next]_vars => WorkInv'
<1> SUFFICES ASSUME TypeOK, FreshInv, WorkInv, [Next]_vars PROVE WorkInv'
  OBVIOUS
<1> USE DEF WorkInv, Rendering, Written, apiVars, localVars
<1>1. CASE FetchCluster
  BY <1>1 DEF FetchCluster, ReturnAndRequeue, EndReconcile
<1>2. CASE CollectAndRender
  BY <1>2 DEF CollectAndRender, ReturnAndRequeue, EndReconcile
<1>3. CASE EnsureConfigMap
  BY <1>3 DEF EnsureConfigMap, FreshInv
<1>4. CASE DecideReload
  BY <1>4 DEF DecideReload
<1>5. CASE \E p \in Pods : CheckPod(p)
  BY <1>5 DEF CheckPod
<1>6. CASE ReloadPod
  BY <1>6 DEF ReloadPod
<1>7. CASE EndPass
  BY <1>7 DEF EndPass
<1>8. CASE UpdateStatus
  <2>1. CASE ~copyFresh /\ ReturnAndRequeue
    BY <1>8, <2>1 DEF UpdateStatus, ReturnAndRequeue, EndReconcile
  <2>2. CASE Fault /\ ReturnAndRequeue
    BY <1>8, <2>2 DEF UpdateStatus, ReturnAndRequeue, EndReconcile
  <2>3. CASE /\ WriteStatus(ReconciledStatus(copy, hash, allInSync))
             /\ EndReconcile /\ timer' = (timer \/ RequeueAfter)
    <3>1. timer' \/ allInSync
      BY <2>3 DEF RequeueAfter
    <3>2. allInSync => cluster'.lastConfigHash = hash
      BY <2>3 DEF WriteStatus, ReconciledStatus, TypeOK, ObjectTypes, Cluster
    <3>3. QED
      BY <1>8, <2>3, <3>1, <3>2 DEF UpdateStatus, WriteStatus, EndReconcile
  <2>4. QED
    BY <1>8, <2>1, <2>2, <2>3 DEF UpdateStatus
<1>9. CASE ReportError
  BY <1>9 DEF ReportError, ReturnAndRequeue, EndReconcile, WriteStatus
<1>10. CASE TimerFires
  BY <1>10 DEF TimerFires
<1>11. CASE RestartOperator
  BY <1>11 DEF RestartOperator, EndReconcile
<1>12. CASE \E c \in Configs : EditResources(c)
  BY <1>12 DEF EditResources
<1>13. CASE EditServerRef
  BY <1>13 DEF EditServerRef
<1>14. CASE \E c \in Hashes : ChangeConfigMap(c)
  BY <1>14 DEF ChangeConfigMap
<1>15. CASE OtherEvent
  BY <1>15 DEF OtherEvent
<1>16. CASE ClusterEvent
  BY <1>16 DEF ClusterEvent
<1>17. CASE ConfigMapEvent
  BY <1>17 DEF ConfigMapEvent
<1>18. ASSUME NEW p \in Pods, PodStep(p) PROVE WorkInv'
  BY <1>18
  DEF PodStep, CreatePod, MountVolume, StartServer, RestartServer, SyncVolume,
      PodCached, StopPod, OnlyPods
<1>19. CASE UNCHANGED vars
  BY <1>19 DEF vars
<1>20. QED
  BY <1>1, <1>2, <1>3, <1>4, <1>5, <1>6, <1>7, <1>8, <1>9, <1>10, <1>11, <1>12, <1>13,
     <1>14, <1>15, <1>16, <1>17, <1>18, <1>19
  DEF Next, Worker, Users

\* When the operator has come to rest, the ConfigMap and the status are those
\* of the desired configuration, in every environment.
THEOREM NothingLost == Spec => []NoLostWork
<1>1. Init => FreshInv /\ WorkInv
  BY DEF Init, FreshInv, WorkInv, Rendering, Written
<1>2. TypeOK /\ FreshInv /\ WorkInv /\ [Next]_vars => (FreshInv /\ WorkInv)'
  BY FreshStep, WorkStep
<1>3. WorkInv => NoLostWork
  BY DEF WorkInv, NoLostWork, Quiescent
<1>4. QED
  BY <1>1, <1>2, <1>3, TypeCorrect, PTL DEF Spec

-----------------------------------------------------------------------------
(* The pods run what the status says.                                      *)

\* What a steady environment rules out.
LEMMA SteadyFacts ==
    Steady => /\ \A c \in Configs : EditResources(c) => c \notin rendered
              /\ ~EditServerRef
              /\ \A c \in Hashes : ChangeConfigMap(c) => c = None
              /\ "podLag" \notin Environment
BY DEF Steady, EditResources, EditServerRef, ChangeConfigMap

\* The fields of a cluster without status.
LEMMA NewClusterFields ==
    NewCluster.lastConfigHash = None /\ NewCluster.serverRef = HasServerRef
BY DEF NewCluster

\* What a status write of the operator does to the object.
LEMMA StatusWrite ==
    ASSUME TypeOK, FreshInv, UpdateStatus \/ ReportError
    PROVE  /\ cluster'.serverRef = cluster.serverRef
           /\ \/ cluster'.lastConfigHash = cluster.lastConfigHash
              \/ pc = "status" /\ allInSync /\ cluster'.lastConfigHash = hash
           /\ UNCHANGED <<desired, rendered, cached, configMap, cmCached, podVars>>
           /\ pc' = "idle" /\ hash' = None /\ copy' = NewCluster
<1> USE DEF TypeOK, ObjectTypes, Cluster, FreshInv, WriteStatus, EndReconcile,
            ReturnAndRequeue, apiVars
<1>1. CASE UpdateStatus
  BY <1>1 DEF UpdateStatus, ReconciledStatus
<1>2. CASE ReportError
  BY <1>2 DEF ReportError
<1>3. QED
  BY <1>1, <1>2

\* A configuration gets anywhere only after it was rendered.
LEMMA KnownStep ==
    ASSUME TypeOK, FreshInv, Steady, KnownInv, [Next]_vars
    PROVE  KnownInv'
<1> USE DEF KnownInv, apiVars, localVars
<1>1. CASE FetchCluster
  BY <1>1, NewClusterFields DEF FetchCluster, ReturnAndRequeue, EndReconcile
<1>2. CASE CollectAndRender
  BY <1>2, NewClusterFields DEF CollectAndRender, ReturnAndRequeue, EndReconcile
<1>3. CASE EnsureConfigMap
  BY <1>3 DEF EnsureConfigMap
<1>4. CASE DecideReload
  BY <1>4 DEF DecideReload
<1>5. CASE \E p \in Pods : CheckPod(p)
  BY <1>5 DEF CheckPod
<1>6. CASE ReloadPod
  BY <1>6 DEF ReloadPod
<1>7. CASE EndPass
  BY <1>7 DEF EndPass
<1>8. CASE UpdateStatus
  BY <1>8, NewClusterFields, StatusWrite DEF UpdateStatus
<1>9. CASE ReportError
  BY <1>9, NewClusterFields, StatusWrite DEF ReportError
<1>10. CASE TimerFires
  BY <1>10 DEF TimerFires
<1>11. CASE RestartOperator
  BY <1>11, NewClusterFields DEF RestartOperator, EndReconcile
<1>12. CASE \E c \in Configs : EditResources(c)
  BY <1>12, SteadyFacts, ConstantsAssumption DEF EditResources
<1>13. CASE EditServerRef
  BY <1>13, SteadyFacts DEF EditServerRef
<1>14. CASE \E c \in Hashes : ChangeConfigMap(c)
  BY <1>14, SteadyFacts DEF ChangeConfigMap
<1>15. CASE OtherEvent
  BY <1>15 DEF OtherEvent
<1>16. CASE ClusterEvent
  BY <1>16 DEF ClusterEvent
<1>17. CASE ConfigMapEvent
  BY <1>17 DEF ConfigMapEvent
<1>18. ASSUME NEW p \in Pods, PodStep(p) PROVE KnownInv'
  BY <1>18
  DEF PodStep, CreatePod, MountVolume, StartServer, RestartServer, SyncVolume,
      PodCached, StopPod, OnlyPods
<1>19. CASE UNCHANGED vars
  BY <1>19 DEF vars
<1>20. QED
  BY <1>1, <1>2, <1>3, <1>4, <1>5, <1>6, <1>7, <1>8, <1>9, <1>10, <1>11, <1>12, <1>13,
     <1>14, <1>15, <1>16, <1>17, <1>18, <1>19
  DEF Next, Worker, Users

\* Nobody changes spec.serverRef.
LEMMA RefStep ==
    ASSUME TypeOK, FreshInv, Steady, RefInv, [Next]_vars
    PROVE  RefInv'
<1> USE DEF RefInv, apiVars, localVars
<1>1. CASE FetchCluster
  BY <1>1, NewClusterFields DEF FetchCluster, ReturnAndRequeue, EndReconcile
<1>2. CASE CollectAndRender
  BY <1>2, NewClusterFields DEF CollectAndRender, ReturnAndRequeue, EndReconcile
<1>3. CASE EnsureConfigMap
  BY <1>3 DEF EnsureConfigMap
<1>4. CASE DecideReload
  BY <1>4 DEF DecideReload
<1>5. CASE \E p \in Pods : CheckPod(p)
  BY <1>5 DEF CheckPod
<1>6. CASE ReloadPod
  BY <1>6 DEF ReloadPod
<1>7. CASE EndPass
  BY <1>7 DEF EndPass
<1>8. CASE UpdateStatus
  BY <1>8, NewClusterFields, StatusWrite DEF UpdateStatus
<1>9. CASE ReportError
  BY <1>9, NewClusterFields, StatusWrite DEF ReportError
<1>10. CASE TimerFires
  BY <1>10 DEF TimerFires
<1>11. CASE RestartOperator
  BY <1>11, NewClusterFields DEF RestartOperator, EndReconcile
<1>12. CASE \E c \in Configs : EditResources(c)
  BY <1>12, SteadyFacts, ConstantsAssumption DEF EditResources
<1>13. CASE EditServerRef
  BY <1>13, SteadyFacts DEF EditServerRef
<1>14. CASE \E c \in Hashes : ChangeConfigMap(c)
  BY <1>14, SteadyFacts DEF ChangeConfigMap
<1>15. CASE OtherEvent
  BY <1>15 DEF OtherEvent
<1>16. CASE ClusterEvent
  BY <1>16 DEF ClusterEvent
<1>17. CASE ConfigMapEvent
  BY <1>17 DEF ConfigMapEvent
<1>18. ASSUME NEW p \in Pods, PodStep(p) PROVE RefInv'
  BY <1>18
  DEF PodStep, CreatePod, MountVolume, StartServer, RestartServer, SyncVolume,
      PodCached, StopPod, OnlyPods
<1>19. CASE UNCHANGED vars
  BY <1>19 DEF vars
<1>20. QED
  BY <1>1, <1>2, <1>3, <1>4, <1>5, <1>6, <1>7, <1>8, <1>9, <1>10, <1>11, <1>12, <1>13,
     <1>14, <1>15, <1>16, <1>17, <1>18, <1>19
  DEF Next, Worker, Users

\* The kubelet's protocol for a pod, and the pod cache's view of it.
LEMMA PodInvStep ==
    ASSUME TypeOK, FreshInv, Steady, PodInv, [Next]_vars
    PROVE  PodInv'
<1> USE DEF PodInv, podVars, TypeOK, PodTypes, Phases, Hashes
<1>1. CASE FetchCluster
  BY <1>1 DEF FetchCluster, ReturnAndRequeue, EndReconcile
<1>2. CASE CollectAndRender
  BY <1>2 DEF CollectAndRender, ReturnAndRequeue, EndReconcile
<1>3. CASE EnsureConfigMap
  BY <1>3 DEF EnsureConfigMap
<1>4. CASE DecideReload
  BY <1>4 DEF DecideReload
<1>5. CASE \E p \in Pods : CheckPod(p)
  BY <1>5 DEF CheckPod
<1>6. CASE ReloadPod
  BY <1>6 DEF ReloadPod
<1>7. CASE EndPass
  BY <1>7 DEF EndPass
<1>8. CASE UpdateStatus
  BY <1>8, StatusWrite DEF UpdateStatus
<1>9. CASE ReportError
  BY <1>9, StatusWrite DEF ReportError
<1>10. CASE TimerFires
  BY <1>10 DEF TimerFires
<1>11. CASE RestartOperator
  BY <1>11 DEF RestartOperator, EndReconcile
<1>12. CASE \E c \in Configs : EditResources(c)
  BY <1>12, SteadyFacts, ConstantsAssumption DEF EditResources
<1>13. CASE EditServerRef
  BY <1>13, SteadyFacts DEF EditServerRef
<1>14. CASE \E c \in Hashes : ChangeConfigMap(c)
  BY <1>14, SteadyFacts DEF ChangeConfigMap
<1>15. CASE OtherEvent
  BY <1>15 DEF OtherEvent
<1>16. CASE ClusterEvent
  BY <1>16 DEF ClusterEvent
<1>17. CASE ConfigMapEvent
  BY <1>17 DEF ConfigMapEvent
<1>18. ASSUME NEW p \in Pods, PodStep(p) PROVE PodInv'
  <2>1. CASE CreatePod(p)
    BY <2>1, SteadyFacts DEF CreatePod, OnlyPods
  <2>2. CASE MountVolume(p)
    BY <2>2 DEF MountVolume, OnlyPods
  <2>3. CASE StartServer(p)
    BY <2>3 DEF StartServer, OnlyPods
  <2>4. CASE RestartServer(p)
    BY <2>4 DEF RestartServer, OnlyPods
  <2>5. CASE SyncVolume(p)
    BY <2>5 DEF SyncVolume, OnlyPods
  <2>6. CASE PodCached(p)
    BY <2>6 DEF PodCached, OnlyPods
  <2>7. CASE StopPod(p, "Absent") \/ StopPod(p, "Failed")
    BY <2>7 DEF StopPod, OnlyPods
  <2>8. QED
    BY <1>18, <2>1, <2>2, <2>3, <2>4, <2>5, <2>6, <2>7 DEF PodStep
<1>19. CASE UNCHANGED vars
  BY <1>19 DEF vars
<1>20. QED
  BY <1>1, <1>2, <1>3, <1>4, <1>5, <1>6, <1>7, <1>8, <1>9, <1>10, <1>11, <1>12, <1>13,
     <1>14, <1>15, <1>16, <1>17, <1>18, <1>19
  DEF Next, Worker, Users

\* A fresh configuration is unknown until a reconcile collects it.
LEMMA OutdatedStep ==
    ASSUME TypeOK, FreshInv, Steady, KnownInv, OutdatedInv, [Next]_vars
    PROVE  OutdatedInv'
<1> USE DEF OutdatedInv, apiVars, localVars
<1>1. CASE FetchCluster
  BY <1>1, NewClusterFields DEF FetchCluster, ReturnAndRequeue, EndReconcile
<1>2. CASE CollectAndRender
  BY <1>2, NewClusterFields DEF CollectAndRender, ReturnAndRequeue, EndReconcile
<1>3. CASE EnsureConfigMap
  BY <1>3 DEF EnsureConfigMap
<1>4. CASE DecideReload
  BY <1>4 DEF DecideReload
<1>5. CASE \E p \in Pods : CheckPod(p)
  BY <1>5 DEF CheckPod
<1>6. CASE ReloadPod
  BY <1>6 DEF ReloadPod
<1>7. CASE EndPass
  BY <1>7 DEF EndPass
<1>8. CASE UpdateStatus
  BY <1>8, NewClusterFields, StatusWrite DEF UpdateStatus
<1>9. CASE ReportError
  BY <1>9, NewClusterFields, StatusWrite DEF ReportError
<1>10. CASE TimerFires
  BY <1>10 DEF TimerFires
<1>11. CASE RestartOperator
  BY <1>11, NewClusterFields DEF RestartOperator, EndReconcile
<1>12. CASE \E c \in Configs : EditResources(c)
  BY <1>12, SteadyFacts, ConstantsAssumption DEF EditResources, KnownInv
<1>13. CASE EditServerRef
  BY <1>13, SteadyFacts DEF EditServerRef
<1>14. CASE \E c \in Hashes : ChangeConfigMap(c)
  BY <1>14, SteadyFacts, ConstantsAssumption DEF ChangeConfigMap, TypeOK, ObjectTypes
<1>15. CASE OtherEvent
  BY <1>15 DEF OtherEvent
<1>16. CASE ClusterEvent
  BY <1>16 DEF ClusterEvent
<1>17. CASE ConfigMapEvent
  BY <1>17 DEF ConfigMapEvent
<1>18. ASSUME NEW p \in Pods, PodStep(p) PROVE OutdatedInv'
  BY <1>18
  DEF PodStep, CreatePod, MountVolume, StartServer, RestartServer, SyncVolume,
      PodCached, StopPod, OnlyPods
<1>19. CASE UNCHANGED vars
  BY <1>19 DEF vars
<1>20. QED
  BY <1>1, <1>2, <1>3, <1>4, <1>5, <1>6, <1>7, <1>8, <1>9, <1>10, <1>11, <1>12, <1>13,
     <1>14, <1>15, <1>16, <1>17, <1>18, <1>19
  DEF Next, Worker, Users

\* A copy that shows the desired configuration is not contradicted.
LEMMA CopyStep ==
    ASSUME TypeOK, FreshInv, Steady, KnownInv, OutdatedInv, HashInv, CopyInv, [Next]_vars
    PROVE  CopyInv'
<1> USE DEF CopyInv, apiVars, localVars
<1>1. CASE FetchCluster
  BY <1>1, NewClusterFields, ConstantsAssumption
  DEF FetchCluster, ReturnAndRequeue, EndReconcile, TypeOK, ObjectTypes
<1>2. CASE CollectAndRender
  BY <1>2, NewClusterFields, ConstantsAssumption
  DEF CollectAndRender, ReturnAndRequeue, EndReconcile, TypeOK, ObjectTypes
<1>3. CASE EnsureConfigMap
  BY <1>3 DEF EnsureConfigMap, OutdatedInv, HashInv, Rendering
<1>4. CASE DecideReload
  BY <1>4 DEF DecideReload
<1>5. CASE \E p \in Pods : CheckPod(p)
  BY <1>5 DEF CheckPod
<1>6. CASE ReloadPod
  BY <1>6 DEF ReloadPod
<1>7. CASE EndPass
  BY <1>7 DEF EndPass
<1>8. CASE UpdateStatus
  BY <1>8, NewClusterFields, StatusWrite, ConstantsAssumption
  DEF UpdateStatus, OutdatedInv, HashInv, Rendering, TypeOK, ObjectTypes
<1>9. CASE ReportError
  BY <1>9, NewClusterFields, StatusWrite, ConstantsAssumption
  DEF ReportError, TypeOK, ObjectTypes
<1>10. CASE TimerFires
  BY <1>10 DEF TimerFires
<1>11. CASE RestartOperator
  BY <1>11, NewClusterFields, ConstantsAssumption
  DEF RestartOperator, EndReconcile, TypeOK, ObjectTypes
<1>12. CASE \E c \in Configs : EditResources(c)
  BY <1>12, SteadyFacts, ConstantsAssumption DEF EditResources, KnownInv
<1>13. CASE EditServerRef
  BY <1>13, SteadyFacts DEF EditServerRef
<1>14. CASE \E c \in Hashes : ChangeConfigMap(c)
  BY <1>14, SteadyFacts DEF ChangeConfigMap, TypeOK, ObjectTypes
<1>15. CASE OtherEvent
  BY <1>15 DEF OtherEvent
<1>16. CASE ClusterEvent
  BY <1>16 DEF ClusterEvent
<1>17. CASE ConfigMapEvent
  BY <1>17 DEF ConfigMapEvent
<1>18. ASSUME NEW p \in Pods, PodStep(p) PROVE CopyInv'
  BY <1>18
  DEF PodStep, CreatePod, MountVolume, StartServer, RestartServer, SyncVolume,
      PodCached, StopPod, OnlyPods
<1>19. CASE UNCHANGED vars
  BY <1>19 DEF vars
<1>20. QED
  BY <1>1, <1>2, <1>3, <1>4, <1>5, <1>6, <1>7, <1>8, <1>9, <1>10, <1>11, <1>12, <1>13,
     <1>14, <1>15, <1>16, <1>17, <1>18, <1>19
  DEF Next, Worker, Users

\* From step 6 on the ConfigMap, and a pod about to be signalled, hold the hash.
LEMMA HashStep ==
    ASSUME TypeOK, FreshInv, Steady, CopyInv, PodInv, HashInv, [Next]_vars
    PROVE  HashInv'
<1> USE DEF HashInv, Rendering, Written, apiVars, podVars, localVars, TypeOK, PodTypes
<1>1. CASE FetchCluster
  BY <1>1 DEF FetchCluster, ReturnAndRequeue, EndReconcile
<1>2. CASE CollectAndRender
  BY <1>2, ConstantsAssumption
  DEF CollectAndRender, ReturnAndRequeue, EndReconcile, ObjectTypes
<1>3. CASE EnsureConfigMap
  BY <1>3 DEF EnsureConfigMap, CopyInv
<1>4. CASE DecideReload
  BY <1>4 DEF DecideReload
<1>5. CASE \E p \in Pods : CheckPod(p)
  BY <1>5 DEF CheckPod, ConfigIsCurrent
<1>6. CASE ReloadPod
  BY <1>6 DEF ReloadPod
<1>7. CASE EndPass
  BY <1>7 DEF EndPass
<1>8. CASE UpdateStatus
  BY <1>8, StatusWrite DEF UpdateStatus
<1>9. CASE ReportError
  BY <1>9, StatusWrite DEF ReportError
<1>10. CASE TimerFires
  BY <1>10 DEF TimerFires
<1>11. CASE RestartOperator
  BY <1>11 DEF RestartOperator, EndReconcile
<1>12. CASE \E c \in Configs : EditResources(c)
  BY <1>12, SteadyFacts, ConstantsAssumption DEF EditResources
<1>13. CASE EditServerRef
  BY <1>13, SteadyFacts DEF EditServerRef
<1>14. CASE \E c \in Hashes : ChangeConfigMap(c)
  BY <1>14, SteadyFacts DEF ChangeConfigMap
<1>15. CASE OtherEvent
  BY <1>15 DEF OtherEvent
<1>16. CASE ClusterEvent
  BY <1>16 DEF ClusterEvent
<1>17. CASE ConfigMapEvent
  BY <1>17 DEF ConfigMapEvent
<1>18. ASSUME NEW p \in Pods, PodStep(p) PROVE HashInv'
  <2>1. CASE CreatePod(p)
    BY <2>1, SteadyFacts DEF CreatePod, OnlyPods
  <2>2. CASE MountVolume(p)
    BY <2>2 DEF MountVolume, OnlyPods
  <2>3. CASE StartServer(p)
    BY <2>3 DEF StartServer, OnlyPods
  <2>4. CASE RestartServer(p)
    BY <2>4 DEF RestartServer, OnlyPods
  <2>5. CASE SyncVolume(p)
    BY <2>5 DEF SyncVolume, OnlyPods
  <2>6. CASE PodCached(p)
    BY <2>6 DEF PodCached, OnlyPods
  <2>7. CASE StopPod(p, "Absent") \/ StopPod(p, "Failed")
    BY <2>7 DEF StopPod, OnlyPods
  <2>8. QED
    BY <1>18, <2>1, <2>2, <2>3, <2>4, <2>5, <2>6, <2>7 DEF PodStep
<1>19. CASE UNCHANGED vars
  BY <1>19 DEF vars
<1>20. QED
  BY <1>1, <1>2, <1>3, <1>4, <1>5, <1>6, <1>7, <1>8, <1>9, <1>10, <1>11, <1>12, <1>13,
     <1>14, <1>15, <1>16, <1>17, <1>18, <1>19
  DEF Next, Worker, Users

\* While the ConfigMap holds h, or nothing, no step of a pod and no SIGHUP
\* takes a settled pod away from h.
LEMMA SettledKept ==
    ASSUME TypeOK, PodInv, NEW h \in Hashes, configMap \in {h, None}, NEW q \in Pods,
        Settled(q, h),
           ReloadPod \/ \E p \in Pods : PodStep(p)
    PROVE  Settled(q, h)'
<1> USE DEF Settled, TypeOK, PodTypes, Phases
<1>1. CASE ReloadPod
  BY <1>1 DEF ReloadPod
<1>2. ASSUME NEW p \in Pods, PodStep(p) PROVE Settled(q, h)'
  <2>1. CASE CreatePod(p)
    BY <2>1 DEF CreatePod, PodInv
  <2>2. CASE MountVolume(p)
    BY <2>2 DEF MountVolume
  <2>3. CASE StartServer(p)
    BY <2>3 DEF StartServer
  <2>4. CASE RestartServer(p)
    BY <2>4 DEF RestartServer
  <2>5. CASE SyncVolume(p)
    BY <2>5 DEF SyncVolume
  <2>6. CASE PodCached(p)
    BY <2>6 DEF PodCached
  <2>7. CASE StopPod(p, "Absent") \/ StopPod(p, "Failed")
    BY <2>7 DEF StopPod
  <2>8. QED
    BY <1>2, <2>1, <2>2, <2>3, <2>4, <2>5, <2>6, <2>7 DEF PodStep
<1>3. QED
  BY <1>1, <1>2

\* The status names the desired configuration only while every pod is settled
\* on it: it is set by a reload pass with a clean verdict, and then only fresh
\* configurations could unsettle a pod.
LEMMA TrueHashStep ==
    ASSUME TypeOK, FreshInv, Steady, KnownInv, PodInv, OutdatedInv, HashInv,
        VerdictInv, TrueHashInv, [Next]_vars
    PROVE  TrueHashInv'
<1> USE DEF TrueHashInv, Settled, apiVars, podVars
<1>1. CASE FetchCluster
  BY <1>1 DEF FetchCluster, ReturnAndRequeue, EndReconcile
<1>2. CASE CollectAndRender
  BY <1>2 DEF CollectAndRender, ReturnAndRequeue, EndReconcile
<1>3. CASE EnsureConfigMap
  BY <1>3 DEF EnsureConfigMap, OutdatedInv, HashInv, Rendering
<1>4. CASE DecideReload
  BY <1>4 DEF DecideReload
<1>5. CASE \E p \in Pods : CheckPod(p)
  BY <1>5 DEF CheckPod
<1>6. CASE ReloadPod
  BY <1>6, SettledKept DEF ReloadPod, TypeOK, ObjectTypes, Hashes
<1>7. CASE EndPass
  BY <1>7 DEF EndPass
<1>8. CASE UpdateStatus
  BY <1>8, StatusWrite DEF UpdateStatus, VerdictInv, HashInv, Judged, Written
<1>9. CASE ReportError
  BY <1>9, StatusWrite DEF ReportError
<1>10. CASE TimerFires
  BY <1>10 DEF TimerFires
<1>11. CASE RestartOperator
  BY <1>11 DEF RestartOperator, EndReconcile
<1>12. CASE \E c \in Configs : EditResources(c)
  BY <1>12, SteadyFacts, ConstantsAssumption DEF EditResources, KnownInv
<1>13. CASE EditServerRef
  BY <1>13, SteadyFacts DEF EditServerRef
<1>14. CASE \E c \in Hashes : ChangeConfigMap(c)
  BY <1>14, SteadyFacts DEF ChangeConfigMap
<1>15. CASE OtherEvent
  BY <1>15 DEF OtherEvent
<1>16. CASE ClusterEvent
  BY <1>16 DEF ClusterEvent
<1>17. CASE ConfigMapEvent
  BY <1>17 DEF ConfigMapEvent
<1>18. ASSUME NEW p \in Pods, PodStep(p) PROVE TrueHashInv'
  <2>1. UNCHANGED <<desired, cluster, configMap>>
    BY <1>18 DEF PodStep, CreatePod, MountVolume, StartServer, RestartServer,
       SyncVolume, PodCached, StopPod, OnlyPods
  <2>2. QED
    BY <1>18, <2>1, SettledKept DEF TypeOK, ObjectTypes, Hashes
<1>19. CASE UNCHANGED vars
  BY <1>19 DEF vars
<1>20. QED
  BY <1>1, <1>2, <1>3, <1>4, <1>5, <1>6, <1>7, <1>8, <1>9, <1>10, <1>11, <1>12, <1>13,
     <1>14, <1>15, <1>16, <1>17, <1>18, <1>19
  DEF Next, Worker, Users

\* Until the status is written, a pod that the pass has confirmed stays
\* settled, and a pod that the list did not have can only start on the hash.
LEMMA VerdictStep ==
    ASSUME TypeOK, FreshInv, Steady, KnownInv, RefInv, PodInv, CopyInv, HashInv,
        TrueHashInv, VerdictInv, [Next]_vars
    PROVE  VerdictInv'
<1> USE DEF VerdictInv, Judged, Settled, apiVars, podVars, localVars
<1>1. CASE FetchCluster
  BY <1>1 DEF FetchCluster, ReturnAndRequeue, EndReconcile
<1>2. CASE CollectAndRender
  BY <1>2 DEF CollectAndRender, ReturnAndRequeue, EndReconcile
<1>3. CASE EnsureConfigMap
  BY <1>3 DEF EnsureConfigMap
<1>4. CASE DecideReload
  <2> SUFFICES ASSUME HasServerRef, pc' \in Judged, allInSync', hash' = desired', NEW p \in Pods
               PROVE  \/ Settled(p, desired)'
                      \/ pc' # "status" /\ p \in todo'
    BY <1>4
  <2>1. CASE ~NeedsReloadAttempt(copy, hash)
    BY <1>4, <2>1
    DEF DecideReload, NeedsReloadAttempt, RefInv, CopyInv, TrueHashInv, Settled
  <2>2. CASE NeedsReloadAttempt(copy, hash)
    BY <1>4, <2>2 DEF DecideReload, ListedInSync, PodInv, Settled
  <2>3. QED
    BY <2>1, <2>2
<1>5. CASE \E p \in Pods : CheckPod(p)
  BY <1>5 DEF CheckPod
<1>6. CASE ReloadPod
  <2> SUFFICES ASSUME HasServerRef, pc' \in Judged, allInSync', hash' = desired', NEW p \in Pods
               PROVE  Settled(p, desired)' \/ (pc' # "status" /\ p \in todo')
    BY <1>6
  <2>1. configMap \in {desired, None} /\ desired \in Hashes /\ hash = desired /\ pc = "sighup"
    BY <1>6 DEF ReloadPod, HashInv, Written, TypeOK, ObjectTypes, Hashes
  <2>2. CASE p = target
    BY <1>6, <2>1, <2>2 DEF ReloadPod, HashInv, PodInv, Settled, TypeOK, PodTypes
  <2>3. CASE p # target
    BY <1>6, <2>1, <2>3, SettledKept DEF ReloadPod
  <2>4. QED
    BY <2>2, <2>3
<1>7. CASE EndPass
  BY <1>7 DEF EndPass
<1>8. CASE UpdateStatus
  BY <1>8, StatusWrite DEF UpdateStatus
<1>9. CASE ReportError
  BY <1>9, StatusWrite DEF ReportError
<1>10. CASE TimerFires
  BY <1>10 DEF TimerFires
<1>11. CASE RestartOperator
  BY <1>11 DEF RestartOperator, EndReconcile
<1>12. CASE \E c \in Configs : EditResources(c)
  BY <1>12, SteadyFacts, ConstantsAssumption DEF EditResources, KnownInv
<1>13. CASE EditServerRef
  BY <1>13, SteadyFacts DEF EditServerRef
<1>14. CASE \E c \in Hashes : ChangeConfigMap(c)
  BY <1>14, SteadyFacts DEF ChangeConfigMap
<1>15. CASE OtherEvent
  BY <1>15 DEF OtherEvent
<1>16. CASE ClusterEvent
  BY <1>16 DEF ClusterEvent
<1>17. CASE ConfigMapEvent
  BY <1>17 DEF ConfigMapEvent
<1>18. ASSUME NEW p \in Pods, PodStep(p) PROVE VerdictInv'
  <2>1. UNCHANGED <<desired, hash, configMap, pc, allInSync, todo, target>>
    BY <1>18 DEF PodStep, CreatePod, MountVolume, StartServer, RestartServer,
       SyncVolume, PodCached, StopPod, OnlyPods
  <2>2. pc \in Judged /\ hash = desired => configMap \in {desired, None}
    BY DEF HashInv, Written
  <2>3. QED
    BY <1>18, <2>1, <2>2, SettledKept DEF TypeOK, ObjectTypes, Hashes
<1>19. CASE UNCHANGED vars
  BY <1>19 DEF vars
<1>20. QED
  BY <1>1, <1>2, <1>3, <1>4, <1>5, <1>6, <1>7, <1>8, <1>9, <1>10, <1>11, <1>12, <1>13,
     <1>14, <1>15, <1>16, <1>17, <1>18, <1>19
  DEF Next, Worker, Users

\* The parts together are inductive.
LEMMA LiveStep ==
    ASSUME TypeOK, FreshInv, Steady, LiveInv, [Next]_vars
    PROVE  LiveInv'
BY KnownStep, RefStep, PodInvStep, OutdatedStep, CopyStep, HashStep, TrueHashStep,
   VerdictStep DEF LiveInv

\* They hold at the start.
LEMMA LiveInit == Init => FreshInv /\ LiveInv
<1> SUFFICES ASSUME Init PROVE FreshInv /\ LiveInv
  OBVIOUS
<1> USE ConstantsAssumption, NewClusterFields DEF Init
<1>1. FreshInv /\ KnownInv /\ RefInv /\ OutdatedInv /\ CopyInv
  BY DEF FreshInv, KnownInv, RefInv, OutdatedInv, CopyInv
<1>2. PodInv /\ HashInv
  BY DEF PodInv, HashInv, Rendering, Written
<1>3. TrueHashInv /\ VerdictInv
  BY DEF TrueHashInv, VerdictInv, Judged
<1>4. QED
  BY <1>1, <1>2, <1>3 DEF LiveInv

\* In a steady environment a server is never told to reload other content
\* than the reconcile at work has written.
THEOREM SighupSafe == ASSUME Steady PROVE Spec => []SighupOnExpected
<1>1. Init => FreshInv /\ LiveInv
  BY LiveInit
<1>2. TypeOK /\ FreshInv /\ LiveInv /\ [Next]_vars => (FreshInv /\ LiveInv)'
  BY FreshStep, LiveStep
<1>3. LiveInv => SighupOnExpected
  BY DEF LiveInv, HashInv, PodInv, SighupOnExpected
<1>4. QED
  BY <1>1, <1>2, <1>3, TypeCorrect, PTL DEF Spec

\* In a steady environment the operator comes to rest only when every Running
\* pod runs the desired configuration.
THEOREM RestIsLive == ASSUME Steady PROVE Spec => []RestMeansLive
<1>1. Init => FreshInv /\ LiveInv
  BY LiveInit
<1>2. TypeOK /\ FreshInv /\ LiveInv /\ [Next]_vars => (FreshInv /\ LiveInv)'
  BY FreshStep, LiveStep
<1>3. LiveInv /\ NoLostWork => RestMeansLive
  BY DEF LiveInv, RefInv, TrueHashInv, Settled, NoLostWork, RestMeansLive, Running
<1>4. QED
  BY <1>1, <1>2, <1>3, TypeCorrect, NothingLost, PTL DEF Spec
=============================================================================
