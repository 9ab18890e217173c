---------------------------- MODULE ClusterReload ----------------------------
(***************************************************************************)
(* NatsClusterReconciler.Reconcile for one NatsCluster: from the resources *)
(* the operator watches to the ConfigMap, from the ConfigMap to the file   *)
(* the kubelet mounts in each NATS pod, and from that file, by SIGHUP, to  *)
(* the configuration the NATS server runs.                                 *)
(*                                                                         *)
(* A configuration is a member of Configs.  Its SHA-256 hash is not        *)
(* distinguished from it (the hash is taken to be injective), so "hash" in *)
(* the code and "configuration" here are the same thing.                   *)
(*                                                                         *)
(* The controller has one worker, so Reconcile is one program counter; it  *)
(* is cut wherever it talks to the API server, a cache or a pod.  All      *)
(* reads but those of Secrets go through informer caches that lag behind   *)
(* the API server.  A resourceVersion is modelled by a flag on each copy   *)
(* of an object that says whether it is the API server's current version.  *)
(***************************************************************************)
EXTENDS Naturals, FiniteSets

CONSTANTS
    Configs,        \* the configurations the watched resources can render to
    Pods,           \* the names of the pods the server workload may have
    None,           \* no hash, no ConfigMap, no file, no process
    HasServerRef,   \* the cluster starts with spec.serverRef set
    Environment,    \* the disturbances of this instance, see Disturbances
    MaxUpsets,      \* bound on pod churn, reverts and changes to objects
    MaxFaults       \* bound on failed calls and operator restarts

\* What the surroundings of the operator may do beyond making fresh edits,
\* stopping pods and restarting containers:
\*   revert      an edit brings back a configuration rendered before
\*   serverRef   spec.serverRef of the cluster is set or cleared
\*   cmDelete    somebody deletes the ConfigMap
\*   cmEdit      somebody overwrites the ConfigMap
\*   evict       a pod ends in phase Failed and stays listed
\*   podLag      the pod cache may not know a new pod yet
Disturbances == {"revert", "serverRef", "cmDelete", "cmEdit", "evict", "podLag"}

ASSUME ConstantsAssumption ==
    /\ None \notin Configs
    /\ HasServerRef \in BOOLEAN
    /\ Environment \subseteq Disturbances
    /\ MaxUpsets \in Nat
    /\ MaxFaults \in Nat

Hashes == Configs \cup {None}
Phases == {"Absent", "Pending", "Running", "Failed"}

\* The NatsCluster object: the part of its spec and status that decides what
\* Reconcile does.  The counts and the message of the condition are left out;
\* WriteStatus allows for their change.
Cluster == [lastConfigHash : Hashes,
            ready          : {"", "Reconciled", "ReconcileError"},
            serverRef      : BOOLEAN]

NewCluster == [lastConfigHash |-> None, ready |-> "", serverRef |-> HasServerRef]

VARIABLES
    \* Watched resources, as the account, user and namespace caches show them.
    desired,        \* what they render to
    rendered,       \* every configuration they rendered to so far (history)
    \* Objects in the API server and their cached copies.
    cluster,        \* the NatsCluster
    cached,         \* its copy in the cache
    cacheFresh,     \* that copy is the current version
    configMap,      \* content of the ConfigMap
    cmCached,       \* its copy in the cache
    cmFresh,        \* that copy is the current version
    \* Pods.
    phase,          \* phase of each pod; Absent when there is no such pod
    podSeen,        \* phase of each pod in the pod cache
    mounted,        \* content of auth.conf in the pod's volume
    loaded,         \* configuration the NATS process runs
    \* The work queue and the state of the operator process.
    queued,         \* the cluster's key is in the queue
    timer,          \* a delayed requeue of the key is pending
    reloadedOnce,   \* the reconciler's map has the key
    \* Local variables of Reconcile.
    pc,             \* where it is; "idle" when it does not run
    copy,           \* the NatsCluster it fetched
    copyFresh,      \* that copy is the current version
    hash,           \* the hash it computed
    statusUpdateFailed,
    allInSync,
    todo,           \* the Running pods of the list not yet looked at
    target,         \* the pod about to get SIGHUP
    \* Bounds.
    upsets, faults

apiVars   == <<cluster, cached, cacheFresh, configMap, cmCached, cmFresh>>
podVars   == <<phase, podSeen, mounted, loaded>>
localVars == <<copy, copyFresh, hash, statusUpdateFailed, allInSync, todo, target>>
vars == <<desired, rendered, apiVars, podVars, queued, timer, reloadedOnce,
          pc, localVars, upsets, faults>>

ObjectTypes ==
    /\ desired \in Configs
    /\ rendered \subseteq Configs
    /\ cluster \in Cluster /\ cached \in Cluster /\ copy \in Cluster
    /\ configMap \in Hashes /\ cmCached \in Hashes /\ hash \in Hashes
PodTypes ==
    /\ phase \in [Pods -> Phases] /\ podSeen \in [Pods -> Phases]
    /\ mounted \in [Pods -> Hashes] /\ loaded \in [Pods -> Hashes]
    /\ todo \subseteq Pods
    /\ target \in Pods \cup {None}
FlagTypes ==
    /\ cacheFresh \in BOOLEAN /\ cmFresh \in BOOLEAN /\ copyFresh \in BOOLEAN
    /\ queued \in BOOLEAN /\ timer \in BOOLEAN /\ reloadedOnce \in BOOLEAN
    /\ statusUpdateFailed \in BOOLEAN /\ allInSync \in BOOLEAN
    /\ pc \in {"idle", "collect", "ensure", "decide", "pass", "sighup",
               "status", "report"}
BoundTypes ==
    /\ upsets \in 0..MaxUpsets
    /\ faults \in 0..MaxFaults

TypeOK == ObjectTypes /\ PodTypes /\ FlagTypes /\ BoundTypes

-----------------------------------------------------------------------------
(* Helpers.                                                                *)

\* Something the bounds limit happens.
Upset == upsets < MaxUpsets /\ upsets' = upsets + 1
Fault == faults < MaxFaults /\ faults' = faults + 1

\* Reconcile returns: its locals are gone, the worker is free.
EndReconcile ==
    /\ pc' = "idle"
    /\ copy' = NewCluster /\ copyFresh' = FALSE
    /\ hash' = None /\ target' = None
    /\ statusUpdateFailed' = FALSE /\ allInSync' = TRUE /\ todo' = {}

\* (Mutant: the error is logged and dropped.)
ReturnOnly == EndReconcile /\ UNCHANGED timer

\* return ctrl.Result{}, err, and Requeue in the result: the key comes back
\* later.
ReturnAndRequeue == EndReconcile /\ timer' = TRUE

\* r.Status().Update(ctx, cluster) with the status fields of c, which must
\* be the current version.  The write makes a new version, and later an event,
\* unless it changes nothing.
WriteStatus(c) ==
    /\ copyFresh
    /\ cluster' = c
    /\ \/ cacheFresh' = FALSE
       \/ c = cluster /\ UNCHANGED cacheFresh
    /\ UNCHANGED <<cached, configMap, cmCached, cmFresh>>

-----------------------------------------------------------------------------
(* The worker takes the key: one action per step of Reconcile.             *)

\* 1. Fetch the NatsCluster from the cache.
FetchCluster ==
    /\ pc = "idle" /\ queued
    /\ queued' = FALSE
    /\ \/ /\ pc' = "collect" /\ copy' = cached /\ copyFresh' = cacheFresh
          /\ UNCHANGED <<timer, hash, statusUpdateFailed, allInSync, todo,
                         target, faults>>
       \/ Fault /\ ReturnAndRequeue
    /\ UNCHANGED <<desired, rendered, apiVars, podVars, reloadedOnce, upsets>>

\* 2-5. List accounts and users, reconcile each of them, render the
\* configuration.  A failing list is reported on the cluster; an error in
\* reconcileAccountsAndUsers is returned as it is; a failing status update of
\* an account or user is remembered.
CollectAndRender ==
    /\ pc = "collect"
    /\ \/ /\ pc' = "ensure" /\ hash' = desired
          /\ \/ UNCHANGED <<statusUpdateFailed, faults>>
             \/ statusUpdateFailed' = TRUE /\ Fault
          /\ UNCHANGED <<timer, copy, copyFresh, allInSync, todo, target>>
       \/ Fault /\ pc' = "report" /\ UNCHANGED <<timer, localVars>>
       \/ Fault /\ ReturnAndRequeue
    /\ UNCHANGED <<desired, rendered, apiVars, podVars, queued, reloadedOnce, upsets>>

\* The API server takes the ConfigMap write of step 6: a create if there is
\* none, an update if the cached copy is the current version.
WriteAccepted == IF cmCached = None THEN configMap = None ELSE cmFresh

\* 6. controllerutil.CreateOrUpdate on the ConfigMap: compare with the cached
\* copy, then create or update it.  When the call fails the write may have taken
\* effect.
EnsureConfigMap ==
    /\ pc = "ensure"
    /\ \/ /\ cmCached = hash
          /\ pc' = "decide"
          /\ UNCHANGED <<configMap, cmFresh, faults>>
       \/ /\ cmCached # hash
          /\ WriteAccepted
          /\ configMap' = hash /\ cmFresh' = FALSE
          /\ pc' = "decide"
          /\ UNCHANGED faults
       \/ /\ cmCached # hash
          /\ ~WriteAccepted
          /\ pc' = "report"
          /\ UNCHANGED <<configMap, cmFresh, faults>>
       \/ /\ Fault /\ pc' = "report"
          /\ \/ UNCHANGED <<configMap, cmFresh>>
             \/ /\ cmCached # hash /\ WriteAccepted
                /\ configMap' = hash /\ cmFresh' = FALSE
    /\ UNCHANGED <<desired, rendered, cluster, cached, cacheFresh, cmCached, podVars,
                   queued, timer, reloadedOnce, localVars, upsets>>

\* The decision of step 7, from the fetched copy c.
NeedsReloadAttempt(c, h) ==
    c.serverRef /\ (h # c.lastConfigHash \/ ~reloadedOnce)

\* (Mutant: pods that are not Running are skipped without a trace.)
ListedAlwaysInSync == TRUE

\* The verdict reloadNatsPods starts from: a listed pod that is not Running
\* cannot be confirmed.
ListedInSync == \A p \in Pods : podSeen[p] \in {"Absent", "Running"}

\* 7. Decide whether to reload; reloadNatsPods looks up the workload and
\* lists its pods, both from the cache.
DecideReload ==
    /\ pc = "decide"
    /\ \/ /\ ~NeedsReloadAttempt(copy, hash)
          /\ pc' = "status"
          /\ UNCHANGED <<allInSync, todo, faults>>
       \/ /\ NeedsReloadAttempt(copy, hash)
          /\ pc' = "pass"
          /\ allInSync' = ListedInSync
          /\ todo' = {p \in Pods : podSeen[p] = "Running"}
          /\ UNCHANGED faults
       \/ /\ NeedsReloadAttempt(copy, hash)
          /\ Fault /\ pc' = "report"
          /\ UNCHANGED <<allInSync, todo>>
    /\ UNCHANGED <<desired, rendered, apiVars, podVars, queued, timer, reloadedOnce,
                   copy, copyFresh, hash, statusUpdateFailed, target, upsets>>

\* (Mutant: any header counts as current.)
AnyConfigIsCurrent(p) == phase[p] = "Running" /\ mounted[p] # None

\* IsConfigCurrent: cat auth.conf in the pod and compare the header.
ConfigIsCurrent(p) == phase[p] = "Running" /\ mounted[p] = hash

\* waitForCurrentConfig on the next pod: the file shows the hash within the
\* timeout, or it does not (nor when cat keeps failing), or the check ends in
\* an error.
CheckPod(p) ==
    /\ pc = "pass" /\ p \in todo
    /\ todo' = todo \ {p}
    /\ \/ /\ ConfigIsCurrent(p)
          /\ pc' = "sighup" /\ target' = p
          /\ UNCHANGED <<allInSync, faults>>
       \/ /\ ~ConfigIsCurrent(p)
          /\ allInSync' = FALSE
          /\ UNCHANGED <<pc, target, faults>>
       \/ /\ ConfigIsCurrent(p)
          /\ Fault /\ allInSync' = FALSE
          /\ UNCHANGED <<pc, target>>
       \/ /\ Fault /\ pc' = "report"
          /\ UNCHANGED <<allInSync, target>>
    /\ UNCHANGED <<desired, rendered, apiVars, podVars, queued, timer, reloadedOnce,
                   copy, copyFresh, hash, statusUpdateFailed, upsets>>

\* ReloadPod: kill -HUP 1 in the pod; the server reads auth.conf again.  When
\* the call fails the signal may have been delivered or not.
ReloadPod ==
    /\ pc = "sighup"
    /\ \/ /\ phase[target] = "Running"
          /\ pc' = "pass"
          /\ loaded' = [loaded EXCEPT ![target] = mounted[target]]
          /\ UNCHANGED faults
       \/ /\ phase[target] # "Running"
          /\ pc' = "report"
          /\ UNCHANGED <<loaded, faults>>
       \/ /\ phase[target] = "Running"
          /\ Fault /\ pc' = "report"
          /\ \/ UNCHANGED loaded
             \/ /\ loaded' = [loaded EXCEPT ![target] = mounted[target]]
    /\ UNCHANGED <<desired, rendered, apiVars, phase, podSeen, mounted, queued, timer,
                   reloadedOnce, localVars, upsets>>

\* reloadNatsPods returned without error.
EndPass ==
    /\ pc = "pass" /\ todo = {}
    /\ pc' = "status"
    /\ reloadedOnce' = TRUE
    /\ UNCHANGED <<desired, rendered, apiVars, podVars, queued, timer, localVars,
                   upsets, faults>>

\* (Mutants: a hash that could not be confirmed is erased; the hash is never
\* recorded; it is recorded in any case.)
ErasedHashStatus(c, h, inSync) ==
    [c EXCEPT !.lastConfigHash = IF inSync THEN h ELSE "", !.ready = "Reconciled"]
NoHashStatus(c, h, inSync) ==
    [c EXCEPT !.ready = "Reconciled"]
EagerHashStatus(c, h, inSync) ==
    [c EXCEPT !.lastConfigHash = h, !.ready = "Reconciled"]

\* The cluster status of step 8.
ReconciledStatus(c, h, inSync) ==
    [c EXCEPT !.lastConfigHash = IF inSync THEN h ELSE @,
              !.ready = "Reconciled"]

\* (Mutant: pods that were stale are not looked at again.)
RequeueForStatusOnly == statusUpdateFailed

\* The result of step 9 asks for another reconcile.
RequeueAfter == statusUpdateFailed \/ ~allInSync

\* 8-9. Write the status.  A conflict is requeued, another error returned; the
\* write may have taken effect then, too.
UpdateStatus ==
    /\ pc = "status"
    /\ \/ /\ WriteStatus(ReconciledStatus(copy, hash, allInSync))
          /\ EndReconcile
          /\ timer' = (timer \/ RequeueAfter)
          /\ UNCHANGED faults
       \/ /\ ~copyFresh
          /\ ReturnAndRequeue
          /\ UNCHANGED <<apiVars, faults>>
       \/ /\ Fault /\ ReturnAndRequeue
          /\ \/ UNCHANGED apiVars
             \/ WriteStatus(ReconciledStatus(copy, hash, allInSync))
    /\ UNCHANGED <<desired, rendered, podVars, queued, reloadedOnce, upsets>>

\* The error paths of steps 2, 3, 6 and 7: setClusterCondition, whose own
\* error is ignored, and return of the error.
ReportError ==
    /\ pc = "report"
    /\ ReturnAndRequeue
    /\ \/ /\ WriteStatus([copy EXCEPT !.ready = "ReconcileError"])
          /\ UNCHANGED faults
       \/ /\ ~copyFresh
          /\ UNCHANGED <<apiVars, faults>>
       \/ Fault /\ UNCHANGED apiVars
    /\ UNCHANGED <<desired, rendered, podVars, queued, reloadedOnce, upsets>>

\* The delayed requeue is due.
TimerFires ==
    /\ timer
    /\ timer' = FALSE /\ queued' = TRUE
    /\ UNCHANGED <<desired, rendered, apiVars, podVars, reloadedOnce, pc, localVars,
                   upsets, faults>>

\* The operator process dies and a new one starts: it lists every object
\* afresh, which enqueues the cluster, and its memory is empty.
RestartOperator ==
    /\ Fault
    /\ EndReconcile
    /\ queued' = TRUE /\ timer' = FALSE /\ reloadedOnce' = FALSE
    /\ cached' = cluster /\ cacheFresh' = TRUE
    /\ cmCached' = configMap /\ cmFresh' = TRUE
    /\ podSeen' = phase
    /\ UNCHANGED <<desired, rendered, cluster, configMap, phase, mounted, loaded, upsets>>

-----------------------------------------------------------------------------
(* Users, and the watches that tell the operator.                          *)

\* Accounts, users or Secrets change so that they render to c; the event is
\* mapped to the cluster and enqueued.
EditResources(c) ==
    /\ c # desired
    /\ \/ c \notin rendered /\ UNCHANGED upsets
       \/ c \in rendered /\ "revert" \in Environment /\ Upset
    /\ desired' = c
    /\ rendered' = rendered \cup {c}
    /\ queued' = TRUE
    /\ UNCHANGED <<apiVars, podVars, timer, reloadedOnce, pc, localVars, faults>>

\* An event enqueues the cluster although it renders as before: a status
\* update of an account or user, a resync.  (While Reconcile runs the queue
\* holds the key back, so this may as well happen after it.)
OtherEvent ==
    /\ pc = "idle" /\ ~queued
    /\ queued' = TRUE
    /\ UNCHANGED <<desired, rendered, apiVars, podVars, timer, reloadedOnce, pc,
                   localVars, upsets, faults>>

EditServerRef ==
    /\ "serverRef" \in Environment /\ Upset
    /\ cluster' = [cluster EXCEPT !.serverRef = ~@]
    /\ cacheFresh' = FALSE /\ copyFresh' = FALSE
    /\ UNCHANGED <<desired, rendered, cached, configMap, cmCached, cmFresh, podVars,
                   queued, timer, reloadedOnce, pc, copy, hash, statusUpdateFailed,
                   allInSync, todo, target, faults>>

\* The content of the ConfigMap becomes c, or it is deleted (None).
ChangeConfigMap(c) ==
    /\ c # configMap /\ configMap # None
    /\ (IF c = None THEN "cmDelete" ELSE "cmEdit") \in Environment
    /\ Upset
    /\ configMap' = c /\ cmFresh' = FALSE
    /\ UNCHANGED <<desired, rendered, cluster, cached, cacheFresh, cmCached, podVars,
                   queued, timer, reloadedOnce, pc, localVars, faults>>

\* For(NatsCluster): the cache learns the current version and the event
\* enqueues the cluster.
ClusterEvent ==
    /\ ~cacheFresh
    /\ cached' = cluster /\ cacheFresh' = TRUE
    /\ queued' = TRUE
    /\ UNCHANGED <<desired, rendered, cluster, configMap, cmCached, cmFresh, podVars,
                   timer, reloadedOnce, pc, localVars, upsets, faults>>

\* (Mutant: the controller does not own the ConfigMap.)
ConfigMapCachedOnly ==
    /\ ~cmFresh
    /\ cmCached' = configMap /\ cmFresh' = TRUE
    /\ UNCHANGED <<desired, rendered, cluster, cached, cacheFresh, configMap, podVars,
                   queued, timer, reloadedOnce, pc, localVars, upsets, faults>>

\* Owns(ConfigMap): likewise.
ConfigMapEvent ==
    /\ ~cmFresh
    /\ cmCached' = configMap /\ cmFresh' = TRUE
    /\ queued' = TRUE
    /\ UNCHANGED <<desired, rendered, cluster, cached, cacheFresh, configMap, podVars,
                   timer, reloadedOnce, pc, localVars, upsets, faults>>

-----------------------------------------------------------------------------
(* Pods and the kubelet.  Pods are cached but not watched: a pod that      *)
(* changes enqueues nothing.                                               *)

\* Nothing but pods changes.
OnlyPods ==
    UNCHANGED <<desired, rendered, apiVars, queued, timer, reloadedOnce, pc,
                localVars, faults>>

\* The workload controller creates the pod.
CreatePod(p) ==
    /\ phase[p] = "Absent"
    /\ phase' = [phase EXCEPT ![p] = "Pending"]
    /\ podSeen' = IF podSeen[p] = "Absent" /\ "podLag" \notin Environment
                  THEN [podSeen EXCEPT ![p] = "Pending"] ELSE podSeen
    /\ UNCHANGED <<mounted, loaded, upsets>> /\ OnlyPods

\* The kubelet sets up the volume of a new pod, which waits for the ConfigMap.
MountVolume(p) ==
    /\ phase[p] = "Pending" /\ mounted[p] = None /\ configMap # None
    /\ mounted' = [mounted EXCEPT ![p] = configMap]
    /\ UNCHANGED <<phase, podSeen, loaded, upsets>> /\ OnlyPods

\* The NATS server starts and reads auth.conf.
StartServer(p) ==
    /\ phase[p] = "Pending" /\ mounted[p] # None
    /\ phase' = [phase EXCEPT ![p] = "Running"]
    /\ loaded' = [loaded EXCEPT ![p] = mounted[p]]
    /\ UNCHANGED <<podSeen, mounted, upsets>> /\ OnlyPods

\* The server crashes and the kubelet starts it again in the same pod.
RestartServer(p) ==
    /\ phase[p] = "Running" /\ Upset
    /\ loaded' = [loaded EXCEPT ![p] = mounted[p]]
    /\ UNCHANGED <<phase, podSeen, mounted>> /\ OnlyPods

\* The kubelet's periodic sync brings the volume up to date.
SyncVolume(p) ==
    /\ mounted[p] # None /\ configMap # None /\ mounted[p] # configMap
    /\ mounted' = [mounted EXCEPT ![p] = configMap]
    /\ UNCHANGED <<phase, podSeen, loaded, upsets>> /\ OnlyPods

\* The pod is deleted, or evicted: it stays as an object in phase Failed.
StopPod(p, ph) ==
    /\ ph = "Failed" => phase[p] = "Running" /\ "evict" \in Environment
    /\ phase[p] # "Absent" /\ Upset
    /\ phase' = [phase EXCEPT ![p] = ph]
    /\ mounted' = [mounted EXCEPT ![p] = None]
    /\ loaded' = [loaded EXCEPT ![p] = None]
    /\ UNCHANGED podSeen /\ OnlyPods

\* The pod cache learns the pod's phase.
PodCached(p) ==
    /\ podSeen[p] # phase[p]
    /\ podSeen' = [podSeen EXCEPT ![p] = phase[p]]
    /\ UNCHANGED <<phase, mounted, loaded, upsets>> /\ OnlyPods

-----------------------------------------------------------------------------
Init ==
    /\ desired \in Configs
    /\ rendered = {desired}
    /\ cluster = NewCluster /\ cached = NewCluster /\ cacheFresh = TRUE
    /\ configMap = None /\ cmCached = None /\ cmFresh = TRUE
    /\ phase = [p \in Pods |-> "Pending"] /\ podSeen = phase
    /\ mounted = [p \in Pods |-> None] /\ loaded = mounted
    /\ queued = TRUE /\ timer = FALSE /\ reloadedOnce = FALSE
    /\ pc = "idle"
    /\ copy = NewCluster /\ copyFresh = FALSE
    /\ hash = None /\ target = None
    /\ statusUpdateFailed = FALSE /\ allInSync = TRUE /\ todo = {}
    /\ upsets = 0 /\ faults = 0

\* One step of the worker.
Worker ==
    \/ FetchCluster \/ CollectAndRender \/ EnsureConfigMap \/ DecideReload
    \/ \E p \in Pods : CheckPod(p)
    \/ ReloadPod \/ EndPass \/ UpdateStatus \/ ReportError

Users ==
    \/ \E c \in Configs : EditResources(c)
    \/ EditServerRef
    \/ \E c \in Hashes : ChangeConfigMap(c)

PodStep(p) ==
    \/ CreatePod(p) \/ MountVolume(p) \/ StartServer(p) \/ RestartServer(p)
    \/ SyncVolume(p) \/ PodCached(p)
    \/ StopPod(p, "Absent") \/ StopPod(p, "Failed")

Next ==
    \/ Worker \/ TimerFires \/ RestartOperator
    \/ Users \/ OtherEvent \/ ClusterEvent \/ ConfigMapEvent
    \/ \E p \in Pods : PodStep(p)

\* The worker does not stop while it has work, timers fire, watches deliver,
\* and the kubelet starts pods and syncs volumes.
Fairness ==
    /\ WF_vars(Worker) /\ WF_vars(TimerFires)
    /\ WF_vars(ClusterEvent) /\ WF_vars(ConfigMapEvent)
    /\ \A p \in Pods : /\ WF_vars(MountVolume(p)) /\ WF_vars(StartServer(p))
                       /\ WF_vars(SyncVolume(p)) /\ WF_vars(PodCached(p))

Spec == Init /\ [][Next]_vars
FairSpec == Spec /\ Fairness

-----------------------------------------------------------------------------
(* Properties.                                                             *)

Running == {p \in Pods : phase[p] = "Running"}

\* Nothing is left for the operator to do or to hear of.
Quiescent ==
    /\ pc = "idle" /\ ~queued /\ ~timer
    /\ cacheFresh /\ cmFresh

\* When the operator has come to rest, the ConfigMap holds what the watched
\* resources render to and status.lastConfigHash names it: no failed call, no
\* conflict on a stale copy and no restart loses a change.
NoLostWork ==
    Quiescent => /\ configMap = desired
                 /\ cluster.lastConfigHash = desired

\* When the operator has come to rest, every Running pod of the workload runs
\* the desired configuration.  Reconcile relies on it when it skips the
\* reload: "the cluster is already at the desired state by definition".
RestMeansLive ==
    Quiescent /\ cluster.serverRef => \A p \in Running : loaded[p] = desired

\* A pod that was found current still has the expected file when the signal
\* is sent: reloadNatsPods never reloads a server onto other content, however
\* the kubelet and the pod's replacement interleave with it.
SighupOnExpected ==
    pc = "sighup" /\ phase[target] = "Running" => mounted[target] = hash

\* In the end every Running server runs the desired configuration and keeps
\* running it.
ServersConverge == <>[](\A p \in Running : loaded[p] = desired)

\* In the end the status says so, unless a pod stays in phase Failed: such a
\* pod is listed for ever and can never be confirmed.
HashConverges ==
    <>[](\A p \in Pods : phase[p] # "Failed") => <>[](cluster.lastConfigHash = desired)

\* In the end the ConfigMap holds the desired configuration.
ConfigMapConverges == <>[](configMap = desired)
=============================================================================
