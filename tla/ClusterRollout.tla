---------------------------- MODULE ClusterRollout ----------------------------
(***************************************************************************)
(* ClusterReload keeps the promise of Rollout: the ConfigMap is what is    *)
(* published, the configuration of a server process is what is live, and   *)
(* status.lastConfigHash is the confirmation.                              *)
(***************************************************************************)
EXTENDS ClusterReload

Promise == INSTANCE Rollout WITH
    asked     <- rendered,
    published <- configMap,
    live      <- loaded,
    confirmed <- cluster.lastConfigHash,
    Managed   <- HasServerRef

\* Every step of Reconcile, of the kubelet and of the servers is a step of the
\* promised rollout or does not touch it: a late reconcile, a conflict, a
\* write that took effect although it failed and a restart never put an
\* older configuration in the place of the desired one, in the ConfigMap, in a
\* server or in the status, and the status never names the desired
\* configuration before every server runs it.
KeepsPromise == Promise!Spec
=============================================================================
