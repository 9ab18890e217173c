# A TLA+ model of the NATS auth operator

The repository is a Kubernetes operator. It watches three kinds of resources, `NatsCluster`,
`NatsAccount` and `NatsUser`, renders them to the authorization section of a NATS server's
configuration (`auth.conf`), stores it in a ConfigMap, and makes the running servers load it. For
every user it keeps a Secret with an NKey pair. This directory models that program in TLA+, checks
the model with TLC and proves its main properties with TLAPS.

Paths below are relative to `src/`; `controller` is `internal/controller/natscluster_controller.go`,
`keys` is `internal/controller/nkey_secret_manager.go`, `reloader` is
`internal/controller/pod_reloader.go`.

## 1. Inventory

| component | source | state | operations |
|---|---|---|---|
| cluster reconciler | `controller`, `reloader` | `reloadedOnce` (memory), `NatsCluster.status`, the ConfigMap | `Reconcile` with `ensureConfigMap`, `reloadNatsPods`, `waitForCurrentConfig`, `setClusterCondition` |
| user provisioning | `keys`, `internal/nkeys` | one Secret and one `NatsUser.status` per user | `EnsureNKeySecret`, the user loop of `reconcileAccountsAndUsers` |
| account loop, system account | `controller` | `NatsAccount.status`, `isSystemAccount` of users | account loop of `reconcileAccountsAndUsers`, the conflict report of `Reconcile` |
| configuration generator | `internal/natsconfig` | none | `ConvertToNatsConfig`, `Generate` |
| rule evaluator | `internal/controller/user_rule_evaluator.go` | none | `Evaluate`, `ValidateRegexRules` |
| event mapping | `controller` 609-690 | the work queue | `mapAccountToCluster`, `mapUserToCluster`, `SetupWithManager` |
| API types | `api/v1alpha1` | — | `AllowResponsesSpec` has code of its own |
| command line tool | `cmd/cli` | none | `validate` and `generate` on manifests |
| debugging tool | `cmd/nats-debug`, `internal/natsmonitor` | none | `user-connections`, `account-connections`, `connections`: asks the servers, then reads ConfigMap, NatsUser and Secret |
| set-up | `cmd/main.go`, `operator_identity.go` | none | starts the manager |

**How they interact.** All of the operator's work happens in `Reconcile`, called by one worker with
the key of a cluster. Events of clusters, owned ConfigMaps, accounts and users put the key in the
queue, accounts and users through mapping functions that look up the cluster. `Reconcile` reads
from informer caches which lag behind the API server, except for Secrets, which it reads directly
and which nobody watches. It writes user and account statuses, Secrets, the ConfigMap and finally
the cluster's status; every write can conflict with a newer version. From the ConfigMap the kubelet
fills the volumes of the pods, at its own pace; the reconciler compares the header of the mounted
file with the hash it computed and sends SIGHUP to the servers whose file is current. Pods are
cached, but their changes enqueue nothing.

**What is hard.** The state is spread over the API server, several caches, volumes, server processes
and the operator's memory, and each is behind another by an unknown amount. Any call may fail, the
process may be restarted between any two of them, and what brings the operator back afterwards is
different in each case: a returned error, a requeue, an event of its own write, or nothing. The
repository's tests call `Reconcile` on a quiet API server with a fake reloader and reach little of
this. `PROJECT.json` lists the hazards, each with its line and the properties aimed at it.

**What makes each part correct.**

* Reconciler: whatever happens on the way, when the operator has nothing left to do, ConfigMap,
  status and every running server have the configuration the resources ask for; and it always gets
  there. No server is reloaded onto another file than the one that was checked.
* User provisioning: a user the rules permit is in the configuration with the key of its Secret; the
  key never changes; no key is published whose seed is nowhere; the status tells the truth.
* Account loop and event mapping: at most one system account, and those who ask in vain are told;
  whatever accounts and users are moved, each cluster ends up with its own and no others, and the
  operator's own writes do not keep it busy for ever.
* Rule evaluator: a user is served only through the account it refers to, and only if the first rule
  that names its namespace is a grant.
* Generator: the server permits each key exactly what the spec of its user says and all others nothing,
  also when there are no users, and counts limits as they are written, to the next whole byte.
* Command line tool: what it says before manifests are applied is what the operator then does.
* Debugging tool: what it reports was true at some moment of its run, and trouble that lasts as long
  as the run is reported.

## 2. Modules

| module | models | used by |
|---|---|---|
| `ClusterReload` | `Reconcile` of one cluster with caches, ConfigMap, kubelet and pods | `ClusterRollout`, `ClusterReloadProofs` |
| `Rollout` | no code: what the operator promises about desired, published, live and confirmed configuration | `ClusterRollout` |
| `ClusterRollout` | the refinement mapping from `ClusterReload` to `Rollout` | `MCClusterReload`, `ClusterRolloutProofs` |
| `UserKeys` | the users of an account, their Secrets and statuses | `MCUserKeys`, `NatsDebug`, `UserKeysProofs` |
| `NatsDebug` | one run of nats-debug beside the operator and a client | `MCNatsDebug`, `NatsDebugProofs` |
| `NatsConfig` | package `natsconfig` as operators, and what the server makes of the text | `RenderConfig` |
| `UserRules` | the rule evaluator as operators | `RenderConfig` |
| `RenderConfig` | the account loop and the rendering of one snapshot | `OfflineTools`, `RenderConfigProofs` |
| `OfflineTools` | `validate` and `generate` on the manifests of a snapshot | `MCRenderConfig`, `OfflineToolsProofs` |
| `Accounts` | the account loop of several clusters over time, event mapping and work queue | `MCAccounts`, `AccountsProofs` |

The modules cut the system along its data. `RenderConfig` says what a snapshot of accounts, users and
namespaces renders to; `UserKeys` says which entries of users come into such a snapshot over time,
and `Accounts` which accounts and users a cluster has over time; both take everything after the
rendering as one step (`Publish`); `ClusterReload` starts from what the resources render to
(`desired`) and follows it to the server processes. In `ClusterReload` the
hash and the configuration it stands for are the same value: SHA-256 is taken to be injective.

### ClusterReload

| variable | code |
|---|---|
| `desired`, `rendered` | what accounts, users and Secrets render to now, and what they have rendered to |
| `cluster`, `cached`, `cacheFresh` | the NatsCluster in the API server, its cached copy, and whether that is the current `resourceVersion` |
| `configMap`, `cmCached`, `cmFresh` | likewise for the ConfigMap |
| `phase`, `podSeen`, `mounted`, `loaded` | per pod: phase, phase in the cache, content of the volume, configuration of the server process |
| `queued`, `timer`, `reloadedOnce` | the work queue, a delayed requeue, the reconciler's map |
| `pc`, `copy`, `copyFresh`, `hash`, `statusUpdateFailed`, `allInSync`, `todo`, `target` | locals of `Reconcile` |

| action | step of `Reconcile` |
|---|---|
| `FetchCluster` | 1. `r.Get` from the cache |
| `CollectAndRender` | 2-5. list, reconcile accounts and users, render |
| `EnsureConfigMap` | 6. `CreateOrUpdate`: a no-op, accepted, refused (conflict, already exists) or failing |
| `DecideReload` | 7. `needsReloadAttempt`; workload look-up and pod list |
| `CheckPod` | `waitForCurrentConfig` on one pod: current, stale or unreadable, error |
| `ReloadPod` | SIGHUP by exec: delivered, pod gone, or an error after which it may have been delivered |
| `EndPass` | the pass returned; `reloadedOnce` is stored |
| `UpdateStatus` | 8-9. status update, conflict, error; the result |
| `ReportError` | `setClusterCondition` on the error paths, whose own error is ignored |

`TimerFires`, `ClusterEvent`, `ConfigMapEvent` and `OtherEvent` are the work queue and the watches,
`RestartOperator` is a new process with empty memory and fresh caches. Users edit resources
(`EditResources`), `spec.serverRef` and the ConfigMap; the workload controller and the kubelet
create, mount, start, restart, sync and stop pods. These are modelled from how the code relies on
them and marked external in the map.

A call that fails may have taken effect: a write of the ConfigMap, of a status or of a Secret whose
error is a lost answer is stored all the same, and so is a SIGHUP.

`Rollout` is the promise without the mechanism: a configuration is asked for, published, loaded by
servers and confirmed; none of these goes back once it has caught up, and the confirmation of what is
asked for is true. `ClusterRollout` reads the ConfigMap as what is published, the server processes as
what is live, `lastConfigHash` as the confirmation.

The constant `Environment` names the disturbances of an instance: `revert`, `serverRef`, `cmDelete`,
`cmEdit`, `evict`, `podLag`.

### UserKeys

`user`, `cached` and `cacheFresh` are the NatsUser and its cached copy, `secret` the Secret
`{name}-nats-nkey` with its owner's uid, `config` the users section last written to the ConfigMap.
`ListUsers`, `EvaluateRules`, `GetSecret`, `UpdateSecret`, `CreateSecret`, `RecordKey`, `SetReady` and
`Publish` are the steps of the reconcile, one per call; the error of any call of `EnsureNKeySecret`
ends the reconcile (`Abort`), the error of a condition update is remembered (`SetUserCondition`).
Users are created, edited, deleted and created again under the same name, with a new uid; the
garbage collector deletes a Secret whose owner is gone. Random generators never repeat a value that
is still around (`Fresh`), and there are enough of them for each user to have had one
(`DrawsAssumption`). The verdict of the rules is a variable, `permitted`.

`Environment`: `recreate`, `secretDelete`, `rulesFail` (a namespace cannot be read) and `labels` (a
namespace's labels change, which nobody watches).

### NatsConfig and RenderConfig

`NatsConfig` has one operator per function of `convert.go`, and those of `generate.go` as the
directives they write; lists whose order and repetitions the server ignores are sets. Its last
section states what the NATS server makes of a rule (no allow list means no restriction, deny wins),
of a size with a suffix, and of the key a client presents (`Access`): a server that knows no user asks
for no key and restricts nobody, which is why `Generate` writes a sentinel user where there is no other.

A quantity of a spec is a whole number of parts of a byte (`Parts`, 10^9 for Kubernetes), since the API
accepts `1.3Mi` or `100m`. `Value` is `resource.Quantity.Value`, modelled as the library documents it:
rounded away from zero to whole bytes, and capped to an `int64`.

`UserRules` has the matchers in the order in which `ruleMatchesUser` looks at them. A rule is a record
with the matchers that are set, a regular expression the set of namespaces it matches and whether it
compiles. A label that is missing reads as the empty string, as it does from a Go map.

`RenderConfig` takes a snapshot: the cluster, all accounts and users of all namespaces, and the labels
of the namespaces that can be read. It lists the accounts of the cluster, runs the account loop over
them, decides which users are rendered and what accounts and users are told, converts, reports
conflicts and renders. `SnapshotsAssumption` says what the API server guarantees of the objects of a
snapshot (fields, a namespace, names that are unique in it, two actions of rules) and the operator of
keys (each user has its own, and nobody has the sentinel's).

### OfflineTools

`Validate(m)` is the set of errors of `runValidate`, `Preview(c, m)` the text `runGenerate` prints for
one cluster; neither keeps state. The manifests are those of the snapshot that `RenderConfig`
reconciles, with the accounts in every order and, where all of it is in one namespace, also without
namespaces. So the tool's own matching of users to accounts, which is written a second time in
`validate.go` and a third time in `generate.go`, is compared with the controller's.

### Accounts

`account`, `status`, `user` and `userReady` are the specs and statuses of NatsAccounts and NatsUsers,
`acctCached` and `userCached` the copies in the caches, `acctFresh` and `userFresh` whether these are the
current versions; `acctCopy`, `acctHeld`, `userCopy`, `userHeld` are the same for the lists a reconcile
works on. `config` is, per cluster, the accounts section of its ConfigMap with users in order,
`queue` the work queue. `ListMatchingAccounts`, `ListAllUsers`, `ProcessAccount`, `ReportConflicts` and
`Publish` are the steps of a reconcile. A status write is refused when the copy is out of date; a write that changes
something makes the cached copy outdated, and its event (`AccountEvent`, `UserEvent`) runs the mapping
functions on the old and the new object, as controller-runtime does. `CreateCluster`, `EditAccount` and
`EditUser` create, move and delete things. The status writes of one turn of the account loop are one
step: they go to different objects, and an edit between two of them has the effect of the same edit
before or after all of them.

### NatsDebug

The module extends `UserKeys`, whose operator goes on working, with a client that takes the seed from
the Secret, connects to one of the servers, is refused or moves, and with one run of the tool:
`Discover` (`discoverPodURLs`), `QueryServer` (`QueryAllServers`, one server after the other, in the order of a Go
map; with the last answer `Report` decides what comes next), and the diagnostics `CheckClosedConnections`, `CheckConfig`, `CheckUser` and
`CheckSecret`, each a read of its own at its own moment. History variables (`seen`, `stayed`, `calm`,
`usable`) keep what was true during the run. Servers are taken to run what is published, and to list
key and account of a connection as the filters expect.

## 3. Runs

| run | instance | checks | states |
|---|---|---|---|
| `reload_safety` | 2 pods, 2 configurations; deleted ConfigMap, eviction; 1 upset, 1 fault | `TypeOK`, `RestMeansLive`, `SighupOnExpected`, `KeepsPromise` | 1.6 million |
| `reload_disturbed` | 1 pod; every disturbance; 1 upset, 1 fault | `NoLostWork` | 0.7 million |
| `reload_liveness` | 1 pod; as `reload_safety`; fair | `ServersConverge`, `HashConverges`, `ConfigMapConverges` | 0.7 million |
| `reload_revert` | 2 pods; `revert` | `RestMeansLive` is violated | |
| `keys_served` | 1 user, no disturbance; 2 upsets, 2 faults; fair | `TypeOK`, `RestServed`, `PublishedKeyHeld`, `KeyGeneratedOnce`, `EventuallyServed` | 0.3 million |
| `keys_disturbed` | 1 user, every disturbance; 2 upsets, 1 fault | `StatusTruthful` | 1.7 million |
| `keys_recreate` | `recreate` | `SecretAtRest` is violated | |
| `render_exact` | mixtures of permissions, of up to three accounts, of up to two rules, of references, of small limits in half bytes | `TypeOK`, `PermissionsExact`, `AccessExact`, `SystemAccountSound`, `LimitsExact`, `ServedIfPermitted`, `ValidationForetells`, `PreviewExact` | 17 thousand |
| `render_system` | the same | `StatusNamesSystemAccount` is violated | |
| `accounts_rest` | 2 clusters, 2 accounts, 1 user; 2 edits, 1 fault | `TypeOK`, `RestRendered`, `RestTold` | 1.2 million |
| `accounts_live` | 1 cluster, 2 accounts, 2 users; 1 edit, 1 fault; fair | `Settles`, `ConflictTold`, `Deterministic` | 0.1 million |
| `debug` | 1 user, 2 servers, pages of 1 connection; 1 upset (a Secret may be deleted), 1 connection of the client | `DebugTypeOK`, `ConnectedIsTrue`, `SteadyClientFound`, `AlarmMeansTrouble`, `TroubleShown` | 3.8 million |

**At rest.** Most safety properties are stated for the states in which the operator rests: no
reconcile, nothing queued, no requeue pending, no event on its way (`Quiescent`). What is wrong in
such a state stays wrong until somebody else does something, so these properties say that a failed
call, a conflict or a restart never loses work. They need no fairness. That the operator does come
to rest on the right values is what the liveness properties say.

**Bounds.** `MaxFaults` counts failed calls and restarts, `MaxUpsets` edits of objects that exist,
deletions, evictions and server restarts; both are bounds of the instance, not of the code. One of
each suffices to put a failure or restart at every step of a reconcile and a disturbance at every
other point; two faults in `keys_served` also fail the retry. Fresh configurations, pod creation,
kubelet syncs, events and conflicts are not counted. Two configurations let one supersede the other
in the middle of its rollout; two pods let one be ahead of the other. A third configuration or pod
adds nothing the proofs of section 4 do not cover. `RenderConfig` takes 2 for 1024
and 40 for the largest `int64`, so that quantities reach two and a half times the largest unit and go
beyond the cap, and halves for the parts of a byte, so that every second quantity is rounded, negative
ones too; the conversion only compares and divides by powers of the one constant and by the other. Rules of every kind are tried in sequences of up to two, for a
user of the account's namespace and one of another whose labels match, differ, are missing or cannot
be read; what a longer list adds is one more turn of the same loop. Publish and subscribe rules are
converted independently, so they are varied one at a time. In `accounts_rest` two edits move an
account while a user of it is moved, or create an account after its user; `accounts_live` starts with
one system account, and the edit can make the other one ask too. In `debug` one server has as many
connections of others as a page holds; the client connects once and may leave, so that it is there for
some of the answers and gone for others. That it turns up on a second server takes a second connection
(`MaxMoves`), which is more than TLC can do in minutes; the theorems on the tool allow any number.
Likewise `reload_liveness` has one pod: that a SIGHUP fails for one pod after another was signalled is
in `reload_safety`, which says that the operator then neither rests nor confirms. Deadlock is not checked where the system really may stop:
rendering one snapshot ends, nats-debug ends with its report, and in `Accounts` nothing happens any more once
the operator rests and the edits are used up.

**Fairness.** `FairSpec` assumes weak fairness of the worker (one worker takes keys from the queue
for as long as the process lives; every call returns), of delayed requeues (a clock), of watch
events (informers re-list after a lost connection), and of the kubelet's mounting, starting and
syncing of pods. It does not assume that users act, that pods are created or deleted, or that a
failed pod is removed: `HashConverges` has that as a premise, since a pod that stays in phase Failed is listed for
ever and holds `lastConfigHash` back (`controller` 529-534).

`Accounts` also assumes strong fairness of taking each key: the work queue is first in, first out, so
a cluster whose key comes back at once does not keep the others waiting.

**Mutants.** Every property of a passing run has a mutant in the modules, marked as such: an
operator that changes the model the way a plausible slip in the code would, and violates the
property.

### What the runs show of the code

Three runs state what a comment of the repository says and find it violated.

* `reload_revert` (`controller` 194): a configuration that is taken back while its rollout is half
  done equals `lastConfigHash` again, so no reload pass runs, and a server that was already signalled
  keeps the withdrawn configuration.
* `keys_recreate` (`keys` 38): a user created again under its name adopts the Secret of its
  predecessor, which the garbage collector then deletes; Secrets are not watched.
* `render_system` (`controller` 310): the status of users and the configuration pick the system
  account from different lists.

Other differences between text and code are noted with the hazards: the reload a fresh process forces
counts as done although a pod was skipped (`controller` 207); `spec.inboxPrefix` is ignored once the
Secret has a prefix (`keys` 51), although `api/v1alpha1/natsuser_types.go` 31, `keys` 31 and `README.md`
188 say that it is used, so `RestServed` and `EventuallyServed` only ask whether an isolated user has a
prefix, not which; of several accounts that ask to be the system account none is (`convert.go` 38-52,
as `README.md` 588 says), while `api/v1alpha1/natsaccount_types.go` 78-79 has the alphabetically-first
one win; users of one name from two namespaces are rendered in the order of
the list (`controller` 389); nobody sets `AccountNotFound` or `ClusterNotFound` (`controller` 337).

`RestMeansLive` and `RestServed` do not hold in every environment either; which disturbance breaks
them is noted with the hazards. `NoLostWork` and `StatusTruthful` do.

With a system account conflict the operator does not come to rest: every reconcile writes Ready and
takes it back, and each write is an event. `Settles` has the absence of conflicts as a premise;
`ConflictTold` says that the accounts in conflict are told so again and again, `Deterministic` that
the ConfigMap changes only with its accounts and users, so all these reconciles cause no reload.

`ValidationForetells` and `PreviewExact` hold under premises that say what the command line tool does
not look at: namespaces of references, rules on labels, that several accounts ask to be the system
account (they pass `validate`, and the operator marks them `SystemAccountConflict`), and for the preview
all rules and inbox prefixes. `SteadyClientFound` is about a client that stays connected, on a server that answers and
lists it: nats-debug asks one server after the other, and for one page of connections.

## 4. Proofs

The modules named `...Proofs` are checked by TLAPS for all values of the constants that satisfy the
named assumptions: any numbers of pods, configurations, clusters, accounts, users, servers, faults and
upsets; any subjects and patterns; any set of well-formed snapshots. Every safety property of a
passing run is proved, some under a premise.

| module | theorem | states | premise |
|---|---|---|---|
| `ClusterReloadProofs` | `TypeCorrect` | `Spec => []TypeOK` | |
| | `NothingLost` | `Spec => []NoLostWork` | |
| | `SighupSafe` | `Spec => []SighupOnExpected` | `Steady` |
| | `RestIsLive` | `Spec => []RestMeansLive` | `Steady` |
| `ClusterRolloutProofs` | `PromiseKept` | `Spec => KeepsPromise` | `Steady` |
| `UserKeysProofs` | `TypeCorrect` | `Spec => []TypeOK` | |
| | `StatusIsTruthful` | `Spec => []StatusTruthful` | |
| | `KeysGeneratedOnce` | `Spec => KeyGeneratedOnce` | `KeysKept` |
| | `PublishedKeysAreHeld` | `Spec => []PublishedKeyHeld` | `KeysKept` |
| | `RestIsServed` | `Spec => []RestServed` | `Undisturbed` |
| `AccountsProofs` | `TypeCorrect` | `Spec => []TypeOK` | |
| | `RestIsRendered` | `Spec => []RestRendered` | |
| | `RestIsTold` | `Spec => []RestTold` | |
| | `ConfigIsDeterministic` | `Spec => Deterministic` | |
| `RenderConfigProofs` | `RenderTypeCorrect` | `Spec => []TypeOK` | |
| | `PermissionsAreExact` | `Spec => []PermissionsExact` | |
| | `AccessIsExact` | `Spec => []AccessExact` | |
| | `SystemAccountIsSound` | `Spec => []SystemAccountSound` | |
| | `LimitsAreExact` | `Spec => []LimitsExact` | |
| | `ServedJustIfPermitted` | `Spec => []ServedIfPermitted` | |
| `OfflineToolsProofs` | `ValidateForetells` | `Spec => []ValidationForetells` | |
| | `PreviewIsExact` | `Spec => []PreviewExact` | |
| `NatsDebugProofs` | `DebugTypeCorrect` | `DebugSpec => []DebugTypeOK` | |
| | `ConnectedMeansConnected` | `DebugSpec => []ConnectedIsTrue` | |
| | `SteadyClientIsFound` | `DebugSpec => []SteadyClientFound` | |
| | `AlarmsMeanTrouble` | `DebugSpec => []AlarmMeansTrouble` | |
| | `TroubleIsShown` | `DebugSpec => []TroubleShown` | `KeysKept` |

The assumptions are the `ASSUME`s of the modules, which TLC evaluates in the runs. The premises are
about `Environment`, the disturbances of an instance; a theorem without one holds in every
environment.

`Steady` excludes `revert`, `serverRef`, `cmEdit` and `podLag`, with which `RestMeansLive` does not
hold; `cmDelete` and `evict`, all faults and all restarts remain. `KeysKept` excludes `recreate` and
`secretDelete`, that is, a name is used once and only the garbage collector deletes Secrets: a Secret
that is deleted has to get a new key. `Undisturbed` excludes all four disturbances of `UserKeys`, and
each of them breaks `RestServed`; edits and deletions of users, edits of rules, faults and restarts
remain.

**NothingLost.** `NoLostWork` speaks of rest only, so the invariant has to say what keeps the
operator from resting. `FreshInv`: a copy marked current is the object. `WorkInv`: a free worker has
the key queued, a timer, an event on its way, or nothing to do; a reconcile that has rendered an
outdated configuration has the key queued again; one that has passed step 6 has the ConfigMap at its
hash, or the event of a foreign change on its way.

**RestIsLive.** At rest `lastConfigHash = desired` by `NothingLost`, so it suffices that the status
tells the truth: `TrueHashInv`, when it names the desired configuration every pod is settled on it.
This is established by a reload pass (`VerdictInv`: the verdict `allInSync` covers every pod the pass
is done with), and it must survive until the next configuration. Both rest on the ConfigMap holding
the hash of a reconcile past step 6 (`HashInv`), which holds because the copies that step 6 and step
7 look at do not run ahead of the objects (`CopyInv`), and a configuration that nothing has seen yet
is in none of them (`OutdatedInv`, `KnownInv`). `PodInv` is the kubelet's protocol, and says that the
pod cache misses no pod. `SighupSafe` is a part of `HashInv`. Each part has a lemma with one step per
action.

**PromiseKept.** The inductive invariant of `RestIsLive` is what the refinement needs: an action that
writes the ConfigMap, loads a server or writes the status is mapped to `Publish`, `Load` or `Confirm`,
whose guards (nothing replaces the desired configuration, a confirmation is true) follow from its
parts; every other action leaves the mapped variables alone. One part is added, `ForwardInv`: pods do
not run ahead of the ConfigMap nor servers of their volume, so that a late reconcile with an outdated
hash finds no volume it could take back.

**StatusIsTruthful, RestIsServed.** Both speak of rest, so the invariants say what is true unless
another reconcile is `Due`: queued, on a timer, announced by the event of a written ConfigMap, or by a
NatsUser the cache has not seen yet. `TruthInv` says so of the published entries between reconciles
and, during one, of the entries of the users that were processed; there a failed status update
(`statusUpdateFailed`) is a further way out, since it asks for a requeue at the end. A status that
changes under the loop makes the cached copy outdated, so that `Due` holds; a copy marked current is
the object (`FreshInv`), so that a write which is accepted makes the status true of the entry the loop
collects. `ServedInv` is the same for `ServedBy`, and also needs that the rules still permit the user in
work and that its Secret fits the spec.

**KeysGeneratedOnce, PublishedKeysAreHeld.** A key gets from the Secret to the status and to the
configuration through the local variables of a reconcile, and the user or its Secret may change on the
way. `HeldInv`: the Secret in hand is the current one unless the user is gone. `StatusKeyInv` and
`EntryInv`: the key in the status and in an entry is the key of the Secret for as long as the user
exists. `OnceInv`: since names are used once, a user that is gone does not come back to find another
one's key, and the garbage collector only takes Secrets of users that are gone.

**RestIsRendered, RestIsTold.** The caches are taken as the view of the world. `ListInv`, `ConfigInv`
and `ToldInv` say that lists, configurations and statuses are what the caches say, for each cluster
that is not queued. The heart of it is `CacheStep`: an event that changes what the caches say of a
cluster's accounts or their users enqueues that cluster, on whichever side of a move it is, with all
the ways of `mapUserToCluster` to find it. At rest the caches are current (`FreshInv`), so what they say
is what is.

**ConfigIsDeterministic.** Rendered users are sorted (`SortedInv`), and there is only one way to sort
users with names of their own (`SortedUnique`): take the least position at which two ways differ.

**PermissionsAreExact, AccessIsExact.** `RenderInv` says that the text is what `Generate`
and `ConvertToNatsConfig` make of the accounts kept so far, which are accounts of the snapshot with
the users they permit (so names and keys are distinct); the rest are lemmas on the operators:
what a converted rule permits, and that distinct keys have distinct entries. For `AccessExact` the users
the server knows are the entries of the admitted users, or the sentinel alone (`EntriesAre`,
`AdmittedAre`): so the server always knows somebody, a key of nobody admitted has no entry, and the
sentinel's entry permits nothing.

**SystemAccountIsSound, LimitsAreExact, ServedJustIfPermitted.** `KeptInv`, `ReadyInv` and `UserInv` say
which accounts are kept between two turns of the account loop and what accounts and users have been
told. `EvaluateIs` says what the recursive function `Evaluate` computes for a list of rules of any
length: the action of the first rule that matches. It rests on the least-element principle of the
natural numbers instead of an induction rule. Sizes are exact because `Value` rounds by less than a
byte (`ValueIs`) and a unit is only used where it divides the bytes.

**ValidateForetells, PreviewIsExact.** The matching of users to accounts in `validate.go` and
`generate.go` agrees with the controller's under the premises of the properties: an account is found by
its name where all are in one namespace (`ByNameIs`), rules that do not look at labels have the same
outcome without a cluster (`OfflineIs`), and manifests without namespaces are read as those with them
(`BareBuildIs`). What the operator says of the same objects is `StatusInv` of `RenderConfigProofs`; with at most one
request to be the system account there is no conflict to report (`NoConflictOfOne`).

**NatsDebugProofs.** The operator beside the tool behaves as `Spec` of `UserKeys` (`Beside`), so all its
theorems hold there. Each report is an invariant that relates what the tool has written down to what was
true since it started: `FoundInv` (a server that listed the key had the client at that moment),
`SteadyInv` (the server of a client that stays has not been asked, or has listed it; that it is on the
page is a matter of counting), `CalmInv` (each read finds what it should while the user is served).
`TroubleInv` is the one that needs the operator's: if the configuration has the key and yet the key
cannot be used, the user is gone by `EntryInv`, stays gone, and the next read does not find it.

**Only model-checked.** Liveness under fairness, which is outside the proof system's reach:
`ServersConverge`, `HashConverges`, `ConfigMapConverges`, `EventuallyServed`, `Settles`, `ConflictTold`.
`TroubleShown` where Secrets are deleted: with a bounded supply of draws a key that is nowhere in the
cluster any more may be drawn again although the tool still asks for it, which no invariant of the
operator excludes.

## 5. Not modelled

* The deletion of a cluster, and a failing list of clusters in `allClustersInNamespace`, which reads
  the cache.
* How `resource.Quantity` stores numbers: its `Value` is taken as documented.
* Two operator processes at once; leader election is optional and taken to work.
* Text: quoting, indentation, messages, debug commands, connection URLs, tables.
* `cmd/cli/cmd/loader.go` reads and splits files. It skips documents it cannot decode without a
  word, so a misspelt manifest is neither validated nor rendered.
* Of nats-debug: flags, what it prints of permissions and limits, the limit of one hundred closed connections.
* `operator_identity.go` and `cmd/main.go` are set-up; deep copies are generated.

## 6. Plan

1. An abstract specification of what `UserKeys` promises to a user (a key is issued once, then served,
   then withdrawn), and the proof that `UserKeys` implements it where users keep their keys.
2. `KeyGeneratedOnce` and `TroubleShown` with deleted Secrets, under a weaker statement of what random
   draws avoid.
3. What `RestServed` is in each single disturbance, as `NoLostWork` is to `RestMeansLive`.
