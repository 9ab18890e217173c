------------------------------- MODULE UserKeys -------------------------------
(***************************************************************************)
(* The users of one account, from the NatsUser to the entry in the         *)
(* rendered configuration: the user loop of reconcileAccountsAndUsers and  *)
(* NKeySecretManager.EnsureNKeySecret.                                     *)
(*                                                                         *)
(* For every user the account's rules permit, the operator keeps a Secret  *)
(* with an NKey and an inbox prefix, copies the public key to the user's   *)
(* status and renders both.  NatsUsers are read from an informer cache,    *)
(* Secrets straight from the API server, and Secrets are not watched.      *)
(*                                                                         *)
(* What happens to the rendered configuration afterwards is the subject of *)
(* ClusterReload; here it is the single step Publish.                      *)
(***************************************************************************)
EXTENDS Naturals

CONSTANTS
    Users,          \* the names of the NatsUsers (one namespace each)
    Overrides,      \* values of spec.inboxPrefix
    Draws,          \* what the random generators draw from; bounds the draws
    None,           \* no key, no prefix, no user in work
    Environment,    \* the disturbances of this instance, see Disturbances
    MaxUpsets,      \* bound on edits, deletions and re-creations
    MaxFaults       \* bound on failed calls and operator restarts

\* What may happen beyond edits and deletions of users and edits of rules:
\*   recreate      a deleted user is created again under its name
\*   secretDelete  somebody deletes the Secret of a user
\*   rulesFail     the namespace of a user cannot be read
\*   labels        the labels of a namespace change what the rules permit
Disturbances == {"recreate", "secretDelete", "rulesFail", "labels"}

ASSUME ConstantsAssumption ==
    /\ None \notin Users \cup Overrides \cup Draws
    /\ Overrides \cap Draws = {}
    /\ Environment \subseteq Disturbances
    /\ MaxUpsets \in Nat
    /\ MaxFaults \in Nat

\* Random draws do not collide: every user can have had a key of its own.
ASSUME DrawsAssumption ==
    \E k \in [Users -> Draws] : \A u, v \in Users : k[u] = k[v] => u = v

\* An NKey pair is a draw; public key and seed are not distinguished.  uids
\* number the incarnations of one name; 0 is none.
Keys == Draws \cup {None}
Prefixes == Draws \cup Overrides \cup {None}
Reasons == {"", "Reconciled", "NamespaceNotAllowed", "NamespaceFetchError"}

User   == [uid : Nat, inboxPrefix : Overrides \cup {None}, insecure : BOOLEAN,
           nkeyPublicKey : Keys, ready : Reasons]
Secret == [key : Keys, prefix : Prefixes, owner : Nat]
Entry  == [key : Keys, prefix : Prefixes]

NoUser   == [uid |-> 0, inboxPrefix |-> None, insecure |-> FALSE,
             nkeyPublicKey |-> None, ready |-> ""]
NoSecret == [key |-> None, prefix |-> None, owner |-> 0]
NoEntry  == [key |-> None, prefix |-> None]

VARIABLES
    permitted,      \* the account's rules permit the user's namespace
    user,           \* the NatsUser; NoUser when there is none
    cached,         \* its copy in the cache
    cacheFresh,     \* that copy is the current version
    incarnations,   \* how often the name was used
    secret,         \* the Secret {name}-nats-nkey; NoSecret when there is none
    config,         \* the users section of the published configuration
    echo,           \* the watch event of a changed ConfigMap is under way
    queued,         \* the cluster's key is in the queue
    timer,          \* a delayed requeue of the key is pending
    \* Local variables of the reconcile.
    pc,
    todo,           \* users of the list not yet processed
    cur,            \* the user in work
    copy,           \* the listed users
    copyFresh,      \* each copy is the current version
    held,           \* the Secret EnsureNKeySecret read or wrote
    heldFresh,      \* it is the current version
    entries,        \* usersWithKeys
    statusUpdateFailed,
    upsets, faults

objVars   == <<user, cached, cacheFresh, incarnations>>
queueVars == <<echo, queued, timer>>
localVars == <<todo, cur, copy, copyFresh, held, heldFresh, entries, statusUpdateFailed>>
vars == <<permitted, objVars, secret, config, queueVars, pc, localVars,
          upsets, faults>>

TypeOK ==
    /\ permitted \in [Users -> BOOLEAN]
    /\ user \in [Users -> User] /\ cached \in [Users -> User] /\ copy \in [Users -> User]
    /\ cacheFresh \in [Users -> BOOLEAN] /\ copyFresh \in [Users -> BOOLEAN]
    /\ incarnations \in [Users -> Nat]
    /\ secret \in [Users -> Secret] /\ held \in Secret /\ heldFresh \in BOOLEAN
    /\ config \in [Users -> Entry] /\ entries \in [Users -> Entry]
    /\ echo \in BOOLEAN /\ queued \in BOOLEAN /\ timer \in BOOLEAN
    /\ pc \in {"idle", "users", "get", "create", "update", "key", "ready"}
    /\ todo \subseteq Users /\ cur \in Users \cup {None}
    /\ statusUpdateFailed \in BOOLEAN
    /\ upsets \in 0..MaxUpsets /\ faults \in 0..MaxFaults

-----------------------------------------------------------------------------
(* Helpers.                                                                *)

Upset == upsets < MaxUpsets /\ upsets' = upsets + 1
Fault == faults < MaxFaults /\ faults' = faults + 1

EndReconcile ==
    /\ pc' = "idle"
    /\ todo' = {} /\ cur' = None
    /\ copy' = [u \in Users |-> NoUser] /\ copyFresh' = [u \in Users |-> FALSE]
    /\ held' = NoSecret /\ heldFresh' = FALSE
    /\ entries' = [u \in Users |-> NoEntry]
    /\ statusUpdateFailed' = FALSE

\* Reconcile returns an error: the key comes back later.
Abort ==
    /\ EndReconcile
    /\ timer' = TRUE
    /\ UNCHANGED <<permitted, config, echo, queued, upsets>>

\* r.Status().Update(ctx, user) with content c is accepted.  A write that
\* changes nothing makes no new version.
StoreUser(u, c) ==
    /\ copyFresh[u]
    /\ user' = [user EXCEPT ![u] = c]
    /\ cacheFresh' = [cacheFresh EXCEPT ![u] = @ /\ c = user[u]]
    /\ UNCHANGED <<cached, incarnations>>

\* And it is answered: the object and the copy now have the same version.
WriteUser(u, c) ==
    /\ StoreUser(u, c)
    /\ copy' = [copy EXCEPT ![u] = c]
    /\ UNCHANGED copyFresh

\* setUserCondition; its error only makes the reconcile come back.  The write
\* may have taken effect then.
SetUserCondition(u, reason) ==
    \/ /\ WriteUser(u, [copy[u] EXCEPT !.ready = reason])
       /\ UNCHANGED <<statusUpdateFailed, faults>>
    \/ /\ ~copyFresh[u]
       /\ statusUpdateFailed' = TRUE
       /\ copy' = [copy EXCEPT ![u].ready = reason]
       /\ UNCHANGED <<objVars, copyFresh, faults>>
    \/ /\ Fault /\ statusUpdateFailed' = TRUE
       /\ \/ UNCHANGED <<objVars, copyFresh>>
          \/ LET c == [copy[u] EXCEPT !.ready = reason] IN
             /\ StoreUser(u, c)
             /\ copyFresh' = [copyFresh EXCEPT ![u] = c = user[u]]
       /\ copy' = [copy EXCEPT ![u].ready = reason]

\* The user leaves the loop with entry e of usersWithKeys.
NextUser(u, e) ==
    /\ pc' = "users"
    /\ todo' = todo \ {u} /\ cur' = None
    /\ entries' = [entries EXCEPT ![u] = e]
    /\ held' = NoSecret /\ heldFresh' = FALSE

-----------------------------------------------------------------------------
(* The reconcile.                                                          *)

\* The worker takes the key and lists accounts and users.
ListUsers ==
    /\ pc = "idle" /\ queued
    /\ queued' = FALSE
    /\ \/ /\ pc' = "users"
          /\ todo' = {u \in Users : cached[u].uid # 0}
          /\ copy' = cached /\ copyFresh' = cacheFresh
          /\ UNCHANGED <<timer, cur, held, heldFresh, entries, statusUpdateFailed, faults>>
       \/ Fault /\ EndReconcile /\ timer' = TRUE
    /\ UNCHANGED <<permitted, objVars, secret, config, echo, upsets>>

\* Take the next user and evaluate the rules.  A user they do not permit, or
\* whose namespace cannot be read, is told so and left out.
EvaluateRules(u) ==
    /\ pc = "users" /\ u \in todo
    /\ \/ /\ permitted[u]
          /\ pc' = "get" /\ cur' = u
          /\ UNCHANGED <<objVars, todo, copy, copyFresh, held, heldFresh, entries,
                         statusUpdateFailed, faults>>
       \/ /\ ~permitted[u]
          /\ SetUserCondition(u, "NamespaceNotAllowed")
          /\ NextUser(u, NoEntry)
       \/ /\ "rulesFail" \in Environment
          /\ SetUserCondition(u, "NamespaceFetchError")
          /\ NextUser(u, NoEntry)
    /\ UNCHANGED <<permitted, secret, config, queueVars, upsets>>

\* The Secret lacks the prefix the user should have, or has one although the
\* user shares its inbox.
NeedsUpdate(s, c) == (s.prefix = None) # c.insecure

\* A random draw differs from every other one that is still around.
InUse ==
    {held.key, held.prefix} \cup
    UNION {{user[u].nkeyPublicKey, cached[u].nkeyPublicKey, copy[u].nkeyPublicKey,
            secret[u].key, secret[u].prefix, config[u].key, config[u].prefix,
            entries[u].key, entries[u].prefix} : u \in Users}
Fresh == CHOOSE d \in Draws : d \notin InUse

\* (Mutant: no prefix is generated.)
ResolveEmptyPrefix(c) ==
    IF c.inboxPrefix # None THEN c.inboxPrefix ELSE ""

\* The prefix for user c, drawn at random unless the spec gives one.
ResolveInboxPrefix(c) ==
    IF c.inboxPrefix # None THEN c.inboxPrefix ELSE Fresh

\* (Mutant: a user without a key in its status is taken for a new one.)
FoundIfRecorded(u) == secret[u] # NoSecret /\ copy[u].nkeyPublicKey # None

SecretFound(u) == secret[u] # NoSecret

\* EnsureNKeySecret reads the Secret.
GetSecret ==
    /\ pc = "get"
    /\ \/ /\ held' = secret[cur] /\ heldFresh' = TRUE
          /\ pc' = IF ~SecretFound(cur) THEN "create"
                   ELSE IF NeedsUpdate(secret[cur], copy[cur]) THEN "update"
                   ELSE "key"
          /\ UNCHANGED <<permitted, objVars, config, queueVars, todo, cur,
                         copy, copyFresh, entries, statusUpdateFailed, upsets, faults>>
       \/ Fault /\ Abort /\ UNCHANGED objVars
    /\ UNCHANGED secret

\* (Mutant: the update draws a new key.)
RotatedSecret(s, c) ==
    [s EXCEPT !.key = Fresh,
              !.prefix = IF c.insecure THEN None ELSE ResolveInboxPrefix(c)]

\* The Secret with the prefix removed or added.
UpdatedSecret(s, c) ==
    [s EXCEPT !.prefix = IF c.insecure THEN None ELSE ResolveInboxPrefix(c)]

\* A new Secret with a new key, owned by the user.  (Keys and prefixes are never
\* compared with each other, so one draw stands for both.)
NewSecret(c) ==
    [key |-> Fresh, prefix |-> IF c.insecure THEN None ELSE ResolveInboxPrefix(c),
     owner |-> c.uid]

\* (Mutant: the error of the write is dropped.)
StoreSecretUnchecked(u, s) ==
    /\ ~(Draws \subseteq InUse)
    /\ secret' \in {secret, [secret EXCEPT ![u] = s]}

\* The Secret of user u becomes s.
StoreSecret(u, s) ==
    /\ ~(Draws \subseteq InUse)
    /\ secret' = [secret EXCEPT ![u] = s]

\* Update the Secret read before; the API server refuses if it changed since.
\* When the call fails the write may have taken effect.
UpdateSecret ==
    /\ pc = "update"
    /\ LET s == UpdatedSecret(held, copy[cur]) IN
       \/ /\ heldFresh
          /\ StoreSecret(cur, s)
          /\ held' = s /\ pc' = "key"
          /\ UNCHANGED <<permitted, objVars, config, queueVars, todo, cur, copy, copyFresh,
                         heldFresh, entries, statusUpdateFailed, upsets, faults>>
       \/ ~heldFresh /\ Abort /\ UNCHANGED <<objVars, secret, faults>>
       \/ /\ Fault /\ Abort /\ UNCHANGED objVars
          /\ (UNCHANGED secret \/ (heldFresh /\ StoreSecret(cur, s)))

\* Create the Secret; the API server refuses if there is one by now.
CreateSecret ==
    /\ pc = "create"
    /\ LET s == NewSecret(copy[cur]) IN
       \/ /\ secret[cur] = NoSecret
          /\ StoreSecret(cur, s)
          /\ held' = s /\ heldFresh' = TRUE /\ pc' = "key"
          /\ UNCHANGED <<permitted, objVars, config, queueVars, todo, cur, copy, copyFresh,
                         entries, statusUpdateFailed, upsets, faults>>
       \/ secret[cur] # NoSecret /\ Abort /\ UNCHANGED <<objVars, secret, faults>>
       \/ /\ Fault /\ Abort /\ UNCHANGED objVars
          /\ (UNCHANGED secret \/ (secret[cur] = NoSecret /\ StoreSecret(cur, s)))

\* Record the public key in the user's status unless it is there already.  A
\* conflict ends the whole reconcile; so does a failed call, which may have
\* taken effect.
RecordKey ==
    /\ pc = "key"
    /\ \/ /\ copy[cur].nkeyPublicKey = held.key
          /\ pc' = "ready"
          /\ UNCHANGED <<permitted, objVars, config, queueVars, localVars, upsets, faults>>
       \/ /\ copy[cur].nkeyPublicKey # held.key
          /\ WriteUser(cur, [copy[cur] EXCEPT !.nkeyPublicKey = held.key])
          /\ pc' = "ready"
          /\ UNCHANGED <<permitted, config, queueVars, todo, cur, held, heldFresh,
                         entries, statusUpdateFailed, upsets, faults>>
       \/ /\ copy[cur].nkeyPublicKey # held.key /\ ~copyFresh[cur]
          /\ Abort /\ UNCHANGED <<objVars, faults>>
       \/ /\ copy[cur].nkeyPublicKey # held.key /\ Fault /\ Abort
          /\ \/ UNCHANGED objVars
             \/ StoreUser(cur, [copy[cur] EXCEPT !.nkeyPublicKey = held.key])
    /\ UNCHANGED secret

\* Set Ready and append the user to usersWithKeys.
SetReady ==
    /\ pc = "ready"
    /\ SetUserCondition(cur, "Reconciled")
    /\ NextUser(cur, [key |-> held.key, prefix |-> held.prefix])
    /\ UNCHANGED <<permitted, secret, config, queueVars, upsets>>

\* (Mutant: failed status updates are not retried.)
ForgetStatusUpdate == FALSE

\* The result of Reconcile asks for another one.
RequeueAfter == statusUpdateFailed

\* The rest of Reconcile: the configuration is rendered and written to the
\* ConfigMap; a later step may fail after that.
Publish ==
    /\ pc = "users" /\ todo = {}
    /\ EndReconcile
    /\ \/ /\ config' = entries /\ timer' = (timer \/ RequeueAfter)
          /\ UNCHANGED faults
       \/ /\ Fault /\ config' \in {config, entries} /\ timer' = TRUE
    /\ echo' = (echo \/ config' # config)
    /\ UNCHANGED <<permitted, objVars, secret, queued, upsets>>

-----------------------------------------------------------------------------
(* Events, the clock, restarts.                                            *)

\* Watches(NatsUser): the cache learns the current version; mapUserToCluster
\* finds the cluster through the account and enqueues it.
UserEvent(u) ==
    /\ ~cacheFresh[u]
    /\ cached' = [cached EXCEPT ![u] = user[u]]
    /\ cacheFresh' = [cacheFresh EXCEPT ![u] = TRUE]
    /\ queued' = TRUE
    /\ UNCHANGED <<permitted, user, incarnations, secret, config, echo, timer, pc,
                   localVars, upsets, faults>>

\* Owns(ConfigMap).
ConfigMapEvent ==
    /\ echo
    /\ echo' = FALSE /\ queued' = TRUE
    /\ UNCHANGED <<permitted, objVars, secret, config, timer, pc, localVars,
                   upsets, faults>>

TimerFires ==
    /\ timer
    /\ timer' = FALSE /\ queued' = TRUE
    /\ UNCHANGED <<permitted, objVars, secret, config, echo, pc, localVars,
                   upsets, faults>>

\* Another event enqueues the cluster: one of another user or of the account,
\* or a resync.
OtherEvent ==
    /\ pc = "idle" /\ ~queued
    /\ queued' = TRUE
    /\ UNCHANGED <<permitted, objVars, secret, config, echo, timer, pc, localVars,
                   upsets, faults>>

\* The operator process dies and a new one lists every object afresh.
RestartOperator ==
    /\ Fault
    /\ EndReconcile
    /\ cached' = user /\ cacheFresh' = [u \in Users |-> TRUE]
    /\ echo' = FALSE /\ queued' = TRUE /\ timer' = FALSE
    /\ UNCHANGED <<permitted, user, incarnations, secret, config, upsets>>

-----------------------------------------------------------------------------
(* Users of the cluster and the garbage collector.                         *)

\* The NatsUser becomes c; every copy of it is out of date.
ChangeUser(u, c) ==
    /\ user' = [user EXCEPT ![u] = c]
    /\ cacheFresh' = [cacheFresh EXCEPT ![u] = FALSE]
    /\ copyFresh' = [copyFresh EXCEPT ![u] = FALSE]
    /\ UNCHANGED <<permitted, cached, secret, config, queueVars, pc, todo, cur,
                   copy, held, heldFresh, entries, statusUpdateFailed, faults>>

CreateUser(u, o, i) ==
    /\ user[u].uid = 0
    /\ \/ incarnations[u] = 0 /\ UNCHANGED upsets
       \/ incarnations[u] # 0 /\ "recreate" \in Environment /\ Upset
    /\ incarnations' = [incarnations EXCEPT ![u] = @ + 1]
    /\ ChangeUser(u, [NoUser EXCEPT !.uid = incarnations[u] + 1,
                                    !.inboxPrefix = o, !.insecure = i])

EditUser(u, o, i) ==
    /\ user[u].uid # 0 /\ Upset
    /\ <<o, i>> # <<user[u].inboxPrefix, user[u].insecure>>
    /\ ChangeUser(u, [user[u] EXCEPT !.inboxPrefix = o, !.insecure = i])
    /\ UNCHANGED incarnations

DeleteUser(u) ==
    /\ user[u].uid # 0 /\ Upset
    /\ ChangeUser(u, NoUser)
    /\ UNCHANGED incarnations

\* The rules of the account change, which enqueues the cluster, or the labels
\* of the user's namespace do, which nobody watches.
ChangePermission(u) ==
    /\ Upset
    /\ permitted' = [permitted EXCEPT ![u] = ~@]
    /\ \/ queued' = TRUE
       \/ "labels" \in Environment /\ UNCHANGED queued
    /\ UNCHANGED <<objVars, secret, config, echo, timer, pc, localVars, faults>>

\* The Secret of user u goes away.
DropSecret(u) ==
    /\ secret[u] # NoSecret
    /\ secret' = [secret EXCEPT ![u] = NoSecret]
    /\ heldFresh' = (heldFresh /\ cur # u)
    /\ UNCHANGED <<permitted, objVars, config, queueVars, pc, todo, cur, copy,
                   copyFresh, held, entries, statusUpdateFailed, faults>>

\* The garbage collector deletes a Secret whose owner is gone; a new NatsUser
\* of the same name is not its owner.
CollectSecret(u) ==
    /\ secret[u].owner # user[u].uid
    /\ DropSecret(u)
    /\ UNCHANGED upsets

DeleteSecret(u) ==
    /\ "secretDelete" \in Environment /\ Upset
    /\ DropSecret(u)

-----------------------------------------------------------------------------
\* Keys drawn before this operator was installed.
OldKeys ==
    CHOOSE k \in [Users -> Draws] : \A u, v \in Users : k[u] = k[v] => u = v

\* A user does not exist yet, or was served by an operator that knew no inbox
\* prefixes ("upgrade from pre-isolation secrets").
Init ==
    /\ permitted \in [Users -> BOOLEAN]
    /\ \E old \in SUBSET Users :
          /\ user = [u \in Users |-> IF u \in old
                        THEN [NoUser EXCEPT !.uid = 1, !.nkeyPublicKey = OldKeys[u],
                                            !.ready = "Reconciled"]
                        ELSE NoUser]
          /\ secret = [u \in Users |-> IF u \in old
                          THEN [NoSecret EXCEPT !.key = OldKeys[u], !.owner = 1]
                          ELSE NoSecret]
          /\ config = [u \in Users |-> IF u \in old
                          THEN [NoEntry EXCEPT !.key = OldKeys[u]] ELSE NoEntry]
          /\ incarnations = [u \in Users |-> IF u \in old THEN 1 ELSE 0]
    /\ cached = user /\ cacheFresh = [u \in Users |-> TRUE]
    /\ echo = FALSE /\ queued = TRUE /\ timer = FALSE
    /\ pc = "idle" /\ todo = {} /\ cur = None
    /\ copy = [u \in Users |-> NoUser] /\ copyFresh = [u \in Users |-> FALSE]
    /\ held = NoSecret /\ heldFresh = FALSE
    /\ entries = [u \in Users |-> NoEntry]
    /\ statusUpdateFailed = FALSE
    /\ upsets = 0 /\ faults = 0

Worker ==
    \/ ListUsers
    \/ \E u \in Users : EvaluateRules(u)
    \/ GetSecret \/ UpdateSecret \/ CreateSecret \/ RecordKey \/ SetReady \/ Publish

UserStep(u) ==
    \/ UserEvent(u)
    \/ \E o \in Overrides \cup {None}, i \in BOOLEAN : CreateUser(u, o, i) \/ EditUser(u, o, i)
    \/ DeleteUser(u) \/ ChangePermission(u)
    \/ CollectSecret(u) \/ DeleteSecret(u)

Next ==
    \/ Worker \/ ConfigMapEvent \/ TimerFires \/ OtherEvent \/ RestartOperator
    \/ \E u \in Users : UserStep(u)

\* The worker goes on, timers fire and watches deliver.
Fairness ==
    /\ WF_vars(Worker) /\ WF_vars(TimerFires) /\ WF_vars(ConfigMapEvent)
    /\ \A u \in Users : WF_vars(UserEvent(u))

Spec == Init /\ [][Next]_vars
FairSpec == Spec /\ Fairness

-----------------------------------------------------------------------------
(* Properties.                                                             *)

\* The user is to be in the configuration.
Entitled(u) == user[u].uid # 0 /\ permitted[u]

\* User u is served by entry e: the entry has the key of its Secret and of its
\* status, and a prefix just if the spec does not share the inbox; a user that
\* is gone or not permitted has none.  Which prefix is not said: the one a Secret
\* got first stays, and a spec.inboxPrefix that is set or changed afterwards is
\* ignored, although natsuser_types.go:31 says that it overrides.
ServedBy(u, e) ==
    IF Entitled(u)
    THEN /\ secret[u] # NoSecret
         /\ user[u].nkeyPublicKey = secret[u].key
         /\ user[u].ready = "Reconciled"
         /\ e = [key |-> secret[u].key, prefix |-> secret[u].prefix]
         /\ (secret[u].prefix = None) = user[u].insecure
    ELSE e = NoEntry

Served(u) == ServedBy(u, config[u])

\* The status of user u tells the truth about entry e: the user is Ready just if
\* it has an entry, and the entry has the key of the status.
TrueOf(u, e) ==
    IF user[u].uid # 0 /\ user[u].ready = "Reconciled"
    THEN e.key # None /\ e.key = user[u].nkeyPublicKey
    ELSE e = NoEntry

Quiescent ==
    /\ pc = "idle" /\ ~queued /\ ~timer /\ ~echo
    /\ \A u \in Users : cacheFresh[u]

\* When the operator has come to rest every user is served, with its key and
\* isolated unless it shares the inbox, whatever calls failed and wherever the operator was restarted between
\* creating the Secret, recording its key and publishing it.
RestServed == Quiescent => \A u \in Users : Served(u)

\* When the operator has come to rest the status of a user tells what the
\* configuration says of it: the user is Ready just if it has an entry, and
\* the entry has the key of the status.  This holds in every environment: also
\* when the user was left out because its namespace could not be read, when its
\* name was used before, and when its Secret is lost.
StatusTruthful ==
    Quiescent => \A u \in Users : TrueOf(u, config[u])

\* A published key of an existing user is one whose seed is in the user's
\* Secret: no failed write and no restart publishes a key nobody holds.
PublishedKeyHeld ==
    \A u \in Users : user[u].uid # 0 /\ config[u] # NoEntry => secret[u].key = config[u].key

\* The key of a Secret and the key in the status of a user never change while
\* the user exists: "Seeds are generated once and never regenerated on
\* subsequent reconciliations".
KeyGeneratedOnce ==
    [][\A u \in Users : user'[u].uid = user[u].uid =>
          /\ user[u].nkeyPublicKey # None => user'[u].nkeyPublicKey = user[u].nkeyPublicKey
          /\ secret[u] # NoSecret /\ secret[u].owner = user[u].uid
                => secret'[u].key = secret[u].key]_vars

\* In the end every user is served, with its key and isolated unless it shares
\* the inbox, and stays so.
EventuallyServed == <>[](\A u \in Users : Served(u))

\* When the operator has come to rest every user that may connect has a Secret:
\* "It ensures a Secret with NKey seed/public key (and inbox prefix) exists for
\* each user".  (Part of RestServed, stated for a name that is used again.)
SecretAtRest ==
    Quiescent => \A u \in Users : Entitled(u) => secret[u] # NoSecret
=============================================================================
