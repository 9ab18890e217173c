------------------------------- MODULE Accounts -------------------------------
(***************************************************************************)
(* Accounts and users over time: edits that move a user to another account *)
(* or an account to another cluster, the events that make the operator     *)
(* look at the right cluster again, and what the status of accounts and    *)
(* users says when it has come to rest.                                    *)
(*                                                                         *)
(* One worker serves the keys of all clusters.  Accounts and users are     *)
(* read from informer caches; every write of a status carries the version  *)
(* that was read and is refused when there is a newer one, so the status   *)
(* in an outdated copy is never written and copies have no status here.  A *)
(* write that changes an object is an event of this object, also when the  *)
(* operator itself wrote it.                                               *)
(*                                                                         *)
(* Every user is permitted here and its Secret is a call that may fail;    *)
(* rules are the subject of RenderConfig, Secrets of UserKeys, and what    *)
(* happens to the ConfigMap of ClusterReload.  A key that is to come back  *)
(* later, or with the event of the ConfigMap just written, is put into the *)
(* queue at once: when the worker takes it is open anyway.                 *)
(***************************************************************************)
EXTENDS Naturals, FiniteSets, SequencesExt

CONSTANTS
    Clusters,       \* the names of the NatsClusters, all of one namespace
    Accounts,       \* the names of the NatsAccounts of this namespace
    Users,          \* the NatsUsers, of any namespace
    Name,           \* their names, as numbers; users of one name may exist
    None,           \* no cluster, no account
    Specs,          \* the specs accounts have
    Start,          \* what there is when the operator starts
    MaxUpsets,      \* bound on edits
    MaxFaults       \* bound on failed calls and operator restarts

ASSUME ConstantsAssumption ==
    /\ None \notin Clusters \cup Accounts
    /\ IsFiniteSet(Users) /\ Name \in [Users -> Nat]
    /\ MaxUpsets \in Nat /\ MaxFaults \in Nat

\* An account that does not exist refers to no cluster, a user that does not
\* exist to no account.
Account == [cluster : Clusters \cup {None}, systemAccount : BOOLEAN, validRegex : BOOLEAN]
Status  == [ready : {"", "Reconciled", "InvalidRegex", "SystemAccountConflict"},
            userCount : 0..Cardinality(Users)]

NoAccount == [cluster |-> None, systemAccount |-> FALSE, validRegex |-> TRUE]
NoStatus  == [ready |-> "", userCount |-> 0]

ASSUME StartAssumption ==
    /\ Specs \subseteq Account
    /\ \A s \in Specs : s.cluster = None => s = NoAccount
    /\ Start \subseteq [clusters : SUBSET Clusters, account : [Accounts -> Specs],
                        user : [Users -> Accounts \cup {None}]]

VARIABLES
    clusters,       \* the NatsClusters there are
    account,        \* spec of each NatsAccount
    status,         \* and its status
    user,           \* account each NatsUser refers to
    userReady,      \* its Ready condition is True
    acctCached, userCached,     \* the copies in the cache
    acctFresh, userFresh,       \* those copies are the current versions
    config,         \* by cluster: account to sequence of users, in the ConfigMap
    queue,          \* clusters in the work queue
    \* Local variables of the reconcile.
    pc, cur,
    acctCopy, userCopy,         \* the listed accounts and users
    acctHeld, userHeld,         \* those copies are the current versions
    todo,           \* accounts of the list not yet processed
    accountsWithUsers,          \* account to sequence of users
    statusUpdateFailed,
    upsets, faults

objVars   == <<account, status, user, userReady>>
cacheVars == <<acctCached, userCached, acctFresh, userFresh>>
localVars == <<cur, acctCopy, userCopy, acctHeld, userHeld, todo, accountsWithUsers,
               statusUpdateFailed>>
vars == <<clusters, objVars, cacheVars, config, queue, pc, localVars, upsets, faults>>

\* The accounts section of a configuration: some accounts with their users.
IsSections(f) == DOMAIN f \subseteq Accounts /\ \A a \in DOMAIN f : f[a] \in Seq(Users)
NoSections == [a \in {} |-> <<>>]

TypeOK ==
    /\ clusters \subseteq Clusters
    /\ account \in [Accounts -> Account] /\ status \in [Accounts -> Status]
    /\ user \in [Users -> Accounts \cup {None}] /\ userReady \in [Users -> BOOLEAN]
    /\ acctCached \in [Accounts -> Account] /\ acctFresh \in [Accounts -> BOOLEAN]
    /\ userCached \in [Users -> Accounts \cup {None}] /\ userFresh \in [Users -> BOOLEAN]
    /\ DOMAIN config = Clusters /\ \A c \in Clusters : IsSections(config[c])
    /\ queue \subseteq Clusters
    /\ pc \in {"idle", "list", "accounts", "convert", "publish"}
    /\ cur \in Clusters \cup {None}
    /\ acctCopy \in [Accounts -> Account] /\ acctHeld \in [Accounts -> BOOLEAN]
    /\ userCopy \in [Users -> Accounts \cup {None}] /\ userHeld \in [Users -> BOOLEAN]
    /\ todo \subseteq Accounts
    /\ IsSections(accountsWithUsers)
    /\ statusUpdateFailed \in BOOLEAN
    /\ upsets \in 0..MaxUpsets /\ faults \in 0..MaxFaults

-----------------------------------------------------------------------------
(* Helpers.                                                                *)

Upset == upsets < MaxUpsets /\ upsets' = upsets + 1
Fault == faults < MaxFaults /\ faults' = faults + 1

EndReconcile ==
    /\ pc' = "idle" /\ cur' = None
    /\ acctCopy' = [a \in Accounts |-> NoAccount] /\ userCopy' = [u \in Users |-> None]
    /\ acctHeld' = [a \in Accounts |-> FALSE] /\ userHeld' = [u \in Users |-> FALSE]
    /\ todo' = {} /\ accountsWithUsers' = NoSections
    /\ statusUpdateFailed' = FALSE

\* setAccountCondition for the accounts in DOMAIN written: refused where the
\* copy is out of date; where the call fails it may have taken effect (done)
\* or not.  A write that changes nothing makes no new version.
SetAccountConditions(written, failed, done) ==
    LET ok == {a \in DOMAIN written : acctHeld[a] /\ (a \in failed => a \in done)} IN
    /\ status' = [a \in Accounts |-> IF a \in ok THEN written[a] ELSE status[a]]
    /\ acctFresh' = [a \in Accounts |-> acctFresh[a] /\ status'[a] = status[a]]
    /\ acctHeld' = [a \in Accounts |-> acctHeld[a] /\ (a \in failed => status'[a] = status[a])]

\* setUserCondition with reason Reconciled for the users in us.
SetUserConditions(us, failed, done) ==
    LET ok == {u \in us : userHeld[u] /\ (u \in failed => u \in done)} IN
    /\ userReady' = [u \in Users |-> userReady[u] \/ u \in ok]
    /\ userFresh' = [u \in Users |-> userFresh[u] /\ userReady'[u] = userReady[u]]

\* No call fails, or some do.
Failures(failed) == IF failed = {} THEN UNCHANGED faults ELSE Fault

-----------------------------------------------------------------------------
(* The reconcile.                                                          *)

\* The worker takes a key and lists the accounts that refer to the cluster.
ListMatchingAccounts(c) ==
    /\ pc = "idle" /\ c \in queue
    /\ \/ /\ c \notin clusters
          /\ queue' = queue \ {c}
          /\ UNCHANGED <<pc, localVars, faults>>
       \/ /\ c \in clusters
          /\ queue' = queue \ {c}
          /\ pc' = "list" /\ cur' = c
          /\ todo' = {a \in Accounts : acctCached[a].cluster = c}
          /\ acctCopy' = [a \in Accounts |-> IF a \in todo' THEN acctCached[a] ELSE NoAccount]
          /\ acctHeld' = [a \in Accounts |-> a \in todo' /\ acctFresh[a]]
          /\ UNCHANGED <<userCopy, userHeld, accountsWithUsers, statusUpdateFailed, faults>>
       \/ Fault /\ UNCHANGED <<queue, pc, localVars>>
    /\ UNCHANGED <<clusters, objVars, cacheVars, config, upsets>>

\* Then all users.
ListAllUsers ==
    /\ pc = "list"
    /\ \/ /\ pc' = IF todo = {} THEN "convert" ELSE "accounts"
          /\ userCopy' = userCached /\ userHeld' = userFresh
          /\ UNCHANGED <<queue, cur, acctCopy, acctHeld, todo, accountsWithUsers,
                         statusUpdateFailed, faults>>
       \/ Fault /\ EndReconcile /\ queue' = queue \cup {cur}
    /\ UNCHANGED <<clusters, objVars, cacheVars, config, upsets>>

\* The users that refer to account a, in any namespace.
UsersOf(a) == {u \in Users : userCopy[u] = a}

\* (Mutant: users stay in the order in which they were listed.)
AsListed(S) == SetToSeqs(S)

\* What sorting by name can return: users of the same name stay in the order
\* in which they were listed, which is arbitrary.
SortedByName(S) ==
    {s \in SetToSeqs(S) : \A i, j \in DOMAIN s : i < j => Name[s[i]] <= Name[s[j]]}

\* EnsureNKeySecret fails when a call does, or when its copy of a user is out of
\* date; this ends the reconcile.  Some users before that one were told.
EnsureNKeySecretFails(a) ==
    \E u \in UsersOf(a), S \in SUBSET UsersOf(a) :
        /\ u \notin S
        /\ Fault \/ (~userHeld[u] /\ UNCHANGED faults)
        /\ SetUserConditions(S, {}, {})
        /\ EndReconcile /\ queue' = queue \cup {cur}
        /\ UNCHANGED <<status, acctFresh>>

\* (Mutant: the users are counted on top of those counted before.)
CountAdded(a) ==
    [ready |-> "Reconciled", userCount |-> status[a].userCount + Cardinality(UsersOf(a))]

\* The status of an account that is rendered, and of one that is left out
\* because of an invalid regular expression; its count stays.
AccountStatus(a) ==
    IF acctCopy[a].validRegex
    THEN [ready |-> "Reconciled", userCount |-> Cardinality(UsersOf(a))]
    ELSE [status[a] EXCEPT !.ready = "InvalidRegex"]

\* One turn of the account loop: tell the users and the account.  The writes
\* are to different objects, so what happens between two of them could as well
\* happen before or after all of them.
ProcessAccount(a) ==
    /\ pc = "accounts" /\ a \in todo
    /\ \/ LET us == IF acctCopy[a].validRegex THEN UsersOf(a) ELSE {} IN
          /\ \E failed \in SUBSET (us \cup {a}) : \E done \in SUBSET failed :
                /\ SetUserConditions(us, failed, done)
                /\ SetAccountConditions([b \in {a} |-> AccountStatus(b)], failed, done)
                /\ Failures(failed)
                /\ statusUpdateFailed' = (statusUpdateFailed \/ failed # {} \/ ~acctHeld[a]
                                             \/ \E u \in us : ~userHeld[u])
          /\ \E s \in SortedByName(us) :
                accountsWithUsers' =
                    [b \in DOMAIN accountsWithUsers \cup {d \in {a} : acctCopy[d].validRegex} |->
                        IF b = a THEN s ELSE accountsWithUsers[b]]
          /\ todo' = todo \ {a} /\ pc' = IF todo' = {} THEN "convert" ELSE pc
          /\ UNCHANGED <<queue, cur, acctCopy, userCopy, userHeld>>
       \/ acctCopy[a].validRegex /\ EnsureNKeySecretFails(a)
    /\ UNCHANGED <<clusters, account, user, acctCached, userCached, config, upsets>>

\* (Mutant: only one of the accounts in conflict is told.)
OneConflict ==
    LET flagged == {a \in DOMAIN accountsWithUsers : acctCopy[a].systemAccount}
    IN IF Cardinality(flagged) > 1 THEN {CHOOSE a \in flagged : TRUE} ELSE {}

\* (Mutant: an account that asks alone is taken for a conflict.)
EveryRequest == {a \in DOMAIN accountsWithUsers : acctCopy[a].systemAccount}

\* The accounts that cannot be the system account together.
SystemAccountConflicts ==
    LET flagged == {a \in DOMAIN accountsWithUsers : acctCopy[a].systemAccount}
    IN IF Cardinality(flagged) > 1 THEN flagged ELSE {}

\* The copy of such an account has its count since ProcessAccount, whether it
\* could be written then or not.
ConflictStatus(a) ==
    [ready |-> "SystemAccountConflict", userCount |-> Cardinality(UsersOf(a))]

\* Each of them is told, after it was told that it is Ready.
ReportConflicts ==
    /\ pc = "convert"
    /\ \E failed \in SUBSET SystemAccountConflicts : \E done \in SUBSET failed :
          /\ SetAccountConditions(
                [a \in SystemAccountConflicts |-> ConflictStatus(a)], failed, done)
          /\ Failures(failed)
          /\ statusUpdateFailed' = (statusUpdateFailed \/ failed # {}
                                       \/ \E a \in SystemAccountConflicts : ~acctHeld[a])
    /\ pc' = "publish"
    /\ UNCHANGED <<clusters, account, user, userReady, acctCached, userCached, userFresh,
                   config, queue, cur, acctCopy, userCopy, userHeld, todo,
                   accountsWithUsers, upsets>>

\* (Mutant: failed status updates are not retried.)
ForgetStatusUpdate == FALSE

\* The result of Reconcile asks for another one.
RequeueAfter == statusUpdateFailed

\* The ConfigMap is written, whose event enqueues the cluster if it changed, and
\* the reconcile ends; when a call fails the write may have taken effect.
Publish ==
    /\ pc = "publish"
    /\ EndReconcile
    /\ LET written == [config EXCEPT ![cur] = accountsWithUsers] IN
       \/ /\ config' = written
          /\ queue' = IF RequeueAfter \/ config' # config THEN queue \cup {cur} ELSE queue
          /\ UNCHANGED faults
       \/ Fault /\ config' \in {config, written} /\ queue' = queue \cup {cur}
    /\ UNCHANGED <<clusters, objVars, cacheVars, upsets>>

-----------------------------------------------------------------------------
(* Events and restarts.                                                    *)

\* mapAccountToCluster, applied to the old and to the new object.
MapAccountToCluster(old, new) == {old.cluster, new.cluster} \ {None}

\* mapUserToCluster for a user of account a: its cluster if the cache has the
\* account, none otherwise.
MapUserToCluster(a) ==
    IF a = None THEN {} ELSE {acctCached[a].cluster} \ {None}

\* (Mutant: the event is dropped.)
NoFallback == {}

\* And when the look-up fails: every cluster of the namespace.
AllClustersInNamespace == clusters

AccountEvent(a) ==
    /\ ~acctFresh[a]
    /\ acctCached' = [acctCached EXCEPT ![a] = account[a]]
    /\ acctFresh' = [acctFresh EXCEPT ![a] = TRUE]
    /\ queue' = queue \cup MapAccountToCluster(acctCached[a], account[a])
    /\ UNCHANGED <<clusters, objVars, userCached, userFresh, config, pc, localVars,
                   upsets, faults>>

\* Also applied to the old and to the new object.
UserEvent(u) ==
    /\ ~userFresh[u]
    /\ userCached' = [userCached EXCEPT ![u] = user[u]]
    /\ userFresh' = [userFresh EXCEPT ![u] = TRUE]
    /\ \/ /\ queue' = queue \cup MapUserToCluster(userCached[u]) \cup MapUserToCluster(user[u])
          /\ UNCHANGED faults
       \/ Fault /\ queue' = queue \cup AllClustersInNamespace
    /\ UNCHANGED <<clusters, objVars, acctCached, acctFresh, config, pc, localVars, upsets>>

\* The operator process dies and a new one lists every object afresh.
RestartOperator ==
    /\ Fault
    /\ EndReconcile
    /\ acctCached' = account /\ acctFresh' = [a \in Accounts |-> TRUE]
    /\ userCached' = user /\ userFresh' = [u \in Users |-> TRUE]
    /\ queue' = clusters
    /\ UNCHANGED <<clusters, objVars, config, upsets>>

-----------------------------------------------------------------------------
(* Users of the cluster.                                                   *)

\* A NatsCluster is created; For(NatsCluster) enqueues it.
CreateCluster(c) ==
    /\ c \notin clusters /\ Upset
    /\ clusters' = clusters \cup {c} /\ queue' = queue \cup {c}
    /\ UNCHANGED <<objVars, cacheVars, config, pc, localVars, faults>>

\* An account is created, edited or, with NoAccount, deleted.  A new one has no
\* status.
EditAccount(a, spec) ==
    /\ Upset
    /\ spec # account[a]
    /\ account' = [account EXCEPT ![a] = spec]
    /\ status' = IF spec = NoAccount THEN [status EXCEPT ![a] = NoStatus] ELSE status
    /\ acctFresh' = [acctFresh EXCEPT ![a] = FALSE]
    /\ acctHeld' = [acctHeld EXCEPT ![a] = FALSE]
    /\ UNCHANGED <<clusters, user, userReady, acctCached, userCached, userFresh, config,
                   queue, pc, cur, acctCopy, userCopy, userHeld, todo, accountsWithUsers,
                   statusUpdateFailed, faults>>

\* A user is created, moved to another account or, with None, deleted.
EditUser(u, a) ==
    /\ Upset
    /\ user[u] # a
    /\ user' = [user EXCEPT ![u] = a]
    /\ userReady' = [userReady EXCEPT ![u] = @ /\ a # None]
    /\ userFresh' = [userFresh EXCEPT ![u] = FALSE]
    /\ userHeld' = [userHeld EXCEPT ![u] = FALSE]
    /\ UNCHANGED <<clusters, account, status, acctCached, userCached, acctFresh, config,
                   queue, pc, cur, acctCopy, userCopy, acctHeld, todo, accountsWithUsers,
                   statusUpdateFailed, faults>>

-----------------------------------------------------------------------------
\* The operator starts where there are clusters, accounts and users.
Init ==
    /\ \E s \in Start :
          clusters = s.clusters /\ account = s.account /\ user = s.user
    /\ status = [a \in Accounts |-> NoStatus]
    /\ userReady = [u \in Users |-> FALSE]
    /\ acctCached = account /\ acctFresh = [a \in Accounts |-> TRUE]
    /\ userCached = user /\ userFresh = [u \in Users |-> TRUE]
    /\ config = [c \in Clusters |-> NoSections]
    /\ queue = clusters
    /\ pc = "idle" /\ cur = None
    /\ acctCopy = [a \in Accounts |-> NoAccount] /\ userCopy = [u \in Users |-> None]
    /\ acctHeld = [a \in Accounts |-> FALSE] /\ userHeld = [u \in Users |-> FALSE]
    /\ todo = {} /\ accountsWithUsers = NoSections
    /\ statusUpdateFailed = FALSE
    /\ upsets = 0 /\ faults = 0

Worker ==
    \/ \E c \in Clusters : ListMatchingAccounts(c)
    \/ ListAllUsers
    \/ \E a \in Accounts : ProcessAccount(a)
    \/ ReportConflicts \/ Publish

Edits ==
    \/ \E c \in Clusters : CreateCluster(c)
    \/ \E a \in Accounts, s \in Specs : EditAccount(a, s)
    \/ \E u \in Users, a \in Accounts \cup {None} : EditUser(u, a)

Next ==
    \/ Worker \/ Edits \/ RestartOperator
    \/ \E a \in Accounts : AccountEvent(a)
    \/ \E u \in Users : UserEvent(u)

\* The worker goes on and takes every key in its turn, and watches deliver.
Fairness ==
    /\ WF_vars(Worker)
    /\ \A c \in Clusters : SF_vars(ListMatchingAccounts(c))
    /\ \A a \in Accounts : WF_vars(AccountEvent(a))
    /\ \A u \in Users : WF_vars(UserEvent(u))

Spec == Init /\ [][Next]_vars
FairSpec == Spec /\ Fairness

-----------------------------------------------------------------------------
(* Properties.                                                             *)

Quiescent ==
    /\ pc = "idle" /\ queue = {}
    /\ \A a \in Accounts : acctFresh[a]
    /\ \A u \in Users : userFresh[u]

Attached(a, c) == account[a].cluster = c /\ account[a].validRegex
Members(a) == {u \in Users : user[u] = a}

\* When the operator has come to rest the configuration of each cluster has its
\* accounts and their users and no others, whatever was moved, created or
\* deleted in whatever order, and wherever an event found nothing to map to.
RestRendered ==
    Quiescent => \A c \in clusters :
        /\ DOMAIN config[c] = {a \in Accounts : Attached(a, c)}
        /\ \A a \in DOMAIN config[c] : config[c][a] \in SortedByName(Members(a))

\* When the operator has come to rest each account of a cluster has the
\* condition and the count of what was rendered of it, and each rendered user
\* is Ready.
RestTold ==
    Quiescent => \A c \in clusters : \A a \in Accounts :
        /\ Attached(a, c) =>
              /\ status[a] = [ready |-> "Reconciled", userCount |-> Cardinality(Members(a))]
              /\ \A u \in Members(a) : userReady[u]
        /\ account[a].cluster = c /\ ~account[a].validRegex =>
              status[a].ready = "InvalidRegex"

InConflict(a, c) ==
    /\ Attached(a, c) /\ account[a].systemAccount
    /\ \E b \in Accounts \ {a} : Attached(b, c) /\ account[b].systemAccount

NoConflict == \A c \in clusters, a \in Accounts : ~InConflict(a, c)
UniqueNames == \A u, v \in Users : Name[u] = Name[v] => u = v

\* Unless accounts are in conflict, or users of one name exist, the operator
\* comes to rest: its own status writes and their events die down.
Settles == UniqueNames /\ <>[]NoConflict => <>[]Quiescent

\* Accounts that stay in conflict are told so again and again, although each
\* reconcile first tells them that they are Ready.
ConflictTold ==
    \A c \in Clusters, a \in Accounts :
        <>[](c \in clusters /\ InConflict(a, c))
            => []<>(status[a].ready = "SystemAccountConflict")

\* The ConfigMap, and with it the hash, only changes when there are other
\* accounts or users, unless users of one name exist: "Config generation is
\* deterministic (sorted by name) and idempotent".
Deterministic ==
    [][\A c \in Clusters : UniqueNames /\ config'[c] # config[c] =>
          \/ DOMAIN config'[c] # DOMAIN config[c]
          \/ \E a \in DOMAIN config[c] : Range(config'[c][a]) # Range(config[c][a])]_vars
=============================================================================
