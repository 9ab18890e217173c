----------------------------- MODULE RenderConfig -----------------------------
(***************************************************************************)
(* Steps 2 to 5 of Reconcile for one snapshot of clusters, accounts, users *)
(* and namespaces: which accounts and users are rendered, what is said in  *)
(* their status, and what the server makes of the rendered configuration.  *)
(*                                                                         *)
(* The users have the keys and prefixes of their Secrets already (see      *)
(* UserKeys); a failed status update and what happens over time are the    *)
(* subject of UserKeys and Accounts.                                       *)
(***************************************************************************)
EXTENDS NatsConfig, UserRules, FiniteSets

\* The snapshots to look at.  Each has the cluster to reconcile, all accounts
\* and users, and the labels of every namespace that can be read.
CONSTANT Snapshots

\* What the API server guarantees of names and types, and the operator of keys.
\* Every object is in a namespace; a reference may leave it out.  A quantity is
\* counted in parts of a byte, so fractions are among them.
WellFormedUser(u) ==
    /\ DOMAIN u = {"name", "namespace", "accountRef", "key", "permissions", "inboxPrefix"}
    /\ DOMAIN u.accountRef = {"name", "namespace"}
    /\ u.namespace # "" /\ u.key \notin {None, SentinelNKey}
    /\ u.inboxPrefix \in InboxPrefixes \cup {None}
    /\ u.permissions # None =>
          /\ u.permissions.publish \in Rule \cup {None}
          /\ u.permissions.subscribe \in Rule \cup {None}
          /\ u.permissions.allowResponses # None =>
                u.permissions.allowResponses.boolValue \in BOOLEAN \cup {None}
WellFormedAccount(a) ==
    /\ DOMAIN a = {"name", "namespace", "clusterRef", "userRules", "systemAccount",
                   "jetstream", "limits"}
    /\ a.namespace # "" /\ a.name # None
    /\ Len(a.userRules) \in Nat /\ DOMAIN a.userRules = 1..Len(a.userRules)
    /\ \A i \in DOMAIN a.userRules : a.userRules[i].action \in {"grant", "deny"}
    /\ \A b \in {a.jetstream, a.limits} :
          b # None => \A f \in DOMAIN b \cap QuantityFields : b[f] \in Int \cup {None}
WellFormedCluster(c) == DOMAIN c = {"name", "namespace"} /\ c.namespace # ""
ASSUME SnapshotsAssumption ==
    \A s \in Snapshots :
        /\ WellFormedCluster(s.cluster)
        /\ IsFiniteSet(s.accounts)
        /\ \A a \in s.accounts : WellFormedAccount(a)
        /\ \A a, b \in s.accounts : a.name = b.name /\ a.namespace = b.namespace => a = b
        /\ \A u \in s.users :
              /\ WellFormedUser(u)
              /\ \A v \in s.users : u.key = v.key => u = v

VARIABLES
    snapshot,       \* what the caches show
    todo,           \* listed accounts not yet processed
    withUsers,      \* accountsWithUsers
    ready,          \* reason of the Ready condition, by account name
    userReady,      \* and by user
    isSystem,       \* keys of the users stamped IsSystemAccount
    text,           \* the rendered configuration
    pc

vars == <<snapshot, todo, withUsers, ready, userReady, isSystem, text, pc>>

\* listMatchingAccounts: those of the cluster's namespace that refer to it.
ListMatchingAccounts(s) ==
    {a \in s.accounts : a.namespace = s.cluster.namespace /\ a.clusterRef = s.cluster.name}

accounts == ListMatchingAccounts(snapshot)
AccountNames == {a.name : a \in accounts}

\* userReferencesAccount: the namespace defaults to the user's own.
AccountNamespace(u) ==
    IF u.accountRef.namespace = "" THEN u.namespace ELSE u.accountRef.namespace
UserReferencesAccount(u, a) ==
    u.accountRef.name = a.name /\ AccountNamespace(u) = a.namespace

\* What the rules of account a say of user u.
Verdict(u, a) ==
    Evaluate(a.userRules, u.namespace, a.namespace, snapshot.namespaces)

\* Account a with the users it permits, as it is appended to accountsWithUsers.
WithUsers(a) ==
    [name |-> a.name, systemAccount |-> a.systemAccount,
     jetstream |-> a.jetstream, limits |-> a.limits,
     users |-> {u \in snapshot.users : UserReferencesAccount(u, a) /\ Verdict(u, a) = "grant"}]

TypeOK ==
    /\ todo \subseteq accounts
    /\ withUsers \subseteq {WithUsers(a) : a \in accounts \ todo}
    /\ DOMAIN ready = AccountNames /\ DOMAIN userReady = snapshot.users
    /\ \A n \in AccountNames : ready[n] \in {"", "Reconciled", "InvalidRegex", "SystemAccountConflict"}
    /\ \A u \in snapshot.users :
          userReady[u] \in {"", "Reconciled", "NamespaceNotAllowed", "NamespaceFetchError"}
    /\ isSystem \subseteq {u.key : u \in snapshot.users}
    /\ pc \in {"accounts", "convert", "done"}

-----------------------------------------------------------------------------
\* systemAccountName of reconcileAccountsAndUsers, from all listed accounts.
SystemAccountName ==
    LET flagged == {a.name : a \in {b \in accounts : b.systemAccount}}
    IN IF \E n \in flagged : flagged = {n} THEN CHOOSE n \in flagged : TRUE ELSE None

\* What a user of account a is told.
UserReason(u, a) ==
    CASE Verdict(u, a) = "grant" -> "Reconciled"
      [] Verdict(u, a) = "deny"  -> "NamespaceNotAllowed"
      [] Verdict(u, a) = "error" -> "NamespaceFetchError"

\* One turn of the account loop.  An account with an invalid regular
\* expression in its rules is told so and left out, and nobody asks its users.
ProcessAccount(a) ==
    /\ pc = "accounts" /\ a \in todo
    /\ todo' = todo \ {a}
    /\ \/ /\ ~ValidateRegexRules(a.userRules)
          /\ ready' = [ready EXCEPT ![a.name] = "InvalidRegex"]
          /\ UNCHANGED <<withUsers, userReady, isSystem>>
       \/ /\ ValidateRegexRules(a.userRules)
          /\ ready' = [ready EXCEPT ![a.name] = "Reconciled"]
          /\ userReady' = [u \in snapshot.users |->
                IF UserReferencesAccount(u, a) THEN UserReason(u, a) ELSE userReady[u]]
          /\ withUsers' = withUsers \cup {WithUsers(a)}
          /\ isSystem' = IF a.name = SystemAccountName
                         THEN isSystem \cup {u.key : u \in WithUsers(a).users} ELSE isSystem
    /\ pc' = IF todo' = {} THEN "convert" ELSE pc
    /\ UNCHANGED <<snapshot, text>>

\* (Mutant: the conditions of the other accounts are forgotten.)
ConflictsOnly(conflicts) == [n \in conflicts |-> "SystemAccountConflict"]

\* The SystemAccountConflict conditions set after the conversion.
ReadyAfter(conflicts) ==
    [n \in AccountNames |-> IF n \in conflicts THEN "SystemAccountConflict" ELSE ready[n]]

\* Convert, report conflicts, render.
ConvertAndGenerate ==
    /\ pc = "convert"
    /\ LET cfg == ConvertToNatsConfig(withUsers) IN
          /\ text' = Generate(cfg)
          /\ ready' = ReadyAfter(cfg.systemAccountConflicts)
    /\ pc' = "done"
    /\ UNCHANGED <<snapshot, todo, withUsers, userReady, isSystem>>

Init ==
    /\ snapshot \in Snapshots /\ todo = accounts
    /\ withUsers = {} /\ isSystem = {} /\ text = None
    /\ ready = [n \in AccountNames |-> ""] /\ userReady = [u \in snapshot.users |-> ""]
    /\ pc = IF accounts = {} THEN "convert" ELSE "accounts"

Next ==
    \/ \E a \in todo : ProcessAccount(a)
    \/ ConvertAndGenerate

Spec == Init /\ [][Next]_vars

-----------------------------------------------------------------------------
(* Properties of the rendered configuration.                               *)

Done == pc = "done"

\* Users with their account and their entry in the rendered text.
Rendered(a, u) ==
    CHOOSE c \in text.accounts[a.name].users : c.nkey = u.key

\* What a user may do according to its spec: the subjects it is allowed, minus
\* those it is denied.  An isolated user also may subscribe to its own inbox
\* and may not subscribe to the shared one.
MayPublish(u) ==
    IF u.permissions = None THEN {}
    ELSE LET r == OrEmpty(u.permissions.publish) IN
         Matched(r.allow) \ Matched(r.deny)
MaySubscribe(u) ==
    LET r == IF u.permissions = None THEN EmptyRule ELSE OrEmpty(u.permissions.subscribe)
        own == IF u.inboxPrefix = None THEN {} ELSE Matches[OwnInbox[u.inboxPrefix]]
        shared == IF u.inboxPrefix = None THEN {} ELSE Matches[SharedInbox]
    IN (Matched(r.allow) \cup own)
          \ (Matched(r.deny) \cup shared)

\* Responses to requests are permitted by true and by any object, also {}.
MayRespond(u) ==
    /\ u.permissions # None
    /\ u.permissions.allowResponses # None
    /\ u.permissions.allowResponses.boolValue # FALSE

\* The server lets every user do exactly what its spec says: nothing without
\* permissions, no rule lost, the inbox isolated, whatever mixture of nil
\* pointers, empty lists and wildcards the spec has.
PermissionsExact ==
    Done => \A a \in withUsers : \A u \in a.users :
        LET perms == Rendered(a, u).permissions IN
        /\ {s \in Subjects : Permits(perms.publish, s)} = MayPublish(u)
        /\ {s \in Subjects : Permits(perms.subscribe, s)} = MaySubscribe(u)
        /\ (perms.allowResponses # {}) = MayRespond(u)

\* A system account is one the text defines, and the only one that asked for
\* it; where several asked, each of them is told and there is none.  So
\* README.md:588 and the comment at convert.go:28-32 have it; the comment at
\* natsaccount_types.go:78-79, "the alphabetically-first one wins", is not true
\* of the code.
SystemAccountSound ==
    Done => LET flagged == {a \in withUsers : a.systemAccount} IN
        /\ text.systemAccount # None =>
              /\ text.systemAccount \in DOMAIN text.accounts
              /\ {a.name : a \in flagged} = {text.systemAccount}
        /\ text.systemAccount = None =>
              \A a \in flagged : ready[a.name] = "SystemAccountConflict"

\* n is the quantity q in bytes, rounded away from zero as little as possible,
\* or the largest there is.
WholeBytes(n, q) ==
    /\ n \in -MaxInt64..MaxInt64
    /\ q >= 0 => /\ n >= 0 /\ (n - 1) * Parts < q
                 /\ n * Parts >= q \/ n = MaxInt64
    /\ q < 0  => /\ n <= 0 /\ (n + 1) * Parts > q
                 /\ n * Parts <= q \/ n = -MaxInt64

\* Every limit of the spec is rendered, and no other.  A quantity becomes the
\* next whole number of bytes, whatever unit it is written in: no limit is
\* cut down, and none is raised by a byte.  Beyond an int64 it is capped.
LimitsExact ==
    Done => \A a \in withUsers : \A block \in {"jetstream", "limits"} :
        LET out == text.accounts[a.name][block]
            set == {f \in DOMAIN a[block] : a[block][f] # None}
        IN IF a[block] = None THEN out = None
           ELSE /\ DOMAIN out = set
                /\ \A f \in set :
                      IF f \in QuantityFields THEN WholeBytes(Bytes(out[f]), a[block][f])
                      ELSE out[f] = a[block][f]

\* A user's status says IsSystemAccount just if its account is the one the
\* configuration designates: "true when this user belongs to the cluster's
\* designated NATS System Account".
StatusNamesSystemAccount ==
    Done => \A a \in withUsers : \A u \in a.users :
        u.key \in isSystem <=> a.name = text.systemAccount

\* The user has an entry in the rendered text.
Served(u) ==
    \E n \in DOMAIN text.accounts : \E c \in text.accounts[n].users : c.nkey = u.key

\* The rules of account a name the user's namespace in a grant, and no rule
\* before that grant names it.  A rule on labels that cannot be read might.
Readable(u) == u.namespace \in DOMAIN snapshot.namespaces
Names(rule, u, a) ==
    \/ BySameNamespace(rule) /\ u.namespace = a.namespace
    \/ ByRegex(rule) /\ u.namespace \in rule.namespaceRegex.matches
    \/ /\ ByLabels(rule) /\ Readable(u)
       /\ LabelsMatch(rule.namespaceLabels, snapshot.namespaces[u.namespace])
Permitted(u, a) ==
    \E i \in DOMAIN a.userRules :
        /\ a.userRules[i].action = "grant" /\ Names(a.userRules[i], u, a)
        /\ \A j \in 1..i - 1 :
              /\ ~Names(a.userRules[j], u, a)
              /\ ByLabels(a.userRules[j]) => Readable(u)

\* Some account of the cluster takes the user.
Admitted(u) ==
    \E a \in accounts :
        /\ UserReferencesAccount(u, a)
        /\ ValidateRegexRules(a.userRules)
        /\ Permitted(u, a)

\* A user is served just if the account it refers to is one of this cluster,
\* has valid rules, and permits it; and only then its status says Reconciled.
\* No user gets in through an account of the same name elsewhere, through a
\* grant behind a deny, or without a rule.
ServedIfPermitted ==
    Done => \A u \in snapshot.users :
        /\ Served(u) <=> Admitted(u)
        /\ Served(u) <=> userReady[u] = "Reconciled"

\* Whoever asks, a client may use the subjects of the admitted user whose key it
\* has and no others: none without a key, none with the key of a user that
\* was turned away, and none with the sentinel's.  Also when there is no
\* account, no user, or every user was left out, where a server that knows
\* nobody would let everybody in.
AccessExact ==
    Done => \A k \in {u.key : u \in snapshot.users} \cup {None, SentinelNKey} :
        LET owners == {u \in snapshot.users : u.key = k /\ Admitted(u)} IN
        /\ Access(text, k, "publish") = UNION {MayPublish(u) : u \in owners}
        /\ Access(text, k, "subscribe") = UNION {MaySubscribe(u) : u \in owners}
=============================================================================
