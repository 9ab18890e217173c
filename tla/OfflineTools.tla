----------------------------- MODULE OfflineTools -----------------------------
(***************************************************************************)
(* The command line tool: what validate and generate say of manifests      *)
(* before they are applied, compared with what the operator then makes of  *)
(* them (RenderConfig).                                                    *)
(*                                                                         *)
(* Manifests have the clusters and users as sets and the accounts as a     *)
(* sequence, in the order in which the files list them.  An object without *)
(* metadata.namespace has the namespace "".                                *)
(***************************************************************************)
EXTENDS RenderConfig, SequencesExt

-----------------------------------------------------------------------------
(* validate.go                                                             *)

\* accountsByName: of several accounts of one name the last one stays.
AccountByName(m, n) ==
    m.accounts[CHOOSE i \in DOMAIN m.accounts :
                  /\ m.accounts[i].name = n
                  /\ \A j \in DOMAIN m.accounts : m.accounts[j].name = n => j <= i]

\* The errors about accounts.
AccountErrors(m) ==
    {<<"clusterRef", a.name>> : a \in
        {b \in ToSet(m.accounts) : b.clusterRef \notin {c.name : c \in m.clusters}}}
    \cup {<<"namespaceRegex", a.name>> : a \in
        {b \in ToSet(m.accounts) : ~ValidateRegexRules(b.userRules)}}

\* The rule matches, as far as that can be told without a cluster: rules on
\* labels and invalid regular expressions are skipped.
MatchesOffline(rule, userNamespace, accountNamespace) ==
    \/ BySameNamespace(rule) /\ userNamespace = accountNamespace
    \/ /\ ByRegex(rule) /\ rule.namespaceRegex.valid
       /\ userNamespace \in rule.namespaceRegex.matches

\* (Mutant: the last rule that matches decides.)
LastOutcome(rules, userNamespace, accountNamespace) ==
    LET hits == {i \in DOMAIN rules : MatchesOffline(rules[i], userNamespace, accountNamespace)}
    IN IF hits = {} THEN "deny" ELSE rules[Max(hits)].action

\* The action of the first rule that matches, deny if there is none.
OfflineOutcome(rules, userNamespace, accountNamespace) ==
    LET hits == {i \in DOMAIN rules : MatchesOffline(rules[i], userNamespace, accountNamespace)}
    IN IF hits = {} THEN "deny" ELSE rules[Min(hits)].action

\* The errors about users.  The reference is looked up by name only, and the
\* rules are looked at only if both namespaces are known.
UserErrors(m) ==
    {<<"accountRef", u.name>> : u \in
        {v \in m.users : \A a \in ToSet(m.accounts) : a.name # v.accountRef.name}}
    \cup {<<"denied", u.name>> : u \in
        {v \in m.users :
            /\ \E a \in ToSet(m.accounts) : a.name = v.accountRef.name
            /\ LET a == AccountByName(m, v.accountRef.name) IN
                  /\ v.namespace # "" /\ a.namespace # ""
                  /\ OfflineOutcome(a.userRules, v.namespace, a.namespace) = "deny"}}

\* runValidate passes just if this is empty.
Validate(m) == AccountErrors(m) \cup UserErrors(m)

-----------------------------------------------------------------------------
(* generate.go                                                             *)

\* Two namespaces agree if they are equal or one is not given.
Agree(x, y) == x = "" \/ y = "" \/ x = y

Placeholder(u) == <<"nkey-for", u.name>>

\* (Mutant: namespaces are not looked at.)
BuildByName(cluster, m) ==
    {[name |-> a.name, systemAccount |-> a.systemAccount,
      jetstream |-> a.jetstream, limits |-> a.limits,
      users |-> {[key |-> Placeholder(u), permissions |-> u.permissions, inboxPrefix |-> None]
                    : u \in {v \in m.users : v.accountRef.name = a.name}}]
        : a \in {b \in ToSet(m.accounts) : b.clusterRef = cluster.name}}

\* The accounts and users buildConfigForCluster hands to ConvertToNatsConfig:
\* no rules, no keys, no inbox prefixes.
BuildConfigForCluster(cluster, m) ==
    {[name |-> a.name, systemAccount |-> a.systemAccount,
      jetstream |-> a.jetstream, limits |-> a.limits,
      users |-> {[key |-> Placeholder(u), permissions |-> u.permissions, inboxPrefix |-> None]
                    : u \in {v \in m.users :
                                /\ v.accountRef.name = a.name
                                /\ Agree(AccountNamespace(v), a.namespace)}}]
        : a \in {b \in ToSet(m.accounts) :
                    b.clusterRef = cluster.name /\ Agree(b.namespace, cluster.namespace)}}

\* runGenerate for one cluster.
Preview(cluster, m) == Generate(ConvertToNatsConfig(BuildConfigForCluster(cluster, m)))

-----------------------------------------------------------------------------
(* The manifests of the snapshot that is reconciled.                       *)

\* With the accounts in any order of the files.
Manifests ==
    {[clusters |-> {snapshot.cluster}, accounts |-> q, users |-> snapshot.users]
        : q \in SetToSeqs(snapshot.accounts)}

\* All of it is in the namespace of the cluster.
OneNamespace ==
    /\ \A a \in snapshot.accounts : a.namespace = snapshot.cluster.namespace
    /\ \A u \in snapshot.users : {u.namespace, AccountNamespace(u)} = {snapshot.cluster.namespace}

\* The same manifests without any namespace, to be applied to one.
WithoutNamespaces(m) ==
    LET Bare(o) == [o EXCEPT !.namespace = ""] IN
    [clusters |-> {Bare(c) : c \in m.clusters},
     accounts |-> [i \in DOMAIN m.accounts |-> Bare(m.accounts[i])],
     users    |-> {[Bare(u) EXCEPT !.accountRef.namespace = ""] : u \in m.users}]

\* Manifests pass validation just if the operator accepts all they say: every
\* account belongs to the cluster and becomes Ready, and every user is
\* admitted.  This is so where the tool can know: accounts are in the
\* namespace of the cluster and referred to there, no rule asks for labels, and
\* at most one account asks to be the system account, which validate does not
\* look at although the operator marks several as SystemAccountConflict.
ValidationForetells ==
    /\ Done
    /\ \A a \in snapshot.accounts :
          /\ a.namespace = snapshot.cluster.namespace
          /\ \A i \in DOMAIN a.userRules : ~ByLabels(a.userRules[i])
    /\ \A a, b \in snapshot.accounts : a.systemAccount /\ b.systemAccount => a = b
    /\ \A u \in snapshot.users : AccountNamespace(u) = snapshot.cluster.namespace
    => \A m \in Manifests :
          Validate(m) = {} <=>
              /\ accounts = snapshot.accounts
              /\ \A n \in AccountNames : ready[n] = "Reconciled"
              /\ \A u \in snapshot.users : userReady[u] = "Reconciled"

\* The preview has the accounts, limits, system account and sentinel of the
\* configuration the operator renders, and its users with the same
\* permissions under placeholder keys, provided no account or user of the
\* cluster is turned away and no inbox is isolated.  It makes no difference
\* whether manifests for one namespace name it.
PreviewExact ==
    /\ Done
    /\ \A n \in AccountNames : ready[n] # "InvalidRegex"
    /\ \A u \in snapshot.users :
          /\ u.inboxPrefix = None
          /\ \A a \in accounts : UserReferencesAccount(u, a) => userReady[u] = "Reconciled"
    => \A m \in Manifests :
          LET preview == Preview(snapshot.cluster, m)
              Expected(a) ==
                 [text.accounts[a.name] EXCEPT !.users =
                    {[nkey |-> Placeholder(u), permissions |-> Rendered(a, u).permissions]
                        : u \in a.users}]
          IN /\ preview.systemAccount = text.systemAccount
             /\ preview.authorization = text.authorization
             /\ DOMAIN preview.accounts = DOMAIN text.accounts
             /\ \A a \in withUsers : preview.accounts[a.name] = Expected(a)
             /\ OneNamespace =>
                   Preview([snapshot.cluster EXCEPT !.namespace = ""], WithoutNamespaces(m)) = preview
=============================================================================
