-------------------------- MODULE OfflineToolsProofs --------------------------
(***************************************************************************)
(* Theorems about the command line tool, for every set of well-formed      *)
(* snapshots: validate foretells what the operator will say of manifests,  *)
(* and generate previews what it will render.                              *)
(***************************************************************************)
EXTENDS OfflineTools, RenderConfigProofs, FiniteSetTheorems

-----------------------------------------------------------------------------
(* Manifests.                                                              *)

\* The manifests of a snapshot list each account of it once.
LEMMA ManifestIs ==
    ASSUME RenderInv, NEW m \in Manifests
    PROVE  /\ m.clusters = {snapshot.cluster} /\ m.users = snapshot.users
           /\ DOMAIN m.accounts \subseteq Nat
           /\ ToSet(m.accounts) = snapshot.accounts
           /\ \A i, j \in DOMAIN m.accounts : m.accounts[i] = m.accounts[j] => i = j
<1> DEFINE S == snapshot.accounts
           n == Cardinality(S)
<1>1. PICK q \in SetToSeqs(S) :
         m = [clusters |-> {snapshot.cluster}, accounts |-> q, users |-> snapshot.users]
  BY DEF Manifests
<1>2. /\ q \in [1..n -> S]
      /\ \A i, j \in 1..n : i # j => q[i] # q[j]
  BY DEF SetToSeqs
<1>3. IsFiniteSet(S)
  BY SnapshotsAssumption DEF RenderInv
<1>4. n \in Nat
  BY <1>3, FS_CardinalityType
<1>5. IsFiniteSet(1..n) /\ Cardinality(1..n) = n
  BY <1>4, FS_Interval
<1>6. q \in Injection(1..n, S)
  BY <1>2 DEF Injection, IsInjective
<1>7. q \in Surjection(1..n, S)
  BY <1>3, <1>5, <1>6, FS_Injection
<1>8. ToSet(q) = S
  BY <1>2, <1>7 DEF Surjection, ToSet
<1> QED
  BY <1>1, <1>2, <1>4, <1>8

\* Where all accounts are in one namespace, an account is found by its name.
LEMMA ByNameIs ==
    ASSUME RenderInv, NEW m \in Manifests, NEW a \in snapshot.accounts,
           \A b \in snapshot.accounts : b.name = a.name => b = a
    PROVE  AccountByName(m, a.name) = a
<1> DEFINE q == m.accounts
           P(i) == q[i].name = a.name /\ \A j \in DOMAIN q : q[j].name = a.name => j <= i
<1>1. /\ DOMAIN q \subseteq Nat
      /\ \A i \in DOMAIN q : q[i] \in snapshot.accounts
      /\ \E i \in DOMAIN q : q[i] = a
      /\ \A i, j \in DOMAIN q : q[i] = q[j] => i = j
  BY ManifestIs DEF ToSet
<1> HIDE DEF q
<1>2. PICK k \in DOMAIN q : q[k] = a
  BY <1>1
<1>3. \A j \in DOMAIN q : q[j].name = a.name => j = k
  BY <1>1, <1>2
<1>4. P(k)
  BY <1>1, <1>2, <1>3
<1>5. \A i \in DOMAIN q : P(i) => i = k
  BY <1>3
<1>6. (CHOOSE i \in DOMAIN q : P(i)) = k
  BY <1>4, <1>5
<1>7. AccountByName(m, a.name) = q[CHOOSE i \in DOMAIN q : P(i)]
  BY Zenon DEF AccountByName, q
<1> QED
  BY <1>2, <1>6, <1>7

-----------------------------------------------------------------------------
(* validate                                                                *)

\* Without rules on labels, the outcome offline is the operator's.
LEMMA OfflineIs ==
    ASSUME NEW a, NEW u, WellFormedAccount(a), ValidateRegexRules(a.userRules),
           \A i \in DOMAIN a.userRules : ~ByLabels(a.userRules[i])
    PROVE  OfflineOutcome(a.userRules, u.namespace, a.namespace) = "deny"
              <=> Verdict(u, a) # "grant"
<1> DEFINE r == a.userRules
           hits == {i \in DOMAIN r : MatchesOffline(r[i], u.namespace, a.namespace)}
<1>1. /\ Len(r) \in Nat /\ DOMAIN r = 1..Len(r)
      /\ \A i \in DOMAIN r : r[i].action \in {"grant", "deny"}
  BY DEF WellFormedAccount
<1>2. \A i \in DOMAIN r : i \in hits <=> Names(r[i], u, a)
  BY DEF MatchesOffline, Names, ValidateRegexRules, ByRegex
<1>3. Verdict(u, a) = "grant" <=>
         \E i \in DOMAIN r : /\ r[i].action = "grant" /\ i \in hits
                             /\ \A j \in 1..i - 1 : j \notin hits
  <2>1. \A i \in DOMAIN r : \A j \in 1..i - 1 : j \in DOMAIN r
    BY <1>1
  <2>2. Verdict(u, a) = "grant" <=> Permitted(u, a)
    BY VerdictIs
  <2> HIDE DEF hits
  <2> QED
    BY <1>2, <2>1, <2>2 DEF Permitted
<1>4. OfflineOutcome(r, u.namespace, a.namespace) = IF hits = {} THEN "deny" ELSE r[Min(hits)].action
  BY DEF OfflineOutcome
<1>5. hits \subseteq DOMAIN r /\ hits \subseteq Nat
  BY <1>1
<1> HIDE DEF hits
<1>6. CASE hits = {}
  BY <1>3, <1>4, <1>6
<1>7. CASE hits # {}
  <2>1. \E k \in hits : \A j \in hits : k <= j
    BY <1>5, <1>7, LeastNumber
  <2>2. Min(hits) \in hits /\ \A j \in hits : Min(hits) <= j
    BY <2>1 DEF Min
  <2>3. PICK k \in hits : k = Min(hits) /\ \A j \in hits : k <= j
    BY <2>2
  <2>4. \A j \in 1..k - 1 : j \notin hits
    BY <1>5, <2>3
  <2>5. \A i \in hits : (\A j \in 1..i - 1 : j \notin hits) => i = k
    BY <1>1, <1>5, <2>3
  <2>6. Verdict(u, a) = "grant" <=> r[k].action = "grant"
    BY <1>3, <1>5, <2>4, <2>5
  <2> QED
    BY <1>1, <1>4, <1>5, <1>7, <2>3, <2>6
<1> QED
  BY <1>6, <1>7

\* One account that asks to be the system account is in conflict with nobody.
LEMMA NoConflictOfOne ==
    ASSUME RenderInv, StatusInv,
           \A a, b \in snapshot.accounts : a.systemAccount /\ b.systemAccount => a = b
    PROVE  Conflicts = {}
<1> DEFINE candidates == {w.name : w \in {v \in withUsers : v.systemAccount}}
<1>1. \A a : WithUsers(a).name = a.name /\ WithUsers(a).systemAccount = a.systemAccount
  BY DEF WithUsers
<1>2. \A a \in accounts : a \in snapshot.accounts /\ a.name # None
  BY SnapshotsAssumption DEF RenderInv, accounts, ListMatchingAccounts, WellFormedAccount
<1>3. \A n \in candidates : \E a \in accounts : a.systemAccount /\ a.name = n
  BY <1>1 DEF RenderInv
<1>4. \A n, l \in candidates : n = l /\ n # None
  BY <1>2, <1>3
<1>5. Conflicts = IF SystemAccount(candidates) = None THEN candidates ELSE {}
  BY DEF Conflicts, ConvertToNatsConfig
<1> HIDE DEF candidates
<1>6. CASE candidates = {}
  BY <1>5, <1>6
<1>7. CASE candidates # {}
  <2>1. PICK n \in candidates : candidates = {n} /\ n # None
    BY <1>4, <1>7
  <2>2. SystemAccount(candidates) = n
    BY <2>1 DEF SystemAccount
  <2> QED
    BY <1>5, <2>1, <2>2
<1> QED
  BY <1>6, <1>7

\* Manifests pass validate just if the operator accepts all they say, where the
\* tool can know (runValidate in validate.go and the account loop).
THEOREM ValidateForetells == Spec => []ValidationForetells
<1>1. RenderInv /\ StatusInv => ValidationForetells
  <2> SUFFICES ASSUME RenderInv, StatusInv, Done,
                      \A a \in snapshot.accounts :
                         /\ a.namespace = snapshot.cluster.namespace
                         /\ \A i \in DOMAIN a.userRules : ~ByLabels(a.userRules[i]),
                      \A a, b \in snapshot.accounts : a.systemAccount /\ b.systemAccount => a = b,
                      \A u \in snapshot.users : AccountNamespace(u) = snapshot.cluster.namespace,
                      NEW m \in Manifests
               PROVE  Validate(m) = {} <=>
                        /\ accounts = snapshot.accounts
                        /\ \A n \in AccountNames : ready[n] = "Reconciled"
                        /\ \A u \in snapshot.users : userReady[u] = "Reconciled"
    BY DEF ValidationForetells
  <2> DEFINE S == snapshot.accounts
             Valid(a) == ValidateRegexRules(a.userRules)
             Denied(u) == \E a \in S : /\ a.name = u.accountRef.name
                                       /\ OfflineOutcome(a.userRules, u.namespace, a.namespace) = "deny"
  <2>1. /\ ToSet(m.accounts) = S /\ m.users = snapshot.users /\ m.clusters = {snapshot.cluster}
    BY ManifestIs
  <2>2. /\ \A a \in S : WellFormedAccount(a)
        /\ \A a, b \in S : a.name = b.name => a = b
        /\ \A u \in snapshot.users : WellFormedUser(u)
    BY SnapshotsAssumption DEF RenderInv
  <2>3. AccountErrors(m) = {} <=> /\ \A a \in S : a.clusterRef = snapshot.cluster.name
                                  /\ \A a \in S : Valid(a)
    <3>1. {c.name : c \in m.clusters} = {snapshot.cluster.name}
      BY <2>1
    <3>2. AccountErrors(m) =
             {<<"clusterRef", a.name>> : a \in {b \in S : b.clusterRef # snapshot.cluster.name}}
             \cup {<<"namespaceRegex", a.name>> : a \in {b \in S : ~Valid(b)}}
      BY <2>1, <3>1 DEF AccountErrors
    <3> QED
      BY <3>2
  <2>4. UserErrors(m) = {} <=>
           \A u \in snapshot.users : (\E a \in S : a.name = u.accountRef.name) /\ ~Denied(u)
    <3> DEFINE missing == {v \in m.users : \A a \in ToSet(m.accounts) : a.name # v.accountRef.name}
               denied == {v \in m.users :
                   /\ \E a \in ToSet(m.accounts) : a.name = v.accountRef.name
                   /\ LET a == AccountByName(m, v.accountRef.name) IN
                         /\ v.namespace # "" /\ a.namespace # ""
                         /\ OfflineOutcome(a.userRules, v.namespace, a.namespace) = "deny"}
    <3>1. UserErrors(m) = {<<"accountRef", u.name>> : u \in missing}
                             \cup {<<"denied", u.name>> : u \in denied}
      BY DEF UserErrors
    <3>2. \A u \in snapshot.users : u \in missing <=> ~\E a \in S : a.name = u.accountRef.name
      BY <2>1
    <3>3. ASSUME NEW u \in snapshot.users PROVE u \in denied <=> Denied(u)
      <4>1. CASE ~\E a \in S : a.name = u.accountRef.name
        BY <2>1, <4>1
      <4>2. CASE \E a \in S : a.name = u.accountRef.name
        <5>1. PICK a \in S : a.name = u.accountRef.name
          BY <4>2
        <5>2. AccountByName(m, u.accountRef.name) = a
          BY <2>2, <5>1, ByNameIs
        <5>3. u.namespace # "" /\ a.namespace # ""
          BY <2>2 DEF WellFormedUser, WellFormedAccount
        <5>4. Denied(u) <=> OfflineOutcome(a.userRules, u.namespace, a.namespace) = "deny"
          BY <2>2, <5>1
        <5>5. u \in denied <=> OfflineOutcome(a.userRules, u.namespace, a.namespace) = "deny"
          BY <2>1, <5>1, <5>2, <5>3
        <5> QED
          BY <5>4, <5>5
      <4> QED
        BY <4>1, <4>2
    <3>4. missing \subseteq snapshot.users /\ denied \subseteq snapshot.users
      BY <2>1
    <3> HIDE DEF missing, denied, Denied
    <3>5. UserErrors(m) = {} <=> missing = {} /\ denied = {}
      BY <3>1
    <3> QED
      BY <3>2, <3>3, <3>4, <3>5
  <2>5. (\A a \in S : a.clusterRef = snapshot.cluster.name) <=> accounts = S
    BY DEF accounts, ListMatchingAccounts
  <2>6. ASSUME accounts = S
        PROVE  (\A a \in S : Valid(a)) <=> \A n \in AccountNames : ready[n] = "Reconciled"
    <3>1. \A a \in S : ready[a.name] = "InvalidRegex" <=> ~Valid(a)
      BY <2>6 DEF StatusInv, KeptInv, ReadyInv, Done
    <3>2. \A a \in S : Valid(a) => ready[a.name] = "Reconciled"
      <4>1. Conflicts = {}
        BY NoConflictOfOne
      <4>2. \A a \in S : Valid(a) => a \in Kept
        BY <2>6 DEF Kept, StatusInv, KeptInv, Done
      <4> QED
        BY <4>1, <4>2 DEF StatusInv, ReadyInv
    <3> HIDE DEF Valid, S
    <3> QED
      BY <2>6, <3>1, <3>2 DEF AccountNames
  <2>7. ASSUME accounts = S, \A a \in S : Valid(a), NEW u \in snapshot.users
        PROVE  userReady[u] = "Reconciled" <=>
                  (\E a \in S : a.name = u.accountRef.name) /\ ~Denied(u)
    <3>1. Kept = S
      BY <2>7 DEF Kept, StatusInv, KeptInv, Done
    <3>2. \A a \in S : UserReferencesAccount(u, a) <=> a.name = u.accountRef.name
      BY DEF UserReferencesAccount
    <3>3. CASE ~\E a \in S : a.name = u.accountRef.name
      BY <3>1, <3>2, <3>3 DEF StatusInv, UserInv
    <3>4. CASE \E a \in S : a.name = u.accountRef.name
      <4>1. PICK a \in S : a.name = u.accountRef.name
        BY <3>4
      <4>2. userReady[u] = UserReason(u, a)
        BY <3>1, <3>2, <4>1 DEF StatusInv, UserInv
      <4>3. userReady[u] = "Reconciled" <=> Verdict(u, a) = "grant"
        BY <2>2, <4>2, ReasonIs
      <4>4. OfflineOutcome(a.userRules, u.namespace, a.namespace) = "deny"
               <=> Verdict(u, a) # "grant"
        BY <2>2, <2>7, OfflineIs
      <4>5. Denied(u) <=> OfflineOutcome(a.userRules, u.namespace, a.namespace) = "deny"
        BY <2>2, <4>1
      <4> QED
        BY <4>1, <4>3, <4>4, <4>5
    <3> QED
      BY <3>3, <3>4
  <2> HIDE DEF S, Denied, Valid
  <2>8. Validate(m) = {} <=> AccountErrors(m) = {} /\ UserErrors(m) = {}
    BY DEF Validate
  <2> QED
    BY <2>3, <2>4, <2>5, <2>6, <2>7, <2>8 DEF S
<1> QED
  BY <1>1, StatusInvariant, PTL

-----------------------------------------------------------------------------
(* generate                                                                *)

\* Account a with its users as generate shows them: placeholder keys, no inboxes.
Shown(u) == [key |-> Placeholder(u), permissions |-> u.permissions, inboxPrefix |-> None]
ShownAccount(a) ==
    [name |-> a.name, systemAccount |-> a.systemAccount,
     jetstream |-> a.jetstream, limits |-> a.limits,
     users |-> {Shown(u) : u \in {v \in snapshot.users : UserReferencesAccount(v, a)}}]

\* The tool finds the accounts the operator lists, with the users that refer to
\* them.
LEMMA BuildIs ==
    ASSUME RenderInv, NEW m \in Manifests
    PROVE  BuildConfigForCluster(snapshot.cluster, m) = {ShownAccount(a) : a \in accounts}
<1> DEFINE c == snapshot.cluster
           us(a) == {v \in m.users : /\ v.accountRef.name = a.name
                                     /\ Agree(AccountNamespace(v), a.namespace)}
           built(a) == [name |-> a.name, systemAccount |-> a.systemAccount,
                        jetstream |-> a.jetstream, limits |-> a.limits,
                        users |-> {Shown(u) : u \in us(a)}]
           as == {b \in ToSet(m.accounts) : b.clusterRef = c.name /\ Agree(b.namespace, c.namespace)}
<1>1. BuildConfigForCluster(c, m) = {built(a) : a \in as}
  BY DEF BuildConfigForCluster, Shown
<1>2. /\ ToSet(m.accounts) = snapshot.accounts /\ m.users = snapshot.users
  BY ManifestIs
<1>3. /\ c.namespace # ""
      /\ \A a \in snapshot.accounts : a.namespace # ""
      /\ \A u \in snapshot.users : AccountNamespace(u) # ""
  BY SnapshotsAssumption
     DEF RenderInv, WellFormedCluster, WellFormedAccount, WellFormedUser, AccountNamespace
<1>4. as = accounts
  BY <1>2, <1>3 DEF Agree, accounts, ListMatchingAccounts
<1>5. ASSUME NEW a \in accounts PROVE built(a) = ShownAccount(a)
  <2>1. a.namespace # ""
    BY <1>3 DEF accounts, ListMatchingAccounts
  <2>2. us(a) = {v \in snapshot.users : UserReferencesAccount(v, a)}
    BY <1>2, <1>3, <2>1 DEF Agree, UserReferencesAccount
  <2> HIDE DEF us
  <2> QED
    BY <2>2 DEF ShownAccount
<1> HIDE DEF built, as
<1> QED
  BY <1>1, <1>4, <1>5

\* Manifests for one namespace that do not name it are read in the same way.
LEMMA BareBuildIs ==
    ASSUME RenderInv, NEW m \in Manifests, OneNamespace
    PROVE  BuildConfigForCluster([snapshot.cluster EXCEPT !.namespace = ""], WithoutNamespaces(m))
              = {ShownAccount(a) : a \in accounts}
<1> DEFINE Bare(o) == [o EXCEPT !.namespace = ""]
           BareUser(u) == [Bare(u) EXCEPT !.accountRef.namespace = ""]
           c == Bare(snapshot.cluster)
           w == WithoutNamespaces(m)
           us(a) == {v \in w.users : /\ v.accountRef.name = a.name
                                     /\ Agree(AccountNamespace(v), a.namespace)}
           built(a) == [name |-> a.name, systemAccount |-> a.systemAccount,
                        jetstream |-> a.jetstream, limits |-> a.limits,
                        users |-> {Shown(u) : u \in us(a)}]
           as == {b \in ToSet(w.accounts) : b.clusterRef = c.name /\ Agree(b.namespace, c.namespace)}
<1>1. BuildConfigForCluster(c, w) = {built(a) : a \in as}
  BY DEF BuildConfigForCluster, Shown
<1>2. /\ ToSet(m.accounts) = snapshot.accounts /\ m.users = snapshot.users
  BY ManifestIs
<1>3. /\ w.users = {BareUser(u) : u \in snapshot.users}
      /\ w.accounts = [i \in DOMAIN m.accounts |-> Bare(m.accounts[i])]
  BY <1>2 DEF WithoutNamespaces
<1>4. ToSet(w.accounts) = {Bare(a) : a \in snapshot.accounts}
  <2> HIDE DEF Bare, w
  <2>0. /\ DOMAIN w.accounts = DOMAIN m.accounts
        /\ \A i \in DOMAIN m.accounts : w.accounts[i] = Bare(m.accounts[i])
    BY <1>3
  <2>1. ToSet(w.accounts) = {Bare(m.accounts[i]) : i \in DOMAIN m.accounts}
    BY <2>0 DEF ToSet
  <2>2. ToSet(m.accounts) = {m.accounts[i] : i \in DOMAIN m.accounts}
    BY DEF ToSet
  <2> QED
    BY <1>2, <2>1, <2>2
<1>5. ASSUME NEW a \in snapshot.accounts
      PROVE  /\ Bare(a).name = a.name /\ Bare(a).systemAccount = a.systemAccount
             /\ Bare(a).jetstream = a.jetstream /\ Bare(a).limits = a.limits
             /\ Bare(a).clusterRef = a.clusterRef /\ Bare(a).namespace = ""
             /\ a.namespace = snapshot.cluster.namespace
  <2>1. WellFormedAccount(a)
    BY SnapshotsAssumption DEF RenderInv
  <2>2. a.namespace = snapshot.cluster.namespace
    BY DEF OneNamespace
  <2>3. DOMAIN a = {"name", "namespace", "clusterRef", "userRules", "systemAccount",
                    "jetstream", "limits"}
    BY <2>1 DEF WellFormedAccount
  <2> QED
    BY <2>2, <2>3
<1>6. ASSUME NEW u \in snapshot.users
      PROVE  /\ BareUser(u).accountRef.name = u.accountRef.name
             /\ AccountNamespace(BareUser(u)) = ""
             /\ Shown(BareUser(u)) = Shown(u)
             /\ AccountNamespace(u) = snapshot.cluster.namespace
  <2>1. WellFormedUser(u)
    BY SnapshotsAssumption DEF RenderInv
  <2>2. /\ BareUser(u).accountRef.name = u.accountRef.name
        /\ BareUser(u).accountRef.namespace = "" /\ BareUser(u).namespace = ""
        /\ BareUser(u).name = u.name /\ BareUser(u).permissions = u.permissions
    BY <2>1 DEF WellFormedUser
  <2> HIDE DEF BareUser
  <2> QED
    BY <2>2 DEF AccountNamespace, Shown, Placeholder, OneNamespace
<1>7. c.name = snapshot.cluster.name /\ c.namespace = ""
  BY SnapshotsAssumption DEF RenderInv, WellFormedCluster
<1> HIDE DEF Bare, BareUser, c, w
<1>8. as = {Bare(a) : a \in accounts}
  <2>1. \A a \in snapshot.accounts :
           a \in accounts <=> /\ Bare(a).clusterRef = c.name
                              /\ Agree(Bare(a).namespace, c.namespace)
    BY <1>5, <1>7 DEF Agree, accounts, ListMatchingAccounts
  <2>2. accounts \subseteq snapshot.accounts
    BY DEF accounts, ListMatchingAccounts
  <2> QED
    BY <1>4, <2>1, <2>2
<1>9. ASSUME NEW a \in accounts PROVE built(Bare(a)) = ShownAccount(a)
  <2>1. a \in snapshot.accounts
    BY DEF accounts, ListMatchingAccounts
  <2> DEFINE R == {v \in snapshot.users : UserReferencesAccount(v, a)}
  <2>2. us(Bare(a)) = {BareUser(u) : u \in R}
    <3>1. \A u \in snapshot.users :
             u \in R <=> /\ BareUser(u).accountRef.name = Bare(a).name
                         /\ Agree(AccountNamespace(BareUser(u)), Bare(a).namespace)
      BY <1>5, <1>6, <2>1 DEF Agree, UserReferencesAccount
    <3>2. R \subseteq snapshot.users
      OBVIOUS
    <3> HIDE DEF R
    <3> QED
      BY <1>3, <3>1, <3>2
  <2> HIDE DEF us
  <2>3. {Shown(u) : u \in us(Bare(a))} = {Shown(u) : u \in R}
    <3>1. \A u \in R : Shown(BareUser(u)) = Shown(u)
      BY <1>6
    <3> HIDE DEF R
    <3> QED
      BY <2>2, <3>1
  <2> QED
    BY <1>5, <2>1, <2>3 DEF ShownAccount
<1> HIDE DEF built, as
<1>10. {built(a) : a \in as} = {ShownAccount(a) : a \in accounts}
  BY <1>8, <1>9
<1> QED
  BY <1>1, <1>10 DEF c, w, Bare

\* The directives generated for a set of accounts.
LEMMA GeneratedIs ==
    ASSUME NEW B, NEW t, t = Generate(ConvertToNatsConfig(B))
    PROVE  /\ t.systemAccount = SystemAccount({a.name : a \in {b \in B : b.systemAccount}})
           /\ DOMAIN t.accounts = {b.name : b \in B}
           /\ t.authorization = IF NoUsers(t.accounts) THEN {SentinelUser} ELSE {}
<1>1. t.accounts = [n \in {b.name : b \in B} |-> AccountConfig(CHOOSE b \in B : b.name = n)]
  BY DEF Generate, ConvertToNatsConfig
<1>2. /\ t.systemAccount = SystemAccount({a.name : a \in {b \in B : b.systemAccount}})
      /\ t.authorization = IF NoUsers(t.accounts) THEN {SentinelUser} ELSE {}
  BY DEF Generate, ConvertToNatsConfig
<1> QED
  BY <1>1, <1>2

\* Of accounts with distinct names each has its section.
LEMMA GeneratedAccount ==
    ASSUME NEW B, NEW t, t = Generate(ConvertToNatsConfig(B)),
           \A a, b \in B : a.name = b.name => a = b, NEW a \in B
    PROVE  t.accounts[a.name] = AccountConfig(a)
<1>1. t.accounts = [n \in {b.name : b \in B} |-> AccountConfig(CHOOSE b \in B : b.name = n)]
  BY DEF Generate, ConvertToNatsConfig
<1>2. (CHOOSE b \in B : b.name = a.name) = a
  OBVIOUS
<1> QED
  BY <1>1, <1>2

\* When nobody is turned away the preview has the accounts, limits, system account,
\* sentinel and permissions of what the operator renders, also for manifests that
\* do not name their namespace (buildConfigForCluster in generate.go).
THEOREM PreviewIsExact == Spec => []PreviewExact
<1>1. RenderInv /\ StatusInv => PreviewExact
  <2> SUFFICES ASSUME RenderInv, StatusInv, Done,
                      \A n \in AccountNames : ready[n] # "InvalidRegex",
                      \A u \in snapshot.users :
                         /\ u.inboxPrefix = None
                         /\ \A a \in accounts : UserReferencesAccount(u, a) =>
                                                    userReady[u] = "Reconciled",
                      NEW m \in Manifests
               PROVE  LET preview == Preview(snapshot.cluster, m)
                          Expected(a) ==
                             [text.accounts[a.name] EXCEPT !.users =
                                {[nkey |-> Placeholder(u), permissions |-> Rendered(a, u).permissions]
                                    : u \in a.users}]
                      IN /\ preview.systemAccount = text.systemAccount
                         /\ preview.authorization = text.authorization
                         /\ DOMAIN preview.accounts = DOMAIN text.accounts
                         /\ \A a \in withUsers : preview.accounts[a.name] = Expected(a)
                         /\ OneNamespace =>
                               Preview([snapshot.cluster EXCEPT !.namespace = ""],
                                       WithoutNamespaces(m)) = preview
    BY DEF PreviewExact
  <2> DEFINE B == {ShownAccount(a) : a \in accounts}
             Refs(a) == {v \in snapshot.users : UserReferencesAccount(v, a)}
  <2>0. PICK preview : preview = Preview(snapshot.cluster, m)
    OBVIOUS
  <2>1. /\ preview = Generate(ConvertToNatsConfig(B))
        /\ OneNamespace => Preview([snapshot.cluster EXCEPT !.namespace = ""],
                                   WithoutNamespaces(m)) = preview
    BY <2>0, BuildIs, BareBuildIs DEF Preview
  <2>2. Kept = accounts
    <3>1. todo = {}
      BY DEF StatusInv, KeptInv, Done
    <3>2. \A a \in accounts : a.name \in AccountNames
      BY DEF AccountNames
    <3>3. \A a \in accounts : ValidateRegexRules(a.userRules)
      BY <3>1, <3>2 DEF StatusInv, ReadyInv
    <3> QED
      BY <3>1, <3>3 DEF Kept
  <2>3. withUsers = {WithUsers(a) : a \in accounts}
    BY <2>2 DEF StatusInv, KeptInv
  <2>4. ASSUME NEW a \in accounts PROVE WithUsers(a).users = Refs(a)
    <3>1. a \in Kept /\ WellFormedAccount(a)
      BY <2>2, SnapshotAccounts
    <3>2. \A u \in snapshot.users : UserReferencesAccount(u, a) => userReady[u] = UserReason(u, a)
      BY <3>1 DEF StatusInv, UserInv
    <3>3. \A u \in snapshot.users : UserReferencesAccount(u, a) => Verdict(u, a) = "grant"
      BY <3>1, <3>2, ReasonIs
    <3> QED
      BY <3>3 DEF WithUsers
  <2>5. ASSUME NEW a \in accounts
        PROVE  /\ ShownAccount(a).name = a.name /\ WithUsers(a).name = a.name
               /\ ShownAccount(a).systemAccount = WithUsers(a).systemAccount
               /\ ShownAccount(a).jetstream = WithUsers(a).jetstream
               /\ ShownAccount(a).limits = WithUsers(a).limits
               /\ ShownAccount(a).users = {Shown(u) : u \in Refs(a)}
    BY DEF ShownAccount, WithUsers
  <2> HIDE DEF Refs
  <2>6. {b.name : b \in B} = {w.name : w \in withUsers}
    BY <2>3, <2>5
  <2>7. {b.name : b \in {x \in B : x.systemAccount}}
           = {w.name : w \in {x \in withUsers : x.systemAccount}}
    BY <2>3, <2>5
  <2>8. text = Generate(ConvertToNatsConfig(withUsers))
    BY DEF RenderInv, Done
  <2>9. /\ preview.systemAccount = text.systemAccount
        /\ DOMAIN preview.accounts = DOMAIN text.accounts
    <3> HIDE DEF B
    <3>1. /\ preview.systemAccount = SystemAccount({b.name : b \in {x \in B : x.systemAccount}})
          /\ DOMAIN preview.accounts = {b.name : b \in B}
      BY <2>1, GeneratedIs
    <3>2. /\ text.systemAccount
                = SystemAccount({b.name : b \in {x \in withUsers : x.systemAccount}})
          /\ DOMAIN text.accounts = {b.name : b \in withUsers}
      BY <2>8, GeneratedIs
    <3> QED
      BY <2>6, <2>7, <3>1, <3>2
  <2>10. ASSUME NEW a \in accounts
        PROVE  preview.accounts[a.name] = AccountConfig(ShownAccount(a))
    <3>1. \A b, d \in B : b.name = d.name => b = d
      BY <2>5, SnapshotAccounts
    <3>2. ShownAccount(a) \in B /\ ShownAccount(a).name = a.name
      BY <2>5
    <3> HIDE DEF B
    <3>3. \A b \in B : preview.accounts[b.name] = AccountConfig(b)
      <4> TAKE b \in B
      <4>1. preview = Generate(ConvertToNatsConfig(B))
        BY <2>1
      <4> QED
        BY <3>1, <4>1, GeneratedAccount
    <3> QED
      BY <3>2, <3>3
  <2>11. ASSUME NEW a \in accounts
        PROVE  text.accounts[a.name] = AccountConfig(WithUsers(a))
    <3>1. WithUsers(a) \in withUsers /\ WithUsers(a).name = a.name
      BY <2>3, <2>5
    <3> QED
      BY <3>1, SectionIs DEF Done
  <2>12. preview.authorization = text.authorization
    <3>1. \A a \in accounts :
             preview.accounts[a.name].users = {} <=> text.accounts[a.name].users = {}
      <4> TAKE a \in accounts
      <4>1. preview.accounts[a.name].users = {UserConfig(x) : x \in {Shown(u) : u \in Refs(a)}}
        <5>1. preview.accounts[a.name] = AccountConfig(ShownAccount(a))
          BY <2>10
        <5>2. ShownAccount(a).users = {Shown(u) : u \in Refs(a)}
          BY <2>5
        <5> QED
          BY <5>1, <5>2 DEF AccountConfig
      <4>2. text.accounts[a.name].users = {UserConfig(u) : u \in Refs(a)}
        <5>1. text.accounts[a.name] = AccountConfig(WithUsers(a))
          BY <2>11
        <5>2. WithUsers(a).users = Refs(a)
          BY <2>4
        <5> QED
          BY <5>1, <5>2 DEF AccountConfig
      <4> QED
        BY <4>1, <4>2
    <3>2. DOMAIN text.accounts = {a.name : a \in accounts}
      <4>1. DOMAIN text.accounts = {w.name : w \in withUsers}
        BY <2>8, GeneratedIs
      <4> QED
        BY <2>3, <2>5, <4>1
    <3>3. NoUsers(text.accounts) <=> NoUsers(preview.accounts)
      BY <2>9, <3>1, <3>2 DEF NoUsers
    <3> QED
      BY <2>1, <2>8, <3>3, GeneratedIs
  <2>13. ASSUME NEW w \in withUsers
         PROVE  preview.accounts[w.name] =
                  [text.accounts[w.name] EXCEPT !.users =
                     {[nkey |-> Placeholder(u), permissions |-> Rendered(w, u).permissions]
                        : u \in w.users}]
    <3>1. PICK a \in accounts : w = WithUsers(a)
      BY <2>3
    <3>2. w.users = Refs(a) /\ w.name = a.name /\ Refs(a) \subseteq snapshot.users
      BY <2>4, <2>5, <3>1 DEF Refs
    <3>3. ASSUME NEW u \in Refs(a)
          PROVE  UserConfig(Shown(u)) =
                   [nkey |-> Placeholder(u), permissions |-> Rendered(w, u).permissions]
      <4>1. Rendered(w, u) = UserConfig(u) /\ u.inboxPrefix = None
        BY <3>2, RenderedIs DEF Done
      <4> QED
        BY <4>1 DEF UserConfig, Shown
    <3>4. {UserConfig(x) : x \in {Shown(u) : u \in Refs(a)}}
             = {[nkey |-> Placeholder(u), permissions |-> Rendered(w, u).permissions]
                   : u \in w.users}
      BY <3>2, <3>3
    <3>5. preview.accounts[w.name] =
             [jetstream |-> ConvertBlock(w.jetstream), limits |-> ConvertBlock(w.limits),
              users |-> {UserConfig(x) : x \in {Shown(u) : u \in Refs(a)}}]
      BY <2>5, <2>10, <3>1, <3>2 DEF AccountConfig
    <3>6. text.accounts[w.name] =
             [jetstream |-> ConvertBlock(w.jetstream), limits |-> ConvertBlock(w.limits),
              users |-> {UserConfig(u) : u \in w.users}]
      BY <2>11, <3>1, <3>2 DEF AccountConfig
    <3> DEFINE shown == {UserConfig(x) : x \in {Shown(u) : u \in Refs(a)}}
    <3>7. preview.accounts[w.name] = [text.accounts[w.name] EXCEPT !.users = shown]
      <4> DEFINE js == ConvertBlock(w.jetstream)
                 li == ConvertBlock(w.limits)
                 us == {UserConfig(u) : u \in w.users}
      <4>1. /\ preview.accounts[w.name] = [jetstream |-> js, limits |-> li, users |-> shown]
            /\ text.accounts[w.name] = [jetstream |-> js, limits |-> li, users |-> us]
        BY <3>5, <3>6
      <4> HIDE DEF shown, js, li, us
      <4>2. [jetstream |-> js, limits |-> li, users |-> shown]
               = [[jetstream |-> js, limits |-> li, users |-> us] EXCEPT !.users = shown]
        OBVIOUS
      <4> QED
        BY <4>1, <4>2
    <3> QED
      BY <3>4, <3>7
  <2> QED
    BY <2>0, <2>1, <2>9, <2>12, <2>13
<1> QED
  BY <1>1, StatusInvariant, PTL
=============================================================================
