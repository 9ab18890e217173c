-------------------------- MODULE RenderConfigProofs --------------------------
(***************************************************************************)
(* Proofs about the rendered configuration, for every set of subjects and  *)
(* patterns and every set of well-formed snapshots.                        *)
(***************************************************************************)
EXTENDS RenderConfig, WellFoundedInduction, TLAPS

-----------------------------------------------------------------------------
(* Permissions.                                                            *)

\* DenyByDefault always returns a rule: a nil pointer becomes one.
LEMMA DefaultIsRule ==
    ASSUME NEW r \in Rule \cup {None}
    PROVE  /\ OrEmpty(r) \in Rule
           /\ DenyByDefault(r) \in Rule
BY PatternsAssumption DEF DenyByDefault, OrEmpty, EmptyRule, Rule

\* The server permits under DenyByDefault(r) what r allows and does not deny;
\* without an allow list, nothing.
LEMMA DefaultExact ==
    ASSUME NEW r \in Rule \cup {None}
    PROVE  {s \in Subjects : Permits(DenyByDefault(r), s)}
              = Matched(OrEmpty(r).allow) \ Matched(OrEmpty(r).deny)
<1> DEFINE e == OrEmpty(r)
<1>1. e \in Rule /\ e.allow \subseteq Patterns /\ e.deny \subseteq Patterns
  BY DefaultIsRule DEF Rule
<1>2. \A p \in Patterns : Matches[p] \subseteq Subjects
  BY PatternsAssumption
<1>3. CASE e.allow = {}
  <2>1. Everything \in DenyByDefault(r).deny
    BY <1>1, <1>3 DEF DenyByDefault, Rule
  <2>2. \A s \in Subjects : ~Permits(DenyByDefault(r), s)
    BY <2>1, PatternsAssumption DEF Permits
  <2>3. Matched(e.allow) = {}
    BY <1>3 DEF Matched
  <2> QED BY <2>2, <2>3
<1>4. CASE e.allow # {}
  <2>1. DenyByDefault(r) = e
    BY <1>4 DEF DenyByDefault, OrEmpty, EmptyRule
  <2>2. \A s \in Subjects : Permits(e, s) <=> s \in Matched(e.allow) \ Matched(e.deny)
    BY <1>4 DEF Permits, Matched
  <2>3. Matched(e.allow) \subseteq Subjects
    BY <1>1, <1>2 DEF Matched
  <2> QED BY <2>1, <2>2, <2>3
<1> QED BY <1>3, <1>4

\* The converted permissions of a well-formed user permit exactly what the
\* user may do.
LEMMA ConvertExact ==
    ASSUME NEW u, WellFormedUser(u)
    PROVE  LET perms == UserConfig(u).permissions IN
           /\ {s \in Subjects : Permits(perms.publish, s)} = MayPublish(u)
           /\ {s \in Subjects : Permits(perms.subscribe, s)} = MaySubscribe(u)
           /\ (perms.allowResponses # {}) = MayRespond(u)
<1> DEFINE p == u.permissions
           x == u.inboxPrefix
           pub == IF p = None THEN None ELSE p.publish
           sub == IF p = None THEN None ELSE p.subscribe
           sub2 == IF x = None THEN sub ELSE InjectInboxPrefix(sub, x)
           perms == UserConfig(u).permissions
<1>1. /\ pub \in Rule \cup {None}
      /\ sub \in Rule \cup {None}
      /\ x \in InboxPrefixes \cup {None}
  BY DEF WellFormedUser
<1>2. /\ perms.publish = DenyByDefault(pub)
      /\ perms.subscribe = DenyByDefault(sub2)
      /\ perms.allowResponses = IF p = None THEN {} ELSE AllowResponses(p.allowResponses)
  BY DEF UserConfig, ConvertPermissions
<1>3. {s \in Subjects : Permits(perms.publish, s)} = MayPublish(u)
  <2>1. MayPublish(u) = Matched(OrEmpty(pub).allow) \ Matched(OrEmpty(pub).deny)
    <3>1. CASE p = None
      BY <3>1 DEF MayPublish, Matched, OrEmpty, EmptyRule
    <3>2. CASE p # None
      BY <3>2 DEF MayPublish
    <3> QED BY <3>1, <3>2
  <2> QED BY <1>1, <1>2, <2>1, DefaultExact
<1>4. {s \in Subjects : Permits(perms.subscribe, s)} = MaySubscribe(u)
  <2>1. sub2 \in Rule \cup {None}
    BY <1>1, DefaultIsRule, PatternsAssumption DEF InjectInboxPrefix, Rule
  <2>2. MaySubscribe(u) = Matched(OrEmpty(sub2).allow) \ Matched(OrEmpty(sub2).deny)
    <3>1. CASE x = None
      BY <3>1 DEF MaySubscribe, Matched, OrEmpty, EmptyRule
    <3>2. CASE x # None
      <4>1. /\ OrEmpty(sub2).allow = OrEmpty(sub).allow \cup {OwnInbox[x]}
            /\ OrEmpty(sub2).deny = OrEmpty(sub).deny \cup {SharedInbox}
        <5>1. sub2 = InjectInboxPrefix(sub, x)
          BY <3>2
        <5>2. sub2 \in Rule
          BY <1>1, <3>2, <5>1, DefaultIsRule, PatternsAssumption DEF InjectInboxPrefix, Rule
        <5>3. OrEmpty(sub2) = sub2
          BY <5>2, PatternsAssumption DEF OrEmpty
        <5> QED BY <5>1, <5>3 DEF InjectInboxPrefix
      <4>2. \A S, q : Matched(S \cup {q}) = Matched(S) \cup Matches[q]
        BY DEF Matched
      <4>3. MaySubscribe(u) = (Matched(OrEmpty(sub).allow) \cup Matches[OwnInbox[x]])
                                \ (Matched(OrEmpty(sub).deny) \cup Matches[SharedInbox])
        <5>1. CASE p = None
          BY <3>2, <5>1 DEF MaySubscribe, OrEmpty
        <5>2. CASE p # None
          BY <3>2, <5>2 DEF MaySubscribe
        <5> QED BY <5>1, <5>2
      <4>4. Matched(OrEmpty(sub2).allow) = Matched(OrEmpty(sub).allow) \cup Matches[OwnInbox[x]]
        BY <4>1, <4>2, Zenon
      <4>5. Matched(OrEmpty(sub2).deny) = Matched(OrEmpty(sub).deny) \cup Matches[SharedInbox]
        BY <4>1, <4>2, Zenon
      <4> HIDE DEF sub2
      <4> QED BY <4>3, <4>4, <4>5, Zenon
    <3> QED BY <3>1, <3>2
  <2> QED BY <1>2, <2>1, <2>2, DefaultExact
<1>5. (perms.allowResponses # {}) = MayRespond(u)
  <2>1. CASE p = None
    BY <1>2, <2>1 DEF MayRespond
  <2>2. CASE p # None
    <3> DEFINE r == p.allowResponses
    <3>1. perms.allowResponses = AllowResponses(r)
      BY <1>2, <2>2
    <3>2. r # None => r.boolValue \in BOOLEAN \cup {None}
      BY <2>2 DEF WellFormedUser
    <3>3. MayRespond(u) = (r # None /\ r.boolValue # FALSE)
      BY <2>2 DEF MayRespond
    <3>4. r # None => (ShouldEmit(r) <=> r.boolValue # FALSE)
      BY <3>2, PatternsAssumption DEF ShouldEmit
    <3>5. CASE r = None \/ r.boolValue = FALSE
      BY <3>1, <3>3, <3>4, <3>5 DEF AllowResponses
    <3>6. CASE r # None /\ r.boolValue # FALSE
      <4>1. AllowResponses(r) # {}
        <5>1. CASE r.maxMsgs = None /\ r.ttl = None
          BY <3>4, <3>6, <5>1 DEF AllowResponses
        <5>2. CASE r.maxMsgs # None
          <6>1. <<"max", r.maxMsgs>> \in AllowResponses(r)
            BY <3>4, <3>6, <5>2 DEF AllowResponses
          <6> QED BY <6>1
        <5>3. CASE r.ttl # None
          <6>1. <<"ttl", r.ttl>> \in AllowResponses(r)
            BY <3>4, <3>6, <5>3 DEF AllowResponses
          <6> QED BY <6>1
        <5> QED BY <5>1, <5>2, <5>3
      <4> QED BY <3>1, <3>3, <3>6, <4>1
    <3> QED BY <3>5, <3>6
  <2> QED BY <2>1, <2>2
<1> QED BY <1>3, <1>4, <1>5

-----------------------------------------------------------------------------
(* The reconcile of a snapshot.                                            *)

\* What is rendered is the conversion of the accounts kept, each of them an
\* account of the snapshot with the users it permits.
RenderInv ==
    /\ snapshot \in Snapshots
    /\ todo \subseteq accounts
    /\ withUsers \subseteq {WithUsers(a) : a \in accounts}
    /\ pc = "done" => text = Generate(ConvertToNatsConfig(withUsers))

\* Every step preserves it: accounts are kept one by one before the conversion.
LEMMA RenderInvariant == Spec => []RenderInv
<1>1. Init => RenderInv
  BY DEF Init, RenderInv
<1>2. RenderInv /\ [Next]_vars => RenderInv'
  <2> SUFFICES ASSUME RenderInv, [Next]_vars PROVE RenderInv'
    OBVIOUS
  <2>1. snapshot' = snapshot
    BY DEF Next, ProcessAccount, ConvertAndGenerate, vars
  <2>2. /\ accounts' = accounts
        /\ \A a : WithUsers(a)' = WithUsers(a)
    BY <2>1 DEF accounts, WithUsers, Verdict
  <2>3. ASSUME NEW a \in todo, ProcessAccount(a) PROVE RenderInv'
    BY <2>1, <2>2, <2>3 DEF RenderInv, ProcessAccount
  <2>4. CASE ConvertAndGenerate
    BY <2>1, <2>2, <2>4 DEF RenderInv, ConvertAndGenerate
  <2>5. CASE UNCHANGED vars
    BY <2>1, <2>2, <2>5 DEF RenderInv, vars
  <2> QED BY <2>3, <2>4, <2>5 DEF Next
<1> QED BY <1>1, <1>2, PTL DEF Spec

\* The accounts kept have distinct names, and their users are users of the
\* snapshot.
LEMMA KeptAccounts ==
    ASSUME RenderInv
    PROVE  /\ \A a, b \in withUsers : a.name = b.name => a = b
           /\ \A a \in withUsers : a.users \subseteq snapshot.users
<1>1. \A a : WithUsers(a).name = a.name /\ WithUsers(a).users \subseteq snapshot.users
  BY DEF WithUsers
<1>2. \A a, b \in accounts : a.name = b.name => a = b
  BY SnapshotsAssumption DEF RenderInv, accounts, ListMatchingAccounts
<1> QED BY <1>1, <1>2 DEF RenderInv

\* An account that is kept has its section.
LEMMA SectionIs ==
    ASSUME RenderInv, pc = "done", NEW a \in withUsers
    PROVE  /\ a.name \in DOMAIN text.accounts
           /\ text.accounts[a.name] = AccountConfig(a)
<1> DEFINE named == CHOOSE b \in withUsers : b.name = a.name
<1>1. \A b \in withUsers : b.name = a.name => b = a
  BY KeptAccounts
<1>2. named = a
  BY <1>1
<1>3. text.accounts = [n \in {b.name : b \in withUsers} |->
                          AccountConfig(CHOOSE b \in withUsers : b.name = n)]
  BY DEF RenderInv, Generate, ConvertToNatsConfig
<1> QED
  BY <1>2, <1>3

\* A user of an account that is kept has its entry.
LEMMA RenderedIs ==
    ASSUME RenderInv, pc = "done", NEW a \in withUsers, NEW u \in a.users
    PROVE  Rendered(a, u) = UserConfig(u)
<1>0. text.accounts[a.name] = AccountConfig(a)
  BY SectionIs
<1>1. text.accounts[a.name].users = {UserConfig(v) : v \in a.users}
  BY <1>0 DEF AccountConfig
<1>2. \A v \in a.users : UserConfig(v).nkey = v.key
  BY DEF UserConfig
<1>3. \A v \in a.users : v.key = u.key => v = u
  BY KeptAccounts, SnapshotsAssumption DEF RenderInv
<1>4. \A c \in text.accounts[a.name].users : c.nkey = u.key => c = UserConfig(u)
  BY <1>1, <1>2, <1>3
<1>5. UserConfig(u) \in text.accounts[a.name].users
  BY <1>1
<1> QED
  BY <1>2, <1>4, <1>5 DEF Rendered

\* The server lets every rendered user do exactly what its spec says: deny by
\* default and inbox isolation hold for all rules, patterns and prefixes
\* (ConvertPermissions in convert.go).
THEOREM PermissionsAreExact == Spec => []PermissionsExact
<1>1. RenderInv => PermissionsExact
  <2> SUFFICES ASSUME RenderInv, Done, NEW a \in withUsers, NEW u \in a.users
               PROVE  LET perms == Rendered(a, u).permissions IN
                      /\ {s \in Subjects : Permits(perms.publish, s)} = MayPublish(u)
                      /\ {s \in Subjects : Permits(perms.subscribe, s)} = MaySubscribe(u)
                      /\ (perms.allowResponses # {}) = MayRespond(u)
    BY DEF PermissionsExact
  <2>1. Rendered(a, u) = UserConfig(u)
    BY RenderedIs DEF Done
  <2>2. WellFormedUser(u)
    BY KeptAccounts, SnapshotsAssumption DEF RenderInv
  <2> QED BY <2>1, <2>2, ConvertExact
<1> QED BY <1>1, RenderInvariant, PTL

-----------------------------------------------------------------------------
(* User rules.                                                             *)

\* A rule matches, does not match, or cannot be decided.
LEMMA MatchIs ==
    ASSUME NEW rule, NEW un, NEW an, NEW ns
    PROVE  RuleMatchesUser(rule, un, an, ns) \in {"yes", "no", "error"}
BY DEF RuleMatchesUser

\* A set of numbers that is not empty has a least one.
LEMMA LeastNumber ==
    ASSUME NEW T, T \subseteq Nat, T # {}
    PROVE  \E m \in T : \A k \in T : m <= k
<1>1. PICK m \in T : \A k \in T : ~(<<k, m>> \in OpToRel(<, Nat))
  BY WFMin, NatLessThanWellFounded
<1>2. \A k \in T : ~(k < m)
  <2> TAKE k \in T
  <2>1. <<k, m>> \in Nat \X Nat /\ <<k, m>>[1] = k /\ <<k, m>>[2] = m
    OBVIOUS
  <2>2. k < m => <<k, m>> \in OpToRel(<, Nat)
    BY <2>1 DEF OpToRel
  <2> QED
    BY <1>1, <2>2
<1> QED
  BY <1>2

\* Evaluate returns what the first rule decides that matches or fails, and deny
\* when there is none.
LEMMA EvaluateIs ==
    ASSUME NEW rules, Len(rules) \in Nat, NEW un, NEW an, NEW ns
    PROVE  \/ /\ \A j \in 1..Len(rules) : RuleMatchesUser(rules[j], un, an, ns) = "no"
              /\ Evaluate(rules, un, an, ns) = "deny"
           \/ \E k \in 1..Len(rules) :
                /\ RuleMatchesUser(rules[k], un, an, ns) # "no"
                /\ \A j \in 1..k - 1 : RuleMatchesUser(rules[j], un, an, ns) = "no"
                /\ Evaluate(rules, un, an, ns) =
                      IF RuleMatchesUser(rules[k], un, an, ns) = "error" THEN "error"
                      ELSE rules[k].action
<1> DEFINE n == Len(rules)
           m(i) == RuleMatchesUser(rules[i], un, an, ns)
           after(i) == {j \in i..n : m(j) # "no"}
           first(i) == CHOOSE k \in after(i) : \A j \in after(i) : k <= j
           outcome(k) == IF m(k) = "error" THEN "error" ELSE rules[k].action
           g == [i \in 1..n + 1 |-> IF after(i) = {} THEN "deny" ELSE outcome(first(i))]
           From(f) == f = [i \in 1..n + 1 |->
                              IF i > n THEN "deny"
                              ELSE IF m(i) = "error" THEN "error"
                              ELSE IF m(i) = "yes" THEN rules[i].action
                              ELSE f[i + 1]]
           from == CHOOSE f : From(f)
<1>1. Evaluate(rules, un, an, ns) = from[1]
  BY Zenon DEF Evaluate
<1>2. \A i \in 1..n : m(i) \in {"yes", "no", "error"}
  BY MatchIs
<1> HIDE DEF m
<1>3. ASSUME NEW i \in 1..n + 1, after(i) # {}
      PROVE  /\ first(i) \in after(i)
             /\ \A j \in after(i) : first(i) <= j
  <2>1. after(i) \subseteq Nat
    OBVIOUS
  <2>2. \E k \in after(i) : \A j \in after(i) : k <= j
    <3> HIDE DEF after
    <3> QED
      BY <1>3, <2>1, LeastNumber
  <2> QED
    BY <2>2
<1> HIDE DEF first
<1>4. From(g)
  <2>1. ASSUME NEW i \in 1..n + 1, i > n PROVE g[i] = "deny"
    BY <2>1
  <2>2. ASSUME NEW i \in 1..n, m(i) # "no" PROVE g[i] = outcome(i)
    <3>1. i \in after(i)
      BY <2>2
    <3>2. first(i) \in after(i) /\ first(i) <= i
      BY <1>3, <3>1
    <3>3. first(i) = i
      BY <3>2
    <3>4. g[i] = outcome(first(i))
      BY <3>1
    <3> QED
      BY <3>3, <3>4
  <2>3. ASSUME NEW i \in 1..n, m(i) = "no" PROVE g[i] = g[i + 1]
    <3>1. after(i) = after(i + 1) /\ i \in 1..n + 1 /\ i + 1 \in 1..n + 1
      BY <2>3
    <3>2. CASE after(i) = {}
      BY <3>1, <3>2
    <3>3. CASE after(i) # {}
      <4>1. /\ first(i) \in after(i) /\ first(i + 1) \in after(i)
            /\ first(i) <= first(i + 1) /\ first(i + 1) <= first(i)
        BY <1>3, <3>1, <3>3
      <4>2. first(i) = first(i + 1)
        BY <4>1
      <4>3. g[i] = outcome(first(i)) /\ g[i + 1] = outcome(first(i + 1))
        BY <3>1, <3>3
      <4> QED
        BY <4>2, <4>3
    <3> QED
      BY <3>2, <3>3
  <2>4. ASSUME NEW i \in 1..n + 1
        PROVE  g[i] = IF i > n THEN "deny"
                      ELSE IF m(i) = "error" THEN "error"
                      ELSE IF m(i) = "yes" THEN rules[i].action
                      ELSE g[i + 1]
    <3> HIDE DEF g
    <3> QED
      BY <1>2, <2>1, <2>2, <2>3
  <2>5. g = [i \in 1..n + 1 |-> g[i]]
    OBVIOUS
  <2> HIDE DEF g
  <2> QED
    BY <2>4, <2>5
<1>5. From(from)
  BY <1>4, Zenon
<1> HIDE DEF from
<1>6. \A i \in 1..n : m(i) = "no" => from[i] = from[i + 1]
  BY <1>5
<1>7. \A i \in 1..n : m(i) # "no" => from[i] = outcome(i)
  BY <1>2, <1>5
<1>8. from[n + 1] = "deny"
  BY <1>5
<1> HIDE DEF From
\* As long as no rule matches, the outcome is that of the rest of the list.
<1>9. ASSUME NEW l \in 1..n + 1, \A j \in 1..l - 1 : m(j) = "no" PROVE from[1] = from[l]
  <2> DEFINE D == {i \in 1..l : from[i] # from[1]}
  <2>1. SUFFICES ASSUME D # {} PROVE FALSE
    BY <1>9
  <2>2. D \subseteq Nat
    OBVIOUS
  <2>3. PICK d \in D : \A k \in D : d <= k
    <3> HIDE DEF D
    <3> QED
      BY <2>1, <2>2, LeastNumber
  <2>4. d > 1 /\ d - 1 \in 1..l - 1 /\ d - 1 \in 1..n /\ d - 1 \notin D
    BY <2>3
  <2>5. from[d - 1] = from[d]
    BY <1>6, <1>9, <2>4
  <2> QED
    BY <2>3, <2>4, <2>5
<1>10. CASE after(1) = {}
  <2>1. \A j \in 1..n : m(j) = "no"
    BY <1>10
  <2> QED
    BY <1>1, <1>8, <1>9, <2>1 DEF m
<1>11. CASE after(1) # {}
  <2>1. PICK k \in after(1) : \A j \in after(1) : k <= j
    <3>1. 1 \in 1..n + 1
      OBVIOUS
    <3> HIDE DEF after
    <3> QED
      BY <1>3, <1>11, <3>1
  <2>2. k \in 1..n /\ m(k) # "no" /\ \A j \in 1..k - 1 : m(j) = "no"
    BY <2>1
  <2>3. from[1] = outcome(k)
    BY <1>7, <1>9, <2>2
  <2> QED
    BY <1>1, <2>2, <2>3 DEF m
<1> QED
  BY <1>10, <1>11

\* An account grants, denies or cannot tell; with valid rules it grants to just
\* those it permits.
LEMMA VerdictIs ==
    ASSUME NEW a, NEW u, WellFormedAccount(a)
    PROVE  /\ Verdict(u, a) \in {"grant", "deny", "error"}
           /\ ValidateRegexRules(a.userRules) =>
                 (Verdict(u, a) = "grant" <=> Permitted(u, a))
<1> DEFINE n == Len(a.userRules)
           m(i) == RuleMatchesUser(a.userRules[i], u.namespace, a.namespace, snapshot.namespaces)
<1>1. n \in Nat /\ DOMAIN a.userRules = 1..n
  BY DEF WellFormedAccount
<1>2. \A i \in 1..n : a.userRules[i].action \in {"grant", "deny"}
  BY <1>1 DEF WellFormedAccount
<1>3. \/ (\A j \in 1..n : m(j) = "no") /\ Verdict(u, a) = "deny"
      \/ \E k \in 1..n :
            /\ m(k) # "no" /\ \A j \in 1..k - 1 : m(j) = "no"
            /\ Verdict(u, a) = IF m(k) = "error" THEN "error" ELSE a.userRules[k].action
  BY <1>1, EvaluateIs DEF Verdict
<1>4. ASSUME ValidateRegexRules(a.userRules), NEW i \in 1..n
      PROVE  /\ m(i) = "yes" <=> Names(a.userRules[i], u, a)
             /\ m(i) = "no" <=> /\ ~Names(a.userRules[i], u, a)
                                /\ ByLabels(a.userRules[i]) => Readable(u)
  <2> DEFINE r == a.userRules[i]
  <2>1. ByRegex(r) => r.namespaceRegex.valid
    BY <1>1, <1>4 DEF ValidateRegexRules, ByRegex
  <2>2. CASE BySameNamespace(r)
    BY <2>2 DEF RuleMatchesUser, Names, Readable, ByRegex, ByLabels
  <2>3. CASE ByRegex(r)
    BY <2>1, <2>3 DEF RuleMatchesUser, Names, Readable, ByRegex, ByLabels
  <2>4. CASE ByLabels(r)
    BY <2>4 DEF RuleMatchesUser, Names, Readable, ByRegex, ByLabels
  <2>5. CASE ~BySameNamespace(r) /\ ~ByRegex(r) /\ ~ByLabels(r)
    BY <2>5 DEF RuleMatchesUser, Names
  <2> QED
    BY <2>2, <2>3, <2>4, <2>5
<1>5. \A i \in 1..n : m(i) \in {"yes", "no", "error"}
  BY MatchIs
<1> HIDE DEF m
<1>6. Verdict(u, a) \in {"grant", "deny", "error"}
  BY <1>2, <1>3
<1>7. ASSUME ValidateRegexRules(a.userRules)
      PROVE  Permitted(u, a) <=>
                \E k \in 1..n : /\ a.userRules[k].action = "grant" /\ m(k) = "yes"
                                /\ \A j \in 1..k - 1 : m(j) = "no"
  BY <1>1, <1>4, <1>7 DEF Permitted
<1>8. Verdict(u, a) = "grant" <=>
         \E k \in 1..n : /\ a.userRules[k].action = "grant" /\ m(k) = "yes"
                         /\ \A j \in 1..k - 1 : m(j) = "no"
  <2>1. ASSUME NEW k \in 1..n, m(k) = "yes", \A j \in 1..k - 1 : m(j) = "no",
               a.userRules[k].action = "grant"
        PROVE  Verdict(u, a) = "grant"
    <3>1. PICK l \in 1..n :
            /\ m(l) # "no" /\ \A j \in 1..l - 1 : m(j) = "no"
            /\ Verdict(u, a) = IF m(l) = "error" THEN "error" ELSE a.userRules[l].action
      BY <1>3, <2>1
    <3>2. k = l
      BY <1>1, <2>1, <3>1
    <3> QED
      BY <2>1, <3>1, <3>2
  <2>2. ASSUME Verdict(u, a) = "grant"
        PROVE  \E k \in 1..n : /\ a.userRules[k].action = "grant" /\ m(k) = "yes"
                               /\ \A j \in 1..k - 1 : m(j) = "no"
    BY <1>3, <1>5, <2>2
  <2> QED
    BY <2>1, <2>2
<1> QED
  BY <1>6, <1>7, <1>8

-----------------------------------------------------------------------------
(* What accounts and users are told.                                       *)

\* The processed accounts that are rendered, and those that cannot be the
\* system account together.
Kept == {a \in accounts \ todo : ValidateRegexRules(a.userRules)}
Conflicts == ConvertToNatsConfig(withUsers).systemAccountConflicts

\* Between two turns of the account loop just the processed accounts with valid
\* rules are kept.
KeptInv ==
    /\ pc \in {"accounts", "convert", "done"} /\ (pc # "accounts" => todo = {})
    /\ withUsers = {WithUsers(a) : a \in Kept}
    /\ isSystem \subseteq {u.key : u \in snapshot.users}

\* A processed account is told of its regular expressions, and in the end of a
\* conflict; otherwise it is Ready.
ReadyInv ==
    /\ DOMAIN ready = AccountNames
    /\ \A n \in AccountNames :
          ready[n] \in {"", "Reconciled", "InvalidRegex", "SystemAccountConflict"}
    /\ \A a \in accounts \ todo :
          ready[a.name] = "InvalidRegex" <=> ~ValidateRegexRules(a.userRules)
    /\ pc = "done" => \A n \in AccountNames \cap Conflicts : ready[n] = "SystemAccountConflict"
    /\ \A a \in Kept : (pc = "done" => a.name \notin Conflicts) => ready[a.name] = "Reconciled"

\* A user knows what its account says.
UserInv ==
    /\ DOMAIN userReady = snapshot.users
    /\ \A u \in snapshot.users :
          /\ \A a \in Kept : UserReferencesAccount(u, a) => userReady[u] = UserReason(u, a)
          /\ (\A a \in Kept : ~UserReferencesAccount(u, a)) => userReady[u] = ""

StatusInv == KeptInv /\ ReadyInv /\ UserInv

\* The accounts of a snapshot are well-formed, and no user refers to two of them.
LEMMA SnapshotAccounts ==
    ASSUME RenderInv
    PROVE  /\ \A a \in accounts : WellFormedAccount(a)
           /\ \A a, b \in accounts : a.name = b.name => a = b
           /\ \A a, b \in accounts : \A u :
                 UserReferencesAccount(u, a) /\ UserReferencesAccount(u, b) => a = b
<1>1. /\ \A a \in accounts : WellFormedAccount(a)
      /\ \A a, b \in accounts : a.name = b.name => a = b
  BY SnapshotsAssumption DEF RenderInv, accounts, ListMatchingAccounts
<1> QED
  BY <1>1 DEF UserReferencesAccount

\* A user is told that it is Reconciled just if it is granted.
LEMMA ReasonIs ==
    ASSUME NEW a, NEW u, WellFormedAccount(a)
    PROVE  /\ UserReason(u, a) \in {"Reconciled", "NamespaceNotAllowed", "NamespaceFetchError"}
           /\ UserReason(u, a) = "Reconciled" <=> Verdict(u, a) = "grant"
BY VerdictIs DEF UserReason

\* The accounts in conflict are accounts that were kept.
LEMMA ConflictsKept ==
    ASSUME RenderInv, KeptInv
    PROVE  \A n \in Conflicts : \E a \in Kept : a.name = n
<1>1. Conflicts \subseteq {w.name : w \in withUsers}
  BY DEF Conflicts, ConvertToNatsConfig
<1>2. \A a : WithUsers(a).name = a.name
  BY DEF WithUsers
<1> QED
  BY <1>1, <1>2 DEF KeptInv

\* The status of accounts and users follows what the loop decides of them.
LEMMA StatusStep == RenderInv /\ StatusInv /\ [Next]_vars => StatusInv'
<1> SUFFICES ASSUME RenderInv, KeptInv, ReadyInv, UserInv, [Next]_vars
             PROVE  KeptInv' /\ ReadyInv' /\ UserInv'
  BY DEF StatusInv
<1>1. snapshot' = snapshot
  BY DEF Next, ProcessAccount, ConvertAndGenerate, vars
<1>2. /\ accounts' = accounts /\ AccountNames' = AccountNames
      /\ \A a : WithUsers(a)' = WithUsers(a)
      /\ \A a, u : UserReason(u, a)' = UserReason(u, a)
  BY <1>1 DEF accounts, AccountNames, WithUsers, UserReason, Verdict
<1>3. ASSUME NEW a \in todo, ProcessAccount(a) PROVE KeptInv' /\ ReadyInv' /\ UserInv'
  <2>1. /\ a \in accounts /\ a.name \in AccountNames /\ todo' = todo \ {a}
        /\ pc' = IF todo' = {} THEN "convert" ELSE "accounts"
        /\ pc = "accounts"
    BY <1>3 DEF ProcessAccount, RenderInv, AccountNames
  <2>2. ASSUME NEW r \in {"Reconciled", "InvalidRegex"}, ready' = [ready EXCEPT ![a.name] = r],
               r = "InvalidRegex" <=> ~ValidateRegexRules(a.userRules)
        PROVE  ReadyInv'
    <3>1. /\ DOMAIN ready' = AccountNames
          /\ \A n \in AccountNames : ready'[n] = IF n = a.name THEN r ELSE ready[n]
      BY <2>1, <2>2 DEF ReadyInv
    <3>2. \A b \in accounts \ todo' :
             ready'[b.name] = "InvalidRegex" <=> ~ValidateRegexRules(b.userRules)
      <4>1. \A b \in accounts : b.name \in AccountNames /\ (b.name = a.name => b = a)
        BY <2>1, SnapshotAccounts DEF AccountNames
      <4> QED
        BY <2>1, <2>2, <3>1, <4>1 DEF ReadyInv
    <3>3. \A n \in AccountNames :
             ready'[n] \in {"", "Reconciled", "InvalidRegex", "SystemAccountConflict"}
      BY <3>1 DEF ReadyInv
    <3>4. pc' # "done"
      BY <2>1
    <3>5. \A b \in Kept' : ready'[b.name] = "Reconciled"
      <4> TAKE b \in Kept'
      <4>1. /\ b \in accounts /\ b \notin todo \ {a} /\ ValidateRegexRules(b.userRules)
            /\ b.name \in AccountNames
        BY <1>2, <2>1 DEF Kept, AccountNames
      <4>2. CASE b = a
        BY <2>2, <3>1, <4>1, <4>2
      <4>3. CASE b # a
        <5>1. b \in Kept /\ b.name # a.name
          BY <2>1, <4>1, <4>3, SnapshotAccounts DEF Kept
        <5> QED
          BY <2>1, <3>1, <4>1, <5>1 DEF ReadyInv
      <4> QED
        BY <4>2, <4>3
    <3> QED
      BY <1>2, <3>1, <3>2, <3>3, <3>4, <3>5 DEF ReadyInv
  <2>3. CASE ~ValidateRegexRules(a.userRules)
    <3>1. /\ ready' = [ready EXCEPT ![a.name] = "InvalidRegex"]
          /\ UNCHANGED <<withUsers, userReady, isSystem>>
      BY <1>3, <2>3 DEF ProcessAccount
    <3>2. Kept' = Kept
      BY <1>2, <2>1, <2>3 DEF Kept
    <3>3. KeptInv'
      BY <1>1, <1>2, <2>1, <3>1, <3>2 DEF KeptInv
    <3>4. UserInv'
      BY <1>1, <1>2, <3>1, <3>2 DEF UserInv
    <3> QED
      BY <2>2, <2>3, <3>1, <3>3, <3>4
  <2>4. CASE ValidateRegexRules(a.userRules)
    <3>1. /\ ready' = [ready EXCEPT ![a.name] = "Reconciled"]
          /\ userReady' = [u \in snapshot.users |->
                IF UserReferencesAccount(u, a) THEN UserReason(u, a) ELSE userReady[u]]
          /\ withUsers' = withUsers \cup {WithUsers(a)}
          /\ isSystem' \subseteq isSystem \cup {u.key : u \in WithUsers(a).users}
      BY <1>3, <2>4 DEF ProcessAccount
    <3>2. Kept' = Kept \cup {a} /\ Kept \subseteq accounts
      BY <1>2, <2>1, <2>4 DEF Kept, RenderInv
    <3>3. withUsers' = {WithUsers(b)' : b \in Kept'}
      BY <1>2, <3>1, <3>2 DEF KeptInv
    <3>4. isSystem' \subseteq {u.key : u \in snapshot.users}
      <4>1. WithUsers(a).users \subseteq snapshot.users
        BY DEF WithUsers
      <4> QED
        BY <3>1, <4>1 DEF KeptInv
    <3>5. KeptInv'
      BY <1>1, <2>1, <3>3, <3>4 DEF KeptInv
    <3>6. ASSUME NEW u \in snapshot.users
          PROVE  /\ \A b \in Kept' : UserReferencesAccount(u, b) => userReady'[u] = UserReason(u, b)
                 /\ (\A b \in Kept' : ~UserReferencesAccount(u, b)) => userReady'[u] = ""
      <4>1. \A b \in Kept : UserReferencesAccount(u, a) /\ UserReferencesAccount(u, b) => a = b
        BY <2>1, <3>2, SnapshotAccounts
      <4> QED
        BY <3>1, <3>2, <4>1 DEF UserInv
    <3>7. DOMAIN userReady' = snapshot.users
      BY <3>1
    <3>8. UserInv'
      BY <1>1, <1>2, <3>6, <3>7 DEF UserInv
    <3> QED
      BY <2>2, <2>4, <3>1, <3>5, <3>8
  <2> QED
    BY <2>3, <2>4
<1>4. CASE ConvertAndGenerate
  <2>1. /\ ready' = ReadyAfter(Conflicts) /\ pc = "convert" /\ pc' = "done"
        /\ UNCHANGED <<todo, withUsers, userReady, isSystem>>
    BY <1>4 DEF ConvertAndGenerate, Conflicts
  <2>2. Conflicts' = Conflicts /\ Kept' = Kept
    BY <1>2, <2>1 DEF Conflicts, Kept
  <2>3. /\ DOMAIN ready' = AccountNames
        /\ \A n \in AccountNames :
              ready'[n] = IF n \in Conflicts THEN "SystemAccountConflict" ELSE ready[n]
    BY <2>1 DEF ReadyAfter
  <2>4. \A b \in accounts \ todo :
             ready'[b.name] = "InvalidRegex" <=> ~ValidateRegexRules(b.userRules)
    <3>1. \A b \in accounts : b.name \in AccountNames
      BY DEF AccountNames
    <3>2. \A b \in accounts : b.name \in Conflicts => ValidateRegexRules(b.userRules)
      <4>1. \A n \in Conflicts : \E k \in Kept : k.name = n
        BY ConflictsKept
      <4>2. \A k \in Kept : k \in accounts /\ ValidateRegexRules(k.userRules)
        BY DEF Kept
      <4> QED
        BY <4>1, <4>2, SnapshotAccounts
    <3> QED
      BY <2>3, <3>1, <3>2 DEF ReadyInv
  <2>5. ReadyInv'
    <3>1. \A b \in Kept' : b.name \in Conflicts' \/ ready'[b.name] = "Reconciled"
      <4>1. \A b \in Kept : b.name \in AccountNames
        BY DEF Kept, AccountNames
      <4> QED
        BY <2>1, <2>2, <2>3, <4>1 DEF ReadyInv
    <3> QED
      BY <1>2, <2>1, <2>2, <2>3, <2>4, <3>1 DEF ReadyInv
  <2>6. KeptInv'
    BY <1>1, <1>2, <2>1, <2>2 DEF KeptInv
  <2>7. UserInv'
    BY <1>1, <1>2, <2>1, <2>2 DEF UserInv
  <2> QED
    BY <2>5, <2>6, <2>7
<1>5. CASE UNCHANGED vars
  <2>1. Conflicts' = Conflicts /\ Kept' = Kept
    BY <1>2, <1>5 DEF Conflicts, Kept, vars
  <2>2. KeptInv'
    BY <1>1, <1>2, <1>5, <2>1 DEF KeptInv, vars
  <2>3. ReadyInv'
    BY <1>1, <1>2, <1>5, <2>1 DEF ReadyInv, vars
  <2>4. UserInv'
    BY <1>1, <1>2, <1>5, <2>1 DEF UserInv, vars
  <2> QED
    BY <2>2, <2>3, <2>4
<1> QED
  BY <1>3, <1>4, <1>5 DEF Next

\* Both invariants hold of every run.
LEMMA StatusInvariant == Spec => [](RenderInv /\ StatusInv)
<1>1. Init => StatusInv
  <2> SUFFICES ASSUME Init PROVE StatusInv
    OBVIOUS
  <2>1. Kept = {} /\ withUsers = {}
    BY DEF Init, Kept
  <2> QED
    BY <2>1 DEF Init, StatusInv, KeptInv, ReadyInv, UserInv
<1> QED
  BY <1>1, StatusStep, RenderInvariant, PTL DEF Spec

\* Accounts are kept once, and conditions are those the operator has.
THEOREM RenderTypeCorrect == Spec => []TypeOK
<1>1. RenderInv /\ StatusInv => TypeOK
  <2> SUFFICES ASSUME RenderInv, StatusInv PROVE TypeOK
    OBVIOUS
  <2>1. withUsers \subseteq {WithUsers(a) : a \in accounts \ todo}
    BY DEF StatusInv, KeptInv, Kept
  <2>2. ASSUME NEW u \in snapshot.users
        PROVE  userReady[u] \in {"", "Reconciled", "NamespaceNotAllowed", "NamespaceFetchError"}
    <3>1. \A a \in Kept : WellFormedAccount(a)
      BY SnapshotAccounts DEF Kept
    <3>2. CASE \E a \in Kept : UserReferencesAccount(u, a)
      <4>1. PICK a \in Kept : userReady[u] = UserReason(u, a)
        BY <3>2 DEF StatusInv, KeptInv, ReadyInv, UserInv
      <4> QED
        BY <3>1, <4>1, ReasonIs
    <3>3. CASE \A a \in Kept : ~UserReferencesAccount(u, a)
      BY <3>3 DEF StatusInv, KeptInv, ReadyInv, UserInv
    <3> QED
      BY <3>2, <3>3
  <2> QED
    BY <2>1, <2>2 DEF TypeOK, RenderInv, StatusInv, KeptInv, ReadyInv, UserInv
<1> QED
  BY <1>1, StatusInvariant, PTL

\* The system account of the text is the only account that asked for it, and where
\* several asked each of them is told (ConvertToNatsConfig in convert.go).
THEOREM SystemAccountIsSound == Spec => []SystemAccountSound
<1>1. RenderInv /\ StatusInv => SystemAccountSound
  <2> DEFINE candidates == {a.name : a \in {b \in withUsers : b.systemAccount}}
  <2> SUFFICES ASSUME RenderInv, StatusInv, Done
               PROVE  /\ text.systemAccount # None =>
                           /\ text.systemAccount \in DOMAIN text.accounts
                           /\ candidates = {text.systemAccount}
                      /\ text.systemAccount = None =>
                            \A a \in {b \in withUsers : b.systemAccount} :
                                ready[a.name] = "SystemAccountConflict"
    BY DEF SystemAccountSound
  <2>1. /\ text.systemAccount = SystemAccount(candidates)
        /\ DOMAIN text.accounts = {a.name : a \in withUsers}
        /\ Conflicts = IF SystemAccount(candidates) = None THEN candidates ELSE {}
    BY DEF Done, RenderInv, Generate, ConvertToNatsConfig, Conflicts
  <2>2. SystemAccount(candidates) # None => candidates = {SystemAccount(candidates)}
    <3> HIDE DEF candidates
    <3> QED
      BY DEF SystemAccount
  <2>3. \A a \in withUsers : a.name \in AccountNames
    <3> TAKE a \in withUsers
    <3>1. PICK x \in accounts : a = WithUsers(x)
      BY DEF RenderInv
    <3> QED
      BY <3>1 DEF WithUsers, AccountNames
  <2>4. \A n \in AccountNames \cap Conflicts : ready[n] = "SystemAccountConflict"
    BY DEF StatusInv, KeptInv, ReadyInv, UserInv, Done
  <2> QED
    BY <2>1, <2>2, <2>3, <2>4
<1> QED
  BY <1>1, StatusInvariant, PTL

-----------------------------------------------------------------------------
(* Limits.                                                                 *)

\* The value of a quantity is the next whole number of bytes, or the largest.
LEMMA ValueIs ==
    ASSUME NEW q \in Int
    PROVE  Value(q) \in Int /\ WholeBytes(Value(q), q)
<1> DEFINE Whole == IF q >= 0 THEN -((-q) \div Parts) ELSE q \div Parts
<1>1. Parts \in Int /\ Parts > 0 /\ MaxInt64 \in Int /\ MaxInt64 > 0
  BY QuantityAssumption
<1>2. \A x \in Int : /\ x \div Parts \in Int
                     /\ (x \div Parts) * Parts <= x
                     /\ x < (x \div Parts + 1) * Parts
  BY <1>1
<1>3. /\ Whole \in Int
      /\ q >= 0 => (Whole - 1) * Parts < q /\ Whole * Parts >= q
      /\ q < 0  => (Whole + 1) * Parts > q /\ Whole * Parts <= q
  <2>1. CASE q >= 0
    <3> DEFINE d == (-q) \div Parts
    <3>1. d \in Int /\ d * Parts <= -q /\ -q < (d + 1) * Parts
      BY <1>2
    <3>2. Whole = -d
      BY <2>1
    <3> HIDE DEF d, Whole
    <3>3. Whole * Parts = -(d * Parts) /\ (Whole - 1) * Parts = -((d + 1) * Parts)
      BY <1>1, <3>1, <3>2
    <3>4. d * Parts \in Int /\ (d + 1) * Parts \in Int
      BY <1>1, <3>1
    <3> QED
      BY <2>1, <3>1, <3>2, <3>3, <3>4
  <2>2. CASE q < 0
    <3>1. Whole = q \div Parts
      BY <2>2
    <3> HIDE DEF Whole
    <3> QED
      BY <1>2, <2>2, <3>1
  <2> QED
    BY <2>1, <2>2
<1>4. Value(q) = CASE Whole > MaxInt64  -> MaxInt64
                   [] Whole < -MaxInt64 -> -MaxInt64
                   [] OTHER             -> Whole
  BY DEF Value
<1> HIDE DEF Whole
\* A larger whole number is as many more bytes.
<1>5. \A x, y \in Int : /\ x * Parts \in Int
                        /\ x <= y => x * Parts <= y * Parts
                        /\ x < y => x * Parts < y * Parts
  BY <1>1
<1>6. /\ q >= 0 => Whole >= 0
      /\ q < 0 => Whole <= 0
  <2>1. 0 * Parts = 0 /\ (-1) * Parts < 0
    BY <1>1
  <2>2. ASSUME q >= 0, Whole <= -1 PROVE FALSE
    <3>1. Whole * Parts <= (-1) * Parts
      BY <1>3, <1>5, <2>2
    <3> QED
      BY <1>3, <1>5, <2>1, <2>2, <3>1
  <2>3. ASSUME q < 0, Whole > 0 PROVE FALSE
    <3>1. Whole * Parts > 0
      BY <1>3, <1>5, <2>1, <2>3
    <3> QED
      BY <1>3, <1>5, <2>3, <3>1
  <2> QED
    BY <1>3, <2>2, <2>3
<1>7. CASE Whole > MaxInt64
  <2>1. Value(q) = MaxInt64 /\ q >= 0
    BY <1>1, <1>3, <1>4, <1>6, <1>7
  <2>2. (MaxInt64 - 1) * Parts <= (Whole - 1) * Parts
    BY <1>1, <1>3, <1>5, <1>7
  <2>3. (MaxInt64 - 1) * Parts < q
    BY <1>1, <1>3, <1>5, <2>1, <2>2
  <2> QED
    BY <1>1, <2>1, <2>3 DEF WholeBytes
<1>8. CASE Whole < -MaxInt64
  <2>1. Value(q) = -MaxInt64 /\ q < 0
    BY <1>1, <1>3, <1>4, <1>6, <1>8
  <2>2. (-MaxInt64 + 1) * Parts >= (Whole + 1) * Parts
    BY <1>1, <1>3, <1>5, <1>8
  <2>3. (-MaxInt64 + 1) * Parts > q
    BY <1>1, <1>3, <1>5, <2>1, <2>2
  <2> QED
    BY <1>1, <2>1, <2>3 DEF WholeBytes
<1>9. CASE ~(Whole > MaxInt64) /\ ~(Whole < -MaxInt64)
  <2>1. Value(q) = Whole /\ Whole \in -MaxInt64..MaxInt64
    BY <1>1, <1>3, <1>4, <1>9
  <2> QED
    BY <1>3, <1>6, <2>1 DEF WholeBytes
<1> QED
  BY <1>7, <1>8, <1>9

\* A size stands for the number of bytes it was made of.
LEMMA SizeExact ==
    ASSUME NEW q \in Int
    PROVE  Bytes(QuantityToNATSSize(q)) = Value(q)
<1>0. PICK bytes \in Int : bytes = Value(q)
  BY ValueIs
<1> DEFINE fits == {x \in Units \ {0} : Divisible(bytes, x)}
           unit == IF fits = {} THEN 0 ELSE CHOOSE x \in fits : \A y \in fits : y <= x
           k == UnitBytes(unit)
<1>1. \A x \in Units : UnitBytes(x) \in Nat /\ UnitBytes(x) > 0
  <2>1. Kilo * Kilo \in Nat /\ Kilo * Kilo > 0
    BY KiloAssumption
  <2>2. Kilo * Kilo * Kilo \in Nat /\ Kilo * Kilo * Kilo > 0
    BY <2>1, KiloAssumption
  <2>3. Kilo * Kilo * Kilo * Kilo \in Nat /\ Kilo * Kilo * Kilo * Kilo > 0
    BY <2>2, KiloAssumption
  <2> QED
    BY <2>1, <2>2, <2>3, KiloAssumption DEF Units, UnitBytes
<1>2. unit \in Units /\ (unit # 0 => Divisible(bytes, unit))
  <2>1. fits \subseteq {1, 2, 3, 4}
    BY DEF Units
  <2>2. \A x \in fits : x \in Units /\ Divisible(bytes, x)
    OBVIOUS
  <2> HIDE DEF fits
  <2>3. fits # {} => \E x \in fits : \A y \in fits : y <= x
    <3> SUFFICES ASSUME fits # {} PROVE \E x \in fits : \A y \in fits : y <= x
      OBVIOUS
    <3>1. CASE 4 \in fits
      BY <2>1, <3>1
    <3>2. CASE 3 \in fits /\ 4 \notin fits
      BY <2>1, <3>2
    <3>3. CASE 2 \in fits /\ 3 \notin fits /\ 4 \notin fits
      BY <2>1, <3>3
    <3>4. CASE 1 \in fits /\ 2 \notin fits /\ 3 \notin fits /\ 4 \notin fits
      BY <2>1, <3>4
    <3>5. PICK z \in fits : z \in {1, 2, 3, 4}
      BY <2>1
    <3> QED
      BY <3>1, <3>2, <3>3, <3>4, <3>5
  <2>4. fits # {} => unit \in fits
    BY <2>3
  <2>5. fits = {} => unit = 0
    OBVIOUS
  <2> HIDE DEF unit
  <2> QED
    BY <2>2, <2>4, <2>5 DEF Units
<1>3. k \in Nat /\ k > 0 /\ bytes % k = 0
  <2>1. CASE unit = 0
    <3> HIDE DEF unit
    <3>1. k = 1
      BY <2>1 DEF UnitBytes
    <3> QED
      BY <3>1
  <2>2. CASE unit # 0
    <3> HIDE DEF unit
    <3> QED
      BY <1>1, <1>2, <2>2 DEF Divisible
  <2> QED
    BY <2>1, <2>2
<1>4. /\ QuantityToNATSSize(q).number = bytes \div k
      /\ QuantityToNATSSize(q).unit = unit
  BY <1>0 DEF QuantityToNATSSize
<1> HIDE DEF unit
<1>5. Bytes(QuantityToNATSSize(q)) = (bytes \div k) * k
  BY <1>4 DEF Bytes
<1> HIDE DEF k
<1> QED
  BY <1>0, <1>3, <1>5

\* Every limit of the spec is rendered, and no other; a quantity becomes the next
\* whole number of bytes, capped to an int64
\* (convertJetStream, convertLimits and quantityToNATSSize in convert.go).
THEOREM LimitsAreExact == Spec => []LimitsExact
<1>1. RenderInv /\ StatusInv => LimitsExact
  <2> SUFFICES ASSUME RenderInv, StatusInv, Done, NEW a \in withUsers,
                      NEW block \in {"jetstream", "limits"}
               PROVE  LET out == text.accounts[a.name][block]
                          set == {f \in DOMAIN a[block] : a[block][f] # None}
                      IN IF a[block] = None THEN out = None
                         ELSE /\ DOMAIN out = set
                              /\ \A f \in set :
                                   IF f \in QuantityFields
                                   THEN WholeBytes(Bytes(out[f]), a[block][f])
                                   ELSE out[f] = a[block][f]
    BY DEF LimitsExact
  <2> DEFINE b == a[block]
  <2>1. text.accounts[a.name][block] = ConvertBlock(b)
    <3>1. text.accounts[a.name] = AccountConfig(a)
      BY SectionIs DEF Done
    <3>2. CASE block = "jetstream"
      BY <3>1, <3>2 DEF AccountConfig
    <3>3. CASE block = "limits"
      BY <3>1, <3>3 DEF AccountConfig
    <3> QED
      BY <3>2, <3>3
  <2>2. b # None => \A f \in DOMAIN b \cap QuantityFields : b[f] \in Int \cup {None}
    <3>1. PICK x \in accounts : a = WithUsers(x)
      BY DEF RenderInv
    <3>2. b \in {x.jetstream, x.limits}
      BY <3>1 DEF WithUsers
    <3> HIDE DEF b
    <3> QED
      BY <3>2, SnapshotAccounts DEF WellFormedAccount
  <2> HIDE DEF b
  <2>3. CASE b = None
    BY <2>1, <2>3 DEF ConvertBlock, b
  <2>4. CASE b # None
    <3> DEFINE set == {f \in DOMAIN b : b[f] # None}
    <3>1. ConvertBlock(b) = [f \in set |-> IF f \in QuantityFields
                                           THEN QuantityToNATSSize(b[f]) ELSE b[f]]
      BY <2>4 DEF ConvertBlock
    <3>2. \A f \in set \cap QuantityFields :
             WholeBytes(Bytes(QuantityToNATSSize(b[f])), b[f])
      BY <2>2, <2>4, SizeExact, ValueIs
    <3> QED
      BY <2>1, <2>4, <3>1, <3>2 DEF b
  <2> QED
    BY <2>3, <2>4
<1> QED
  BY <1>1, StatusInvariant, PTL

-----------------------------------------------------------------------------
(* Who is served.                                                          *)

\* The entries of the accounts are those of their users.
LEMMA EntriesAre ==
    ASSUME RenderInv, Done
    PROVE  UNION {text.accounts[n].users : n \in DOMAIN text.accounts}
              = {UserConfig(u) : u \in UNION {w.users : w \in withUsers}}
<1>1. DOMAIN text.accounts = {w.name : w \in withUsers}
  BY DEF RenderInv, Done, Generate, ConvertToNatsConfig
<1>2. \A w \in withUsers : text.accounts[w.name].users = {UserConfig(v) : v \in w.users}
  <2> TAKE w \in withUsers
  <2>1. text.accounts[w.name] = AccountConfig(w)
    BY SectionIs DEF Done
  <2> QED
    BY <2>1 DEF AccountConfig
<1>3. ASSUME NEW n \in DOMAIN text.accounts, NEW c \in text.accounts[n].users
      PROVE  c \in {UserConfig(u) : u \in UNION {w.users : w \in withUsers}}
  BY <1>1, <1>2
<1>4. ASSUME NEW w \in withUsers, NEW u \in w.users
      PROVE  \E n \in DOMAIN text.accounts : UserConfig(u) \in text.accounts[n].users
  BY <1>1, <1>2
<1> QED
  BY <1>3, <1>4

\* Just the admitted users are among them.
LEMMA AdmittedAre ==
    ASSUME RenderInv, StatusInv, Done
    PROVE  UNION {w.users : w \in withUsers} = {u \in snapshot.users : Admitted(u)}
<1>1. Kept = {a \in accounts : ValidateRegexRules(a.userRules)}
  BY DEF Kept, StatusInv, KeptInv, Done
<1>2. \A a \in Kept : WellFormedAccount(a)
  BY <1>1, SnapshotAccounts
<1>3. \A a : WithUsers(a).users =
               {u \in snapshot.users : UserReferencesAccount(u, a) /\ Verdict(u, a) = "grant"}
  BY DEF WithUsers
<1>4. \A a \in Kept, u \in snapshot.users : Verdict(u, a) = "grant" <=> Permitted(u, a)
  BY <1>1, <1>2, VerdictIs
<1>5. withUsers = {WithUsers(a) : a \in Kept}
  BY DEF StatusInv, KeptInv
<1>6. ASSUME NEW u
      PROVE  u \in UNION {w.users : w \in withUsers} <=> u \in snapshot.users /\ Admitted(u)
  <2>1. u \in UNION {w.users : w \in withUsers} <=> \E a \in Kept : u \in WithUsers(a).users
    BY <1>5
  <2> QED
    BY <1>1, <1>3, <1>4, <2>1 DEF Admitted
<1> QED
  BY <1>6

\* A user is served just if the account it refers to belongs to the cluster, has
\* valid rules and permits it, and only then its status says Reconciled
\* (reconcileAccountsAndUsers and UserRuleEvaluator).
THEOREM ServedJustIfPermitted == Spec => []ServedIfPermitted
<1>1. RenderInv /\ StatusInv => ServedIfPermitted
  <2> SUFFICES ASSUME RenderInv, StatusInv, Done, NEW u \in snapshot.users
               PROVE  /\ Served(u) <=> Admitted(u)
                      /\ Served(u) <=> userReady[u] = "Reconciled"
    BY DEF ServedIfPermitted
  <2> DEFINE Granted(a) == UserReferencesAccount(u, a) /\ Verdict(u, a) = "grant"
             served == {v \in snapshot.users : Admitted(v)}
  <2>1. Kept = {a \in accounts : ValidateRegexRules(a.userRules)}
    BY DEF Kept, StatusInv, KeptInv, Done
  <2>2. \A a \in accounts : WellFormedAccount(a)
    BY SnapshotAccounts
  <2>3. Served(u) <=> Admitted(u)
    <3>1. \A v : UserConfig(v).nkey = v.key
      BY DEF UserConfig
    <3>2. \A v \in snapshot.users : v.key = u.key => v = u
      BY SnapshotsAssumption DEF RenderInv
    <3>3. Served(u) <=> \E c \in {UserConfig(v) : v \in served} : c.nkey = u.key
      BY EntriesAre, AdmittedAre DEF Served
    <3> QED
      BY <3>1, <3>2, <3>3
  <2>4. Admitted(u) <=> \E a \in Kept : Granted(a)
    BY <2>1, <2>2, VerdictIs DEF Admitted
  <2>5. userReady[u] = "Reconciled" <=> \E a \in Kept : Granted(a)
    <3>1. \A a \in Kept : WellFormedAccount(a)
      BY <2>1, <2>2
    <3>2. \A a \in Kept : UserReason(u, a) = "Reconciled" <=> Verdict(u, a) = "grant"
      BY <3>1, ReasonIs
    <3>3. CASE \A a \in Kept : ~UserReferencesAccount(u, a)
      BY <3>3 DEF StatusInv, UserInv
    <3>4. CASE \E a \in Kept : UserReferencesAccount(u, a)
      <4>1. PICK a \in Kept : UserReferencesAccount(u, a)
        BY <3>4
      <4>2. userReady[u] = UserReason(u, a)
        BY <4>1 DEF StatusInv, UserInv
      <4>3. \A b \in Kept : UserReferencesAccount(u, b) => b = a
        BY <2>1, <4>1, SnapshotAccounts
      <4> QED
        BY <3>2, <4>1, <4>2, <4>3
    <3> QED
      BY <3>3, <3>4
  <2> HIDE DEF Granted
  <2> QED
    BY <2>3, <2>4, <2>5
<1> QED
  BY <1>1, StatusInvariant, PTL

\* Whoever asks may use just the subjects of the admitted user whose key it has:
\* the sentinel stands in when nobody is admitted, and gives nothing itself
\* (Generate and writeSentinelAuthorization in generate.go).
THEOREM AccessIsExact == Spec => []AccessExact
<1>1. RenderInv /\ StatusInv => AccessExact
  <2> SUFFICES ASSUME RenderInv, StatusInv, Done,
                      NEW k \in {u.key : u \in snapshot.users} \cup {None, SentinelNKey}
               PROVE  LET owners == {u \in snapshot.users : u.key = k /\ Admitted(u)} IN
                      /\ Access(text, k, "publish") = UNION {MayPublish(u) : u \in owners}
                      /\ Access(text, k, "subscribe") = UNION {MaySubscribe(u) : u \in owners}
    BY DEF AccessExact
  <2> DEFINE served == {u \in snapshot.users : Admitted(u)}
             owners == {u \in snapshot.users : u.key = k /\ Admitted(u)}
             entries == UNION {text.accounts[n].users : n \in DOMAIN text.accounts}
  <2>1. entries = {UserConfig(u) : u \in served}
    BY EntriesAre, AdmittedAre
  <2>2. text.authorization = IF entries = {} THEN {SentinelUser} ELSE {}
    <3>1. text.authorization = IF NoUsers(text.accounts) THEN {SentinelUser} ELSE {}
      BY DEF RenderInv, Done, Generate
    <3>2. NoUsers(text.accounts) <=> entries = {}
      BY DEF NoUsers
    <3> QED
      BY <3>1, <3>2
  <2>3. Known(text) = IF served = {} THEN {SentinelUser} ELSE {UserConfig(u) : u \in served}
    <3>1. Known(text) = text.authorization \cup entries
      BY DEF Known
    <3> HIDE DEF entries, served
    <3> QED
      BY <2>1, <2>2, <3>1
  <2>4. owners = {u \in served : u.key = k}
    OBVIOUS
  <2>5. CASE served = {}
    <3>1. \A s \in Subjects : ~Permits(DenyAll, s)
      BY PatternsAssumption DEF Permits, DenyAll
    <3>2. /\ SentinelUser.permissions["publish"] = DenyAll
          /\ SentinelUser.permissions["subscribe"] = DenyAll
      BY DEF SentinelUser
    <3>3. Known(text) = {SentinelUser}
      BY <2>3, <2>5
    <3>4. Access(text, k, "publish") = {} /\ Access(text, k, "subscribe") = {}
      BY <3>1, <3>2, <3>3 DEF Access
    <3>5. owners = {}
      BY <2>4, <2>5
    <3> QED
      BY <3>4, <3>5
  <2>6. CASE served # {}
    <3>1. Known(text) = {UserConfig(u) : u \in served} /\ Known(text) # {}
      BY <2>3, <2>6
    <3>2. \A u : UserConfig(u).nkey = u.key
      BY DEF UserConfig
    <3>3. \A u \in served :
             /\ {s \in Subjects : Permits(UserConfig(u).permissions["publish"], s)} = MayPublish(u)
             /\ {s \in Subjects : Permits(UserConfig(u).permissions["subscribe"], s)} = MaySubscribe(u)
      <4> TAKE u \in served
      <4>1. WellFormedUser(u)
        BY SnapshotsAssumption DEF RenderInv
      <4> QED
        BY <4>1, ConvertExact
    <3>4. ASSUME NEW dir
          PROVE  Access(text, k, dir) =
                    UNION {{s \in Subjects : Permits(UserConfig(u).permissions[dir], s)} : u \in owners}
      <4> HIDE DEF served, owners
      <4>1. Access(text, k, dir) =
               {s \in Subjects : \E u \in served :
                   u.key = k /\ Permits(UserConfig(u).permissions[dir], s)}
        BY <3>1, <3>2 DEF Access
      <4> QED
        BY <2>4, <4>1
    <3>5. \A u \in owners : u \in served
      OBVIOUS
    <3> HIDE DEF served, owners
    <3>6. /\ Access(text, k, "publish") = UNION {MayPublish(u) : u \in owners}
          /\ Access(text, k, "subscribe") = UNION {MaySubscribe(u) : u \in owners}
      BY <3>3, <3>4, <3>5
    <3> QED
      BY <3>6 DEF owners
  <2> QED
    BY <2>5, <2>6
<1> QED
  BY <1>1, StatusInvariant, PTL
=============================================================================
