---------------------------- MODULE MCRenderConfig ----------------------------
(***************************************************************************)
(* Snapshots for RenderConfig: every mixture of rules for one user, every  *)
(* mixture of up to three accounts, every small quantity.                  *)
(***************************************************************************)
EXTENDS OfflineTools

\* An application subject, an inbox of the shared space, one of the user's
\* own, and one of somebody else.
MCSubjects == {"app", "inbox", "own", "foreign"}
MCPatterns == {">", "_INBOX.>", "_I_X.>", "app.>"}
MCMatches == [p \in MCPatterns |->
    CASE p = ">" -> MCSubjects
      [] p = "_INBOX.>" -> {"inbox"}
      [] p = "_I_X.>" -> {"own"}
      [] p = "app.>" -> {"app"}]
MCPrefixes == {"_I_X"}
MCOwnInbox == [x \in MCPrefixes |-> "_I_X.>"]

RulesOver(ps) == {None} \cup [allow : SUBSET ps, deny : SUBSET ps]

BoolForm(b) == [boolValue |-> b, maxMsgs |-> None, ttl |-> None]
ObjectForm(m, t) == [boolValue |-> None, maxMsgs |-> m, ttl |-> t]
Responses == {None, BoolForm(TRUE), BoolForm(FALSE), ObjectForm(None, None),
              ObjectForm(1, None), ObjectForm(1, "5m")}

Permissions ==
    {None}
    \cup [publish : RulesOver({">", "app.>"}), subscribe : RulesOver({"app.>"}),
          allowResponses : {None}]
    \cup [publish : {None}, subscribe : RulesOver(MCPatterns), allowResponses : {None}]
    \cup [publish : {None}, subscribe : RulesOver({"app.>"}), allowResponses : Responses]

\* A rule: an action and the matchers that are set.
Rule1(action, matcher, value) == [m \in {"action", matcher} |-> IF m = "action" THEN action ELSE value]
Regex(ns) == [valid |-> TRUE, matches |-> ns]
Home == Rule1("grant", "sameNamespace", TRUE)
Broken == Rule1("grant", "namespaceRegex", [valid |-> FALSE, matches |-> {}])
NoLabels == [k \in {} |-> ""]
Tier(t) == [k \in {"tier"} |-> t]

Plain == [name |-> "a", namespace |-> "home", clusterRef |-> "c", userRules |-> <<Home>>,
          systemAccount |-> FALSE, jetstream |-> None, limits |-> None]
RefTo(n, ns) == [name |-> n, namespace |-> ns]
PlainUser(k) ==
    [name |-> k, namespace |-> "home", accountRef |-> RefTo("a", ""),
     key |-> k, permissions |-> None, inboxPrefix |-> None]
Snapshot(as, us) ==
    [cluster |-> [name |-> "c", namespace |-> "home"], accounts |-> as, users |-> us,
     namespaces |-> [ns \in {"home", "away"} |-> NoLabels]]

PermissionCases ==
    {Snapshot({Plain}, {[PlainUser("k") EXCEPT !.permissions = p, !.inboxPrefix = x]})
        : p \in Permissions, x \in MCPrefixes \cup {None}}

\* The account may be missing, flagged, invalid, and have a user or not.
Variants(n) ==
    {{}} \cup {{[Plain EXCEPT !.name = n, !.systemAccount = s, !.userRules = r]}
        : s \in BOOLEAN, r \in {<<Home>>, <<Home, Broken>>}}
AccountCases ==
    {Snapshot(a \cup b \cup c, us)
        : a \in Variants("a"), b \in Variants("b"), c \in Variants("c"),
          us \in SUBSET {[PlainUser(n) EXCEPT !.accountRef.name = n] : n \in {"a", "b", "c"}}}

\* Kilo is 2 here, so 40 bytes go beyond two of the largest unit; a part is half
\* a byte, and MaxInt64 is 40.
LimitCases ==
    {Snapshot({[Plain EXCEPT !.jetstream = [max_mem |-> q, max_file |-> None, max_streams |-> 3],
                             !.limits = [max_payload |-> p, max_connections |-> c]]}, {})
        : q \in -5..84, p \in {None, 0, 32, 33}, c \in {None, 0, 7}}

\* Up to two rules of every kind, for a user at home and one away, whose
\* namespace has the label, another one, none, or cannot be read.
RulesToTry ==
    {Rule1(x, "sameNamespace", b) : x \in {"grant", "deny"}, b \in BOOLEAN}
    \cup {Rule1(x, "namespaceRegex", Regex(ns)) : x \in {"grant", "deny"}, ns \in {{"away"}, {"home", "away"}}}
    \cup {Rule1(x, "namespaceLabels", l) : x \in {"grant", "deny"}, l \in {NoLabels, Tier("gold"), Tier("")}}
    \cup {Broken, [action |-> "grant"],
          [action |-> "grant", sameNamespace |-> TRUE, namespaceRegex |-> Regex({"away"})]}
AwayUser(k) == [PlainUser(k) EXCEPT !.namespace = "away", !.accountRef.namespace = "home"]
RuleCases ==
    {[Snapshot({[Plain EXCEPT !.userRules = r]}, {PlainUser("k"), AwayUser("l")})
        EXCEPT !.namespaces = away @@ "home" :> NoLabels]
        : r \in UNION {[1..n -> RulesToTry] : n \in 0..2},
          away \in {[ns \in {} |-> NoLabels]} \cup {"away" :> l : l \in {NoLabels, Tier("gold"), Tier("tin")}}}

\* Accounts of the same name in two namespaces and of another cluster, users
\* of both namespaces, and every way to refer to an account.
RefCases ==
    {Snapshot(as, {[PlainUser("k") EXCEPT !.accountRef = r, !.namespace = ns],
                   [PlainUser("l") EXCEPT !.accountRef = q]})
        : as \in SUBSET {[Plain EXCEPT !.userRules = <<Rule1("grant", "namespaceRegex", Regex({"home", "away"}))>>,
                                       !.namespace = n, !.clusterRef = c] : n \in {"home", "away"}, c \in {"c"}}
                \cup {{[Plain EXCEPT !.clusterRef = "d"]}},
          r \in [name : {"a", "z"}, namespace : {"", "home", "away"}],
          q \in [name : {"a", "z"}, namespace : {"", "away"}],
          ns \in {"home", "away"}}

MCSnapshots == PermissionCases \cup AccountCases \cup LimitCases \cup RuleCases \cup RefCases
=============================================================================
