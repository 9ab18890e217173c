------------------------------ MODULE UserRules ------------------------------
(***************************************************************************)
(* The rules by which an account permits users: UserRuleEvaluator.         *)
(*                                                                         *)
(* A rule is a record with an action and the matchers that are set:        *)
(* sameNamespace, a Boolean; namespaceRegex, with the set of namespaces it *)
(* matches and whether it compiles; namespaceLabels, a function from label *)
(* names to values.                                                        *)
(***************************************************************************)
EXTENDS Naturals, Sequences

Has(rule, matcher) == matcher \in DOMAIN rule

\* Every regular expression compiles.
ValidateRegexRules(rules) ==
    \A i \in DOMAIN rules : Has(rules[i], "namespaceRegex") => rules[i].namespaceRegex.valid

\* ns.Labels[k] of a Go map: a missing label reads as "".
Label(labels, k) == IF k \in DOMAIN labels THEN labels[k] ELSE ""

LabelsMatch(wanted, labels) == \A k \in DOMAIN wanted : Label(labels, k) = wanted[k]

\* The first matcher decides, and sameNamespace counts only when true.
BySameNamespace(rule) == Has(rule, "sameNamespace") /\ rule.sameNamespace
ByRegex(rule) == ~BySameNamespace(rule) /\ Has(rule, "namespaceRegex")
ByLabels(rule) ==
    ~BySameNamespace(rule) /\ ~Has(rule, "namespaceRegex") /\ Has(rule, "namespaceLabels")

\* ruleMatchesUser: "yes", "no" or "error"; namespaces has the labels of every
\* namespace that can be read.
RuleMatchesUser(rule, userNamespace, accountNamespace, namespaces) ==
    LET Answer(b) == IF b THEN "yes" ELSE "no"
    IN CASE BySameNamespace(rule) -> Answer(userNamespace = accountNamespace)
         [] ByRegex(rule) ->
              IF rule.namespaceRegex.valid THEN Answer(userNamespace \in rule.namespaceRegex.matches)
              ELSE "error"
         [] ByLabels(rule) ->
              IF userNamespace \in DOMAIN namespaces
              THEN Answer(LabelsMatch(rule.namespaceLabels, namespaces[userNamespace]))
              ELSE "error"
         [] OTHER -> "no"

\* (Mutant: a grant anywhere in the list is enough.)
AnyGrant(rules, userNamespace, accountNamespace, namespaces) ==
    IF \E i \in DOMAIN rules :
          /\ rules[i].action = "grant"
          /\ RuleMatchesUser(rules[i], userNamespace, accountNamespace, namespaces) = "yes"
    THEN "grant" ELSE "deny"

\* Evaluate: the first rule that matches decides, an error ends the evaluation,
\* and without a match the user is denied.
Evaluate(rules, userNamespace, accountNamespace, namespaces) ==
    LET from[i \in 1..Len(rules) + 1] ==
          IF i > Len(rules) THEN "deny"
          ELSE LET m == RuleMatchesUser(rules[i], userNamespace, accountNamespace, namespaces) IN
               IF m = "error" THEN "error"
               ELSE IF m = "yes" THEN rules[i].action
               ELSE from[i + 1]
    IN from[1]
=============================================================================
