------------------------------ MODULE NatsConfig ------------------------------
(***************************************************************************)
(* The package natsconfig: from accounts and users, with their keys and    *)
(* inbox prefixes resolved, to the authorization section of the NATS       *)
(* server's configuration, and what the server makes of it.                *)
(*                                                                         *)
(* The rendered text is represented by the directives it contains.  Lists  *)
(* whose order and repetitions the server ignores are sets.  A nil pointer *)
(* or an omitted directive is None.                                        *)
(***************************************************************************)
EXTENDS Integers

CONSTANTS
    Subjects,       \* NATS subjects
    Patterns,       \* subject patterns, as used in permissions
    Matches,        \* Matches[p]: the subjects pattern p matches
    Everything,     \* the pattern ">"
    SharedInbox,    \* the pattern "_INBOX.>"
    InboxPrefixes,       \* inbox prefixes
    OwnInbox,       \* OwnInbox[x]: the pattern "<x>.>"
    SentinelNKey,   \* the key of the user nobody is
    Kilo,           \* 1024; smaller where TLC has to count that far
    Parts,          \* parts of a byte a quantity can tell apart: 10^9
    MaxInt64,       \* 2^63 - 1; smaller as well
    None

\* A publish or subscribe rule.
Rule == [allow : SUBSET Patterns, deny : SUBSET Patterns]

ASSUME PatternsAssumption ==
    /\ Matches \in [Patterns -> SUBSET Subjects]
    /\ Everything \in Patterns /\ Matches[Everything] = Subjects
    /\ SharedInbox \in Patterns
    /\ OwnInbox \in [InboxPrefixes -> Patterns]
    /\ None \notin InboxPrefixes /\ None \notin BOOLEAN /\ None \notin Rule
ASSUME KiloAssumption == Kilo \in Nat /\ Kilo > 1
ASSUME QuantityAssumption == Parts \in Nat \ {0} /\ MaxInt64 \in Nat \ {0}

EmptyRule == [allow |-> {}, deny |-> {}]

\* The rule a possibly nil pointer points to.
OrEmpty(r) == IF r = None THEN EmptyRule ELSE r

-----------------------------------------------------------------------------
(* convert.go: permissions.                                                *)

\* (Mutant: the prefix is allowed but the shared inbox is not denied.)
InjectAllowOnly(r, prefix) ==
    [OrEmpty(r) EXCEPT !.allow = @ \cup {OwnInbox[prefix]}]

\* Allow the user's own inbox and deny the shared one.
InjectInboxPrefix(r, prefix) ==
    [allow |-> OrEmpty(r).allow \cup {OwnInbox[prefix]},
     deny  |-> OrEmpty(r).deny \cup {SharedInbox}]

\* Secure by default: a direction without an allow list denies everything.
DenyByDefault(r) ==
    IF OrEmpty(r).allow = {} THEN [OrEmpty(r) EXCEPT !.deny = @ \cup {Everything}]
    ELSE r

\* ShouldEmit of AllowResponsesSpec: only the boolean false suppresses it.
ShouldEmit(a) == IF a.boolValue # None THEN a.boolValue ELSE TRUE

\* convertPermissions and writeAllowResponses: the settings of the directive,
\* none if it is omitted.
AllowResponses(a) ==
    IF a = None THEN {}
    ELSE IF ~ShouldEmit(a) THEN {}
    ELSE IF a.maxMsgs = None /\ a.ttl = None THEN {"true"}
    ELSE {set \in {<<"max", a.maxMsgs>>, <<"ttl", a.ttl>>} : set[2] # None}

\* convertPermissions; p is spec.permissions or None, prefix the resolved
\* inbox prefix or None.
ConvertPermissions(p, prefix) ==
    LET pub == IF p = None THEN None ELSE p.publish
        sub == IF p = None THEN None ELSE p.subscribe
    IN [publish        |-> DenyByDefault(pub),
        subscribe      |-> DenyByDefault(IF prefix = None THEN sub
                                         ELSE InjectInboxPrefix(sub, prefix)),
        allowResponses |-> IF p = None THEN {} ELSE AllowResponses(p.allowResponses)]

-----------------------------------------------------------------------------
(* convert.go: quantities and limits.                                      *)

\* Value of a Kubernetes quantity, which is a whole number of parts of a byte:
\* "rounded up to the nearest integer away from 0", and capped to an int64.
Value(q) ==
    LET whole == IF q >= 0 THEN -((-q) \div Parts) ELSE q \div Parts
    IN CASE whole > MaxInt64  -> MaxInt64
         [] whole < -MaxInt64 -> -MaxInt64
         [] OTHER             -> whole

Units == 0..4       \* no suffix, KI, MI, GI, TI

\* How many bytes one of the unit is.
UnitBytes(unit) ==
    <<1, Kilo, Kilo * Kilo, Kilo * Kilo * Kilo, Kilo * Kilo * Kilo * Kilo>>[unit + 1]

\* (Mutant: the unit is chosen by size alone.)
DivisibleOrNot(bytes, unit) == bytes >= UnitBytes(unit)

\* The unit expresses this many bytes as a whole number.
Divisible(bytes, unit) == bytes >= UnitBytes(unit) /\ bytes % UnitBytes(unit) = 0

\* quantityToNATSSize: the first case that applies, from the largest unit; the
\* default is a plain number.
QuantityToNATSSize(q) ==
    LET bytes == Value(q)
        fits == {x \in Units \ {0} : Divisible(bytes, x)}
        unit == IF fits = {} THEN 0 ELSE CHOOSE x \in fits : \A y \in fits : y <= x
    IN [number |-> bytes \div UnitBytes(unit), unit |-> unit]

\* The fields of spec.jetstream and spec.limits that are quantities; the
\* others are copied as they are.
QuantityFields == {"max_mem", "max_file", "memory_max_stream_bytes",
                   "disk_max_stream_bytes", "max_payload"}

\* convertJetStream and convertLimits with writeJetStream and writeLimits: the
\* directives of a block, or None if the block is not configured.
ConvertBlock(b) ==
    IF b = None THEN None
    ELSE [f \in {g \in DOMAIN b : b[g] # None} |->
             IF f \in QuantityFields THEN QuantityToNATSSize(b[f]) ELSE b[f]]

-----------------------------------------------------------------------------
(* convert.go and generate.go: the whole configuration.                    *)

UserConfig(u) ==
    [nkey |-> u.key, permissions |-> ConvertPermissions(u.permissions, u.inboxPrefix)]

AccountConfig(a) ==
    [jetstream |-> ConvertBlock(a.jetstream), limits |-> ConvertBlock(a.limits),
     users |-> {UserConfig(u) : u \in a.users}]

\* (Mutant: one of several flagged accounts wins.)
SomeCandidate(candidates) ==
    IF candidates = {} THEN None ELSE CHOOSE n \in candidates : TRUE

\* Exactly one account may be the system account.
SystemAccount(candidates) ==
    IF \E n \in candidates : candidates = {n} THEN CHOOSE n \in candidates : TRUE
    ELSE None

\* ConvertToNatsConfig for a set of accounts with distinct names.
ConvertToNatsConfig(accounts) ==
    LET candidates == {a.name : a \in {b \in accounts : b.systemAccount}}
    IN [systemAccount |-> SystemAccount(candidates),
        systemAccountConflicts |->
            IF SystemAccount(candidates) = None THEN candidates ELSE {},
        accounts |-> [n \in {a.name : a \in accounts} |->
                         AccountConfig(CHOOSE a \in accounts : a.name = n)]]

\* (Mutant: users are not counted, accounts are.)
NoAccounts(accounts) == DOMAIN accounts = {}

\* totalUsers(accounts) == 0
NoUsers(accounts) == \A n \in DOMAIN accounts : accounts[n].users = {}

\* writeSentinelAuthorization: a user of the global account that may nothing.
DenyAll == [allow |-> {}, deny |-> {Everything}]
SentinelUser ==
    [nkey |-> SentinelNKey,
     permissions |-> [publish |-> DenyAll, subscribe |-> DenyAll, allowResponses |-> {}]]

\* Generate: the directives of the rendered text, with the users of the
\* top-level authorization block.
Generate(cfg) ==
    [systemAccount |-> cfg.systemAccount,
     authorization |-> IF NoUsers(cfg.accounts) THEN {SentinelUser} ELSE {},
     accounts      |-> cfg.accounts]

-----------------------------------------------------------------------------
(* The NATS server.                                                        *)

\* The subjects some pattern of ps matches.
Matched(ps) == UNION {Matches[p] : p \in ps}

\* A rule permits a subject: no allow list means no restriction, and deny wins.
Permits(r, s) ==
    /\ r.allow = {} \/ \E a \in r.allow : s \in Matches[a]
    /\ \A d \in r.deny : s \notin Matches[d]

\* The users the server knows.
Known(text) ==
    text.authorization \cup UNION {text.accounts[n].users : n \in DOMAIN text.accounts}

\* The subjects a client may use that presents key k, None if it has no key; dir
\* is publish or subscribe.  A server that knows no user asks for no key, and
\* takes everybody into its global account without restrictions.
Access(text, k, dir) ==
    {s \in Subjects : Known(text) = {} \/ \E c \in Known(text) :
                         c.nkey = k /\ Permits(c.permissions[dir], s)}

\* The number of bytes a size stands for.
Bytes(size) == size.number * UnitBytes(size.unit)
=============================================================================
