SPECIFICATION Spec
CONSTANTS
    Subjects <- MCSubjects
    Patterns <- MCPatterns
    Matches <- MCMatches
    Everything = ">"
    SharedInbox = "_INBOX.>"
    InboxPrefixes <- MCPrefixes
    OwnInbox <- MCOwnInbox
    SentinelNKey = "sentinel"
    Kilo = 2
    Parts = 2
    MaxInt64 = 40
    None = None
    Snapshots <- MCSnapshots
\* One reconcile of one snapshot ends.
CHECK_DEADLOCK FALSE
INVARIANTS StatusNamesSystemAccount
