------------------------------ MODULE NatsDebug ------------------------------
(***************************************************************************)
(* The debugging tool beside the running operator: nats-debug asks the     *)
(* monitoring endpoint of one server after the other for connections of a  *)
(* user, an account or anybody, and when there are none reads ConfigMap,   *)
(* NatsUser and Secret to find out why.  Meanwhile the operator works, as  *)
(* UserKeys has it, and the client connects, is refused and moves.  So no  *)
(* two answers are of the same moment.                                     *)
(*                                                                         *)
(* The module follows one run of the tool, for the key in the user's       *)
(* status.debugCommand, and ends with its report.  Servers run what is     *)
(* published.                                                              *)
(***************************************************************************)
EXTENDS UserKeys, FiniteSets

CONSTANTS
    Servers,        \* the pods of the cluster
    Others,         \* connections of other accounts, by server
    PageSize,       \* how many connections a server lists
    Target,         \* the user whose connections are in question
    MaxMoves        \* bound on the connections its client makes

ASSUME DebugAssumption ==
    /\ Target \in Users /\ None \notin Servers
    /\ Others \in [Servers -> Nat] /\ PageSize \in Nat /\ MaxMoves \in Nat

Commands == {"user-connections", "account-connections", "connections"}
Alarms == {"closed", "notInConfig", "noUser", "notReady", "noSecret", "mismatch"}

VARIABLES
    client,         \* server and key of the client's connection
    closed,         \* a server remembers a closed or refused connection
    moves,
    \* The tool.
    step, command, nkey,
    urls,           \* the servers it knows of
    left,           \* those still to be asked
    found,          \* servers that listed a connection asked for
    errors,         \* servers that did not answer
    alarms,         \* lines marked [!]
    unread,         \* some object could not be read
    \* What was true during its run.
    seen,           \* the client was connected with the key at some moment
    stayed,         \* it has been connected to this server all the time
    calm,           \* the user was served with the key all the time
    usable          \* its Secret allowed to connect at some moment

toolVars  == <<step, command, nkey, urls, left, found, errors, alarms, unread>>
ghostVars == <<seen, stayed, calm, usable>>
debugVars == <<client, closed, moves, toolVars, ghostVars>>

DebugTypeOK ==
    /\ client \in [server : Servers \cup {None}, key : Keys]
    /\ closed \in BOOLEAN /\ moves \in 0..MaxMoves
    /\ step \in {"off", "connz", "closed", "config", "user", "secret", "done"}
    /\ command \in Commands \cup {None} /\ nkey \in Keys
    /\ urls \subseteq Servers /\ left \subseteq Servers /\ found \subseteq Servers
    /\ errors \subseteq Servers
    /\ alarms \subseteq Alarms /\ unread \in BOOLEAN
    /\ seen \in BOOLEAN /\ calm \in BOOLEAN /\ usable \in BOOLEAN
    /\ stayed \in Servers \cup {None}

-----------------------------------------------------------------------------
(* The client.                                                             *)

NoClient == [server |-> None, key |-> None]

\* The server knows the key of the Secret.
CanConnect ==
    secret[Target] # NoSecret /\ config[Target].key = secret[Target].key

\* The client takes the seed from the Secret and tries to connect to server s.
Connect(s) ==
    /\ client = NoClient /\ secret[Target] # NoSecret /\ moves < MaxMoves
    /\ moves' = moves + 1
    /\ \/ CanConnect /\ client' = [server |-> s, key |-> secret[Target].key] /\ UNCHANGED closed
       \/ ~CanConnect /\ closed' = TRUE /\ UNCHANGED client
    /\ UNCHANGED toolVars

Disconnect ==
    /\ client # NoClient
    /\ closed' = TRUE /\ client' = NoClient
    /\ UNCHANGED <<moves, toolVars>>

-----------------------------------------------------------------------------
(* The tool.                                                               *)

\* The connections of server s, each with key and account as the tool's filters
\* expect, and what it lists of them.
Connections(s) ==
    {[cid |-> i, nkey |-> None, account |-> "other"] : i \in 1..Others[s]}
    \cup {[cid |-> 0, nkey |-> client.key, account |-> "ours"] : c \in {client.server} \cap {s}}
Pages(s) ==
    {p \in SUBSET Connections(s) :
        Cardinality(p) = IF Cardinality(Connections(s)) < PageSize
                         THEN Cardinality(Connections(s)) ELSE PageSize}

\* (Mutant: connections are counted without a look at the key.)
AnyConnection(page) == page

\* FilterByNKey, FilterByAccount; the overview takes all.
Filter(page) ==
    CASE command = "user-connections" -> {c \in page : c.nkey = nkey}
      [] command = "account-connections" -> {c \in page : c.account = "ours"}
      [] OTHER -> page

\* (Mutant: the tool gives up when a server does not answer.)
LeftUnlessFailed(s, failed) == IF failed THEN {} ELSE left \ {s}

LeftAfter(s, failed) == left \ {s}

\* (Mutant: a pod without an address is kept.)
AllPods == SUBSET (Servers \cup {None})

\* The pods that are Running and have an address, now.
RunningPods == SUBSET Servers

\* discoverPodURLs: those pods; without any, or when a call fails, the
\* tool says so and ends.
Discover(cmd) ==
    /\ step = "off" /\ command' = cmd
    /\ nkey' = IF cmd = "user-connections" THEN user[Target].nkeyPublicKey ELSE None
    /\ cmd = "user-connections" => nkey' # None
    /\ \E running \in RunningPods :
          /\ urls' = running /\ left' = running
          /\ step' = IF running = {} THEN "done" ELSE "connz"
    /\ UNCHANGED <<client, closed, moves, found, errors, alarms, unread>>

\* With all answers: Status: CONNECTED, or diagnostics.
Report(servers) ==
    IF servers # {} \/ command = "connections" THEN "done" ELSE "closed"

\* QueryAllServers, in the order of a map.
QueryServer(s) ==
    /\ step = "connz" /\ s \in left
    /\ \/ /\ errors' = errors \cup {s}
          /\ left' = LeftAfter(s, TRUE) /\ UNCHANGED found
       \/ /\ \E p \in Pages(s) : found' = IF Filter(p) # {} THEN found \cup {s} ELSE found
          /\ left' = LeftAfter(s, FALSE) /\ UNCHANGED errors
    /\ step' = IF left' = {} THEN Report(found') ELSE step
    /\ UNCHANGED <<client, closed, moves, command, nkey, urls, alarms, unread>>

\* checkClosedConnections asks the same servers again; one that does not answer
\* is passed over.
CheckClosedConnections ==
    /\ step = "closed"
    /\ \/ closed /\ alarms' = alarms \cup {"closed"}
       \/ UNCHANGED alarms
    /\ step' = "config"
    /\ UNCHANGED <<client, closed, moves, command, nkey, urls, left, found, errors, unread>>

\* (Mutant: some key of the user is enough.)
AnyKeyInConfig(k) == config[Target] # NoEntry

NKeyInConfig(k) == config[Target].key = k

\* The key, or the account, is looked for in the ConfigMap.  The account has its
\* section with users or without, and that is all that is asked about it.
CheckConfig ==
    /\ step = "config"
    /\ \/ unread' = TRUE /\ UNCHANGED alarms
       \/ /\ alarms' = IF command = "account-connections" \/ NKeyInConfig(nkey)
                       THEN alarms ELSE alarms \cup {"notInConfig"}
          /\ UNCHANGED unread
    /\ step' = IF command = "user-connections" THEN "user" ELSE "done"
    /\ UNCHANGED <<client, closed, moves, command, nkey, urls, left, found, errors>>

\* (Mutant: True and False mixed up.)
SaysReady(c) == c.ready = "Reconciled"

\* A Ready condition that is not True.
SaysNotReady(c) == c.ready \notin {"", "Reconciled"}

\* checkNatsUserStatus: the user with the key in its status.
CheckUser ==
    /\ step = "user"
    /\ \/ unread' = TRUE /\ step' = "done" /\ UNCHANGED alarms
       \/ /\ user[Target].nkeyPublicKey # nkey
          /\ alarms' = alarms \cup {"noUser"} /\ step' = "done"
          /\ UNCHANGED unread
       \/ /\ user[Target].nkeyPublicKey = nkey
          /\ alarms' = IF SaysNotReady(user[Target]) THEN alarms \cup {"notReady"} ELSE alarms
          /\ step' = "secret"
          /\ UNCHANGED unread
    /\ UNCHANGED <<client, closed, moves, command, nkey, urls, left, found, errors>>

\* Its Secret: every error of the call is called "not found".
CheckSecret ==
    /\ step = "secret"
    /\ \/ unread' = TRUE /\ alarms' = alarms \cup {"noSecret"}
       \/ /\ alarms' = alarms \cup
                CASE secret[Target] = NoSecret -> {"noSecret"}
                  [] secret[Target] # NoSecret /\ secret[Target].key # nkey -> {"mismatch"}
                  [] OTHER -> {}
          /\ UNCHANGED unread
    /\ step' = "done"
    /\ UNCHANGED <<client, closed, moves, command, nkey, urls, left, found, errors>>

-----------------------------------------------------------------------------
ServedWith(k) == Entitled(Target) /\ Served(Target) /\ user[Target].nkeyPublicKey = k
ConnectedWith(k) == client # NoClient /\ k \in {None, client.key}

\* Keep account of what is true, from the moment the tool starts: first holds
\* then, later tells how a step changes it.
Since(first, later) == IF step = "off" THEN first ELSE later

Observe ==
    IF step' = "off" THEN UNCHANGED ghostVars ELSE
    /\ stayed' = Since(IF ConnectedWith(nkey)' THEN client'.server ELSE None,
                       IF client'.server = stayed THEN stayed ELSE None)
    /\ seen' = (nkey' # None /\ Since(ConnectedWith(nkey)', seen \/ ConnectedWith(nkey)'))
    /\ calm' = Since(ServedWith(nkey)', calm /\ ServedWith(nkey)')
    /\ usable' = (nkey' # None /\ Since(CanConnect', usable \/ CanConnect'))

\* The user has the key it is asked for.
DebugInit ==
    /\ Init /\ user[Target].nkeyPublicKey # None
    /\ client = NoClient /\ closed = FALSE /\ moves = 0
    /\ step = "off" /\ command = None /\ nkey = None
    /\ urls = {} /\ left = {} /\ found = {} /\ errors = {} /\ alarms = {} /\ unread = FALSE
    /\ seen = FALSE /\ stayed = None /\ calm = FALSE /\ usable = FALSE

Tool ==
    \/ \E cmd \in Commands : Discover(cmd)
    \/ \E s \in Servers : QueryServer(s)
    \/ CheckClosedConnections \/ CheckConfig \/ CheckUser \/ CheckSecret

DebugNext ==
    /\ step # "done"
    /\ \/ Next /\ UNCHANGED <<client, closed, moves, toolVars>>
       \/ ((\E s \in Servers : Connect(s)) \/ Disconnect \/ Tool) /\ UNCHANGED vars
    /\ Observe

DebugSpec == DebugInit /\ [][DebugNext]_<<vars, debugVars>>

-----------------------------------------------------------------------------
(* Properties.                                                             *)

Reported == step = "done" /\ command = "user-connections" /\ urls # {}

\* CONNECTED is said of a key only if a client was connected with it at some
\* moment of the run.
ConnectedIsTrue == Reported /\ found # {} => seen

\* A client that stays on a server the tool knows is found, by every command,
\* unless the server did not answer or has more connections than it lists.
SteadyClientFound ==
    step = "done" /\ stayed \in urls =>
        stayed \in found \cup errors \/ Others[stayed] >= PageSize

\* A user that is served all the time with the key in question is not said to
\* be missing, not Ready or without its Secret, whatever the operator writes
\* meanwhile.
AlarmMeansTrouble ==
    Reported /\ calm /\ ~unread => alarms \subseteq {"closed"}

\* When for the whole run the key in the Secret was not one the servers know,
\* the diagnostics give a reason other than the client's own failures.
TroubleShown ==
    Reported /\ found = {} /\ ~usable /\ ~unread => ~(alarms \subseteq {"closed"})
=============================================================================
