--------------------------- MODULE NatsDebugProofs ---------------------------
(***************************************************************************)
(* Theorems about NatsDebug, for any servers, connections of others and    *)
(* page size and beside any run of the operator: the type invariant, that  *)
(* a connection is not reported unless there was one (ConnectedIsTrue) and *)
(* not missed if it stays (SteadyClientFound), and that alarms mean        *)
(* trouble (AlarmMeansTrouble).  That trouble is shown (TroubleShown) is   *)
(* proved where users keep their keys.                                     *)
(***************************************************************************)
EXTENDS NatsDebug, UserKeysProofs, FiniteSetTheorems

\* Questions about a user have a key, and all servers are asked before anything
\* else is looked at.
RunInv ==
    /\ step = "off" => found = {} /\ alarms = {}
    /\ step \notin {"off", "connz"} => left = {}
    /\ step # "off" => (command = "user-connections" => nkey # None)
    /\ step \in {"user", "secret"} => command = "user-connections"

Asked == step # "off" /\ command = "user-connections"

\* A server that listed a connection with the key had one.
FoundInv == Asked /\ found # {} => seen

\* A client that stays is where it was, with the key, and its server has not been
\* asked, has listed it or did not answer, or has too many connections.
SteadyInv ==
    step # "off" /\ stayed # None =>
        /\ client.server = stayed /\ nkey \in {None, client.key}
        /\ stayed \in urls => \/ stayed \in left \cup found \cup errors
                              \/ Others[stayed] >= PageSize

\* As long as the user is served with the key there is no reason for an alarm.
CalmInv == Asked /\ calm => ServedWith(nkey) /\ (unread \/ alarms \subseteq {"closed"})

\* The user existed and was deleted.
Gone == user[Target].uid = 0 /\ incarnations[Target] = 1

\* When the key could not be used all the time, the configuration did not have it
\* or the user is gone, and one of this is noticed.
TroubleInv ==
    Asked /\ ~usable =>
        /\ ~CanConnect
        /\ step \in {"user", "secret"} \/ (step = "done" /\ urls # {} /\ found = {})
              => unread \/ ~(alarms \subseteq {"closed"}) \/ (step = "user" /\ Gone)


-----------------------------------------------------------------------------
(* Types, and the order of the tool's steps.                               *)

\* Beside the tool the operator runs as if there were none.
LEMMA ToolStep == [DebugNext]_<<vars, debugVars>> => [Next]_vars
BY DEF DebugNext

\* So what is proved of the operator holds beside the tool.
LEMMA Beside == DebugSpec => Spec
<1>1. DebugInit => Init
  BY DEF DebugInit
<1> QED
  BY <1>1, ToolStep, PTL DEF Spec, DebugSpec

\* What Observe keeps account of is of its type.
LEMMA GhostTypes ==
    ASSUME DebugTypeOK, Observe, client' \in [server : Servers \cup {None}, key : Keys]
    PROVE  /\ seen' \in BOOLEAN /\ calm' \in BOOLEAN /\ usable' \in BOOLEAN
           /\ stayed' \in Servers \cup {None}
<1>1. CASE step' = "off"
  BY <1>1 DEF Observe, ghostVars, DebugTypeOK
<1>2. CASE step' # "off"
  <2>1. stayed' \in {client'.server, stayed, None}
    BY <1>2 DEF Observe, Since
  <2>2. stayed' \in Servers \cup {None}
    BY <2>1 DEF DebugTypeOK
  <2>3. seen' \in BOOLEAN
    BY <1>2, Zenon DEF Observe
  <2>4. usable' \in BOOLEAN
    BY <1>2, Zenon DEF Observe
  <2>5. calm' \in BOOLEAN
    BY <1>2, Zenon DEF Observe, Since, ServedWith
  <2> QED
    BY <2>2, <2>3, <2>4, <2>5
<1> QED
  BY <1>1, <1>2

\* The steps of the client keep its state of its type.
LEMMA ConnectTypes ==
    ASSUME TypeOK, DebugTypeOK, NEW s \in Servers, Connect(s)
    PROVE  /\ client' \in [server : Servers \cup {None}, key : Keys]
           /\ closed' \in BOOLEAN /\ moves' \in 0..MaxMoves
<1>1. secret[Target].key \in Keys
  BY DebugAssumption DEF TypeOK, Secret
<1>2. moves' \in 0..MaxMoves
  BY DebugAssumption DEF DebugTypeOK, Connect
<1>3. client' \in {client, [server |-> s, key |-> secret[Target].key]} /\ closed' \in {closed, TRUE}
  BY DEF Connect
<1>4. [server |-> s, key |-> secret[Target].key] \in [server : Servers \cup {None}, key : Keys]
  BY <1>1
<1> QED
  BY <1>2, <1>3, <1>4 DEF DebugTypeOK

\* Every step keeps the types and the order of the tool's steps.
LEMMA RunStep ==
    TypeOK /\ DebugTypeOK /\ RunInv /\ [DebugNext]_<<vars, debugVars>> => DebugTypeOK' /\ RunInv'
<1> SUFFICES ASSUME TypeOK, DebugTypeOK, RunInv, [DebugNext]_<<vars, debugVars>>
             PROVE  DebugTypeOK' /\ RunInv'
  OBVIOUS
<1>1. CASE UNCHANGED <<vars, debugVars>>
  BY <1>1 DEF debugVars, toolVars, ghostVars, DebugTypeOK, RunInv
<1>2. CASE DebugNext
  <2> USE DEF RunInv, toolVars
  <2>0. Observe /\ step # "done"
    BY <1>2 DEF DebugNext
  <2> SUFFICES /\ client' \in [server : Servers \cup {None}, key : Keys]
               /\ closed' \in BOOLEAN /\ moves' \in 0..MaxMoves
               /\ step' \in {"off", "connz", "closed", "config", "user", "secret", "done"}
               /\ command' \in Commands \cup {None} /\ nkey' \in Keys
               /\ urls' \subseteq Servers /\ left' \subseteq Servers /\ found' \subseteq Servers
               /\ errors' \subseteq Servers
               /\ alarms' \subseteq Alarms /\ unread' \in BOOLEAN
               /\ RunInv'
    BY <2>0, GhostTypes DEF DebugTypeOK
  <2>1. CASE UNCHANGED <<client, closed, moves, toolVars>>
    BY <2>1 DEF DebugTypeOK
  <2>2. CASE \E s \in Servers : Connect(s)
    <3>1. PICK s \in Servers : Connect(s)
      BY <2>2
    <3>2. UNCHANGED toolVars
      BY <3>1 DEF Connect
    <3> QED
      BY <3>1, <3>2, ConnectTypes DEF DebugTypeOK
  <2>3. CASE Disconnect
    BY <2>3 DEF Disconnect, NoClient, DebugTypeOK, Keys
  <2>4. CASE \E cmd \in Commands : Discover(cmd)
    <3>1. PICK cmd \in Commands : Discover(cmd)
      BY <2>4
    <3>2. user[Target].nkeyPublicKey \in Keys
      BY DebugAssumption DEF TypeOK, User
    <3> QED
      BY <3>1, <3>2 DEF Discover, RunningPods, DebugTypeOK, Keys
  <2>5. CASE \E s \in Servers : QueryServer(s)
    <3>1. PICK s \in Servers : QueryServer(s)
      BY <2>5
    <3>2. found' \in {found, found \cup {s}} /\ errors' \in {errors, errors \cup {s}}
      BY <3>1 DEF QueryServer
    <3>3. left' = left \ {s} /\ (step' = "connz" \/ (left' = {} /\ step' \in {"done", "closed"}))
      BY <3>1 DEF QueryServer, LeftAfter, Report
    <3>4. step = "connz" /\ UNCHANGED <<client, closed, moves, command, nkey, urls, alarms, unread>>
      BY <3>1 DEF QueryServer
    <3> QED
      BY <3>2, <3>3, <3>4 DEF DebugTypeOK
  <2>6. CASE CheckClosedConnections
    BY <2>6 DEF CheckClosedConnections, DebugTypeOK, Alarms
  <2>7. CASE CheckConfig
    BY <2>7 DEF CheckConfig, DebugTypeOK, Alarms
  <2>8. CASE CheckUser
    BY <2>8 DEF CheckUser, DebugTypeOK, Alarms
  <2>9. CASE CheckSecret
    <3>1. alarms' \subseteq alarms \cup {"noSecret", "mismatch"}
      BY <2>9 DEF CheckSecret
    <3> QED
      BY <2>9, <3>1 DEF CheckSecret, DebugTypeOK, Alarms
  <2> QED
    BY <1>2, <2>1, <2>2, <2>3, <2>4, <2>5, <2>6, <2>7, <2>8, <2>9 DEF DebugNext, Tool
<1> QED
  BY <1>1, <1>2

\* The types hold all the time, of the operator and of the tool.
LEMMA RunInvariant == DebugSpec => [](TypeOK /\ DebugTypeOK /\ RunInv)
<1>1. DebugInit => DebugTypeOK /\ RunInv
  <2>1. 0 \in 0..MaxMoves
    BY DebugAssumption
  <2>2. NoClient \in [server : Servers \cup {None}, key : Keys]
    BY DEF NoClient, Keys
  <2> QED
    BY <2>1, <2>2 DEF DebugInit, DebugTypeOK, RunInv, Keys
<1> QED
  BY <1>1, RunStep, Beside, TypeCorrect, PTL DEF DebugSpec

\* The tool goes through its steps and ends with known alarms only, whatever it
\* reads and whichever calls fail.
THEOREM DebugTypeCorrect == DebugSpec => []DebugTypeOK
BY RunInvariant, PTL

-----------------------------------------------------------------------------
(* Connections.                                                            *)

\* What Observe says of a step of the run.
LEMMA ObserveIs ==
    ASSUME Observe, step' # "off"
    PROVE  /\ nkey' # None /\ ConnectedWith(nkey)' => seen'
           /\ nkey' # None /\ step # "off" /\ seen => seen'
           /\ calm' => ServedWith(nkey)' /\ (step # "off" => calm)
           /\ nkey' # None /\ ~usable' => ~CanConnect' /\ (step # "off" => ~usable)
           /\ stayed' # None => IF step = "off"
                                THEN stayed' = client'.server /\ ConnectedWith(nkey)'
                                ELSE stayed' = stayed /\ client'.server = stayed
<1>1. nkey' # None /\ ConnectedWith(nkey)' => seen'
  BY Zenon DEF Observe, Since
<1>2. nkey' # None /\ step # "off" /\ seen => seen'
  BY Zenon DEF Observe, Since
<1>3. calm' => ServedWith(nkey)' /\ (step # "off" => calm)
  BY Zenon DEF Observe, Since
<1>4. nkey' # None /\ ~usable' => ~CanConnect' /\ (step # "off" => ~usable)
  BY Zenon DEF Observe, Since
<1>5. stayed' # None => IF step = "off"
                        THEN stayed' = client'.server /\ ConnectedWith(nkey)'
                        ELSE stayed' = stayed /\ client'.server = stayed
  BY Zenon DEF Observe, Since
<1> QED
  BY <1>1, <1>2, <1>3, <1>4, <1>5

\* A connection that is listed for a key is the client's.
LEMMA ListedIs ==
    ASSUME NEW s \in Servers, NEW p \in Pages(s), command = "user-connections",
           nkey # None, Filter(p) # {}
    PROVE  ConnectedWith(nkey)
<1>1. PICK c \in Connections(s) : c.nkey = nkey
  BY DEF Filter, Pages
<1>2. client.server = s /\ client.key = nkey
  BY <1>1 DEF Connections
<1>3. s # None
  BY DebugAssumption
<1> QED
  BY <1>2, <1>3 DEF ConnectedWith, NoClient

\* A server with fewer connections of others than a page holds lists the client.
LEMMA AllListed ==
    ASSUME NEW s \in Servers, NEW p \in Pages(s), Others[s] < PageSize, client.server = s
    PROVE  [cid |-> 0, nkey |-> client.key, account |-> "ours"] \in p
<1> DEFINE other(i) == [cid |-> i, nkey |-> None, account |-> "other"]
           ours == [cid |-> 0, nkey |-> client.key, account |-> "ours"]
           A == {other(i) : i \in 1..Others[s]}
           f == [i \in 1..Others[s] |-> other(i)]
           C == Connections(s)
<1>1. Others[s] \in Nat /\ PageSize \in Nat
  BY DebugAssumption
<1>2. C = A \cup {ours}
  BY DEF Connections
<1>3. f \in Surjection(1..Others[s], A)
  BY DEF Surjection
<1>4. IsFiniteSet(1..Others[s]) /\ Cardinality(1..Others[s]) = Others[s]
  <2>1. PICK n \in Nat : n = Others[s]
    BY <1>1
  <2>2. IsFiniteSet(1..n) /\ Cardinality(1..n) = IF 1 > n THEN 0 ELSE n - 1 + 1
    BY FS_Interval
  <2> QED
    BY <2>1, <2>2
<1>5. IsFiniteSet(A) /\ Cardinality(A) <= Others[s]
  BY <1>3, <1>4, FS_Surjection
<1>6. p \in SUBSET C /\ Cardinality(p) = IF Cardinality(C) < PageSize THEN Cardinality(C) ELSE PageSize
  BY DEF Pages
<1> HIDE DEF f, A, ours, C
<1>7. Cardinality(A) \in Nat
  BY <1>5, FS_CardinalityType
<1>8. IsFiniteSet(C) /\ Cardinality(C) <= Cardinality(A) + 1
  <2>1. /\ IsFiniteSet(A \cup {ours})
        /\ Cardinality(A \cup {ours}) = IF ours \in A THEN Cardinality(A) ELSE Cardinality(A) + 1
    BY <1>5, FS_AddElement
  <2>2. /\ IsFiniteSet(C)
        /\ Cardinality(C) = IF ours \in A THEN Cardinality(A) ELSE Cardinality(A) + 1
    BY <1>2, <2>1
  <2> QED
    BY <1>7, <2>2
<1>9. Cardinality(C) \in Nat
  BY <1>8, FS_CardinalityType
<1>10. Cardinality(p) = Cardinality(C)
  BY <1>1, <1>5, <1>6, <1>7, <1>8, <1>9
<1>11. C = p
  BY <1>6, <1>8, <1>10, FS_Subset
<1> QED
  BY <1>2, <1>11 DEF ours

\* And so every command finds it.
LEMMA SteadyListed ==
    ASSUME NEW s \in Servers, NEW p \in Pages(s), Others[s] < PageSize,
           client.server = s, nkey \in {None, client.key},
           command = "user-connections" => nkey # None
    PROVE  Filter(p) # {}
<1> DEFINE ours == [cid |-> 0, nkey |-> client.key, account |-> "ours"]
<1>1. ours \in p
  BY AllListed
<1>2. command = "user-connections" => ours.nkey = nkey
  OBVIOUS
<1>3. ours.account = "ours"
  OBVIOUS
<1> HIDE DEF ours
<1> QED
  BY <1>1, <1>2, <1>3 DEF Filter

\* A server is added to those found only in the answer of one that lists the
\* client, which is connected at that moment.
LEMMA FoundStep ==
    RunInv /\ FoundInv /\ [DebugNext]_<<vars, debugVars>> /\ RunInv' => FoundInv'
<1> SUFFICES ASSUME RunInv, FoundInv, [DebugNext]_<<vars, debugVars>>, RunInv',
                    Asked', found' # {}
             PROVE  seen'
  BY DEF FoundInv
<1>1. CASE UNCHANGED <<vars, debugVars>>
  BY <1>1 DEF debugVars, toolVars, ghostVars, FoundInv, Asked
<1>2. CASE DebugNext
  <2>1. Observe /\ step' # "off" /\ nkey' # None
    BY <1>2 DEF DebugNext, Asked, RunInv
  <2>2. CASE \E s \in Servers : QueryServer(s)
    <3>1. PICK s \in Servers : QueryServer(s)
      BY <2>2
    <3>2. step # "off" /\ UNCHANGED <<client, command, nkey>>
      BY <3>1 DEF QueryServer
    <3>3. CASE found' = found
      BY <2>1, <3>2, <3>3, ObserveIs DEF FoundInv, Asked
    <3>4. CASE \E p \in Pages(s) : Filter(p) # {}
      <4>1. ConnectedWith(nkey)
        BY <2>1, <3>2, <3>4, ListedIs DEF Asked
      <4>2. ConnectedWith(nkey)'
        BY <3>2, <4>1 DEF ConnectedWith
      <4> QED
        BY <2>1, <4>2, ObserveIs
    <3> QED
      BY <3>1, <3>3, <3>4 DEF QueryServer
  <2>3. CASE step # "off" /\ UNCHANGED <<command, found>>
    BY <2>1, <2>3, ObserveIs DEF FoundInv, Asked
  <2>4. CASE step = "off" /\ UNCHANGED found
    BY <2>4 DEF RunInv
  <2> QED
    BY <1>2, <2>2, <2>3, <2>4
    DEF DebugNext, Tool, toolVars, Connect, Disconnect, Discover, CheckClosedConnections,
        CheckConfig, CheckUser, CheckSecret
<1> QED
  BY <1>1, <1>2

\* A client that stays is not lost: its server leaves those still to be asked for
\* those that listed it or did not answer.
LEMMA SteadyStep ==
    TypeOK /\ DebugTypeOK /\ RunInv /\ SteadyInv /\ [DebugNext]_<<vars, debugVars>> => SteadyInv'
<1> SUFFICES ASSUME TypeOK, DebugTypeOK, RunInv, SteadyInv, [DebugNext]_<<vars, debugVars>>,
                    step' # "off", stayed' # None
             PROVE  /\ client'.server = stayed' /\ nkey' \in {None, client'.key}
                    /\ stayed' \in urls' => \/ stayed' \in left' \cup found' \cup errors'
                                            \/ Others[stayed'] >= PageSize
  BY DEF SteadyInv
<1>1. CASE UNCHANGED <<vars, debugVars>>
  BY <1>1 DEF debugVars, toolVars, ghostVars, SteadyInv
<1>2. CASE DebugNext
  <2>1. Observe
    BY <1>2 DEF DebugNext
  <2>2. CASE step = "off"
    <3>1. stayed' = client'.server /\ nkey' \in {None, client'.key}
      BY <2>1, <2>2, ObserveIs DEF ConnectedWith
    <3>2. PICK cmd \in Commands : Discover(cmd)
      BY <1>2, <2>2 DEF DebugNext, Tool, toolVars, Connect, Disconnect, QueryServer,
           CheckClosedConnections, CheckConfig, CheckUser, CheckSecret
    <3>3. left' = urls'
      BY <3>2 DEF Discover
    <3> QED
      BY <3>1, <3>3
  <2>3. CASE step # "off"
    <3>1. stayed' = stayed /\ client'.server = stayed /\ stayed # None
      BY <2>1, <2>3, ObserveIs
    <3>2. /\ client.server = stayed /\ nkey \in {None, client.key}
          /\ stayed \in urls => \/ stayed \in left \cup found \cup errors
                                \/ Others[stayed] >= PageSize
      BY <2>3, <3>1 DEF SteadyInv
    <3>3. client.server # None /\ client'.server # None
      BY <3>1, <3>2
    <3>4. CASE \E s \in Servers : QueryServer(s)
      <4>1. PICK s \in Servers : QueryServer(s)
        BY <3>4
      <4>2. UNCHANGED <<client, command, nkey, urls>> /\ left' = left \ {s}
        BY <4>1 DEF QueryServer, LeftAfter
      <4>3. found \subseteq found' /\ errors \subseteq errors'
        BY <4>1 DEF QueryServer
      <4>4. ASSUME stayed = s, ~(Others[stayed] >= PageSize)
            PROVE  stayed \in found' \cup errors'
        <5>1. Others[s] < PageSize
          BY <4>4, DebugAssumption
        <5>2. CASE s \in errors'
          BY <4>4, <5>2
        <5>3. CASE \E p \in Pages(s) : found' = IF Filter(p) # {} THEN found \cup {s} ELSE found
          <6>1. PICK p \in Pages(s) : found' = IF Filter(p) # {} THEN found \cup {s} ELSE found
            BY <5>3
          <6>2. Filter(p) # {}
            BY <2>3, <3>2, <4>4, <5>1, SteadyListed DEF RunInv
          <6> QED
            BY <4>4, <6>1, <6>2
        <5> QED
          BY <4>1, <5>2, <5>3 DEF QueryServer
      <4> QED
        BY <3>1, <3>2, <4>2, <4>3, <4>4
    <3>5. CASE UNCHANGED <<client, nkey, urls, left, found, errors>>
      BY <3>1, <3>2, <3>5
    <3>6. ~\E s \in Servers : Connect(s)
      BY <3>3 DEF Connect, NoClient
    <3>7. ~Disconnect
      BY <3>3 DEF Disconnect, NoClient
    <3> QED
      BY <1>2, <2>3, <3>4, <3>5, <3>6, <3>7
      DEF DebugNext, Tool, toolVars, Discover, CheckClosedConnections, CheckConfig, CheckUser,
          CheckSecret
  <2> QED
    BY <2>2, <2>3
<1> QED
  BY <1>1, <1>2

\* "Status: CONNECTED" is never said of a key no client was connected with during
\* the run, although the servers are asked at different moments while clients move.
THEOREM ConnectedMeansConnected == DebugSpec => []ConnectedIsTrue
<1>1. DebugInit => FoundInv
  BY DEF DebugInit, FoundInv, Asked
<1>2. FoundInv => ConnectedIsTrue
  BY DEF FoundInv, Asked, ConnectedIsTrue, Reported
<1> QED
  BY <1>1, <1>2, FoundStep, RunInvariant, PTL DEF DebugSpec

\* A client that stays connected is listed by its server whenever that is asked,
\* for any number of servers and of connections of others within a page.
THEOREM SteadyClientIsFound == DebugSpec => []SteadyClientFound
<1>1. DebugInit => SteadyInv
  BY DEF DebugInit, SteadyInv
<1>2. DebugTypeOK /\ RunInv /\ SteadyInv => SteadyClientFound
  BY DebugAssumption DEF DebugTypeOK, RunInv, SteadyInv, SteadyClientFound
<1> QED
  BY <1>1, <1>2, SteadyStep, RunInvariant, PTL DEF DebugSpec

-----------------------------------------------------------------------------
(* Diagnostics.                                                            *)

\* A user that is served with the key gives the diagnostics nothing to say.
LEMMA ServedIs ==
    ASSUME ServedWith(nkey)
    PROVE  /\ user[Target].nkeyPublicKey = nkey /\ NKeyInConfig(nkey)
           /\ ~SaysNotReady(user[Target])
           /\ secret[Target] # NoSecret /\ secret[Target].key = nkey
<1>1. /\ user[Target].nkeyPublicKey = nkey
      /\ secret[Target] # NoSecret /\ user[Target].nkeyPublicKey = secret[Target].key
      /\ user[Target].ready = "Reconciled"
      /\ config[Target] = [key |-> secret[Target].key, prefix |-> secret[Target].prefix]
  BY Zenon DEF ServedWith, Served, ServedBy
<1> QED
  BY <1>1 DEF NKeyInConfig, SaysNotReady

\* Each object is read while the user is served, so no read raises an alarm.
LEMMA CalmStep == RunInv /\ CalmInv /\ [DebugNext]_<<vars, debugVars>> => CalmInv'
<1> SUFFICES ASSUME RunInv, CalmInv, [DebugNext]_<<vars, debugVars>>, Asked', calm'
             PROVE  ServedWith(nkey)' /\ (unread' \/ alarms' \subseteq {"closed"})
  BY DEF CalmInv
<1>1. CASE UNCHANGED <<vars, debugVars>>
  <2>1. ServedWith(nkey)' = ServedWith(nkey)
    BY <1>1 DEF vars, objVars, debugVars, toolVars, ServedWith, Entitled, Served, ServedBy
  <2> QED
    BY <1>1, <2>1 DEF debugVars, toolVars, ghostVars, CalmInv, Asked
<1>2. CASE DebugNext
  <2>1. Observe /\ step' # "off"
    BY <1>2 DEF DebugNext, Asked
  <2>2. ServedWith(nkey)' /\ (step # "off" => calm)
    BY <2>1, ObserveIs
  <2>3. CASE step = "off"
    <3>1. alarms' = alarms
      BY <1>2, <2>3 DEF DebugNext, Tool, toolVars, Connect, Disconnect, Discover, QueryServer,
           CheckClosedConnections, CheckConfig, CheckUser, CheckSecret
    <3> QED
      BY <2>2, <2>3, <3>1 DEF RunInv
  <2>4. CASE step # "off"
    <3>1. command' = command
      BY <1>2, <2>4 DEF DebugNext, Tool, toolVars, Connect, Disconnect, Discover, QueryServer,
           CheckClosedConnections, CheckConfig, CheckUser, CheckSecret
    <3>2. ServedWith(nkey) /\ (unread \/ alarms \subseteq {"closed"})
      BY <2>2, <2>4, <3>1 DEF CalmInv, Asked
    <3>3. /\ user[Target].nkeyPublicKey = nkey /\ NKeyInConfig(nkey)
          /\ ~SaysNotReady(user[Target])
          /\ secret[Target] # NoSecret /\ secret[Target].key = nkey
      BY <3>2, ServedIs
    <3>4. CASE UNCHANGED <<alarms, unread>>
      BY <2>2, <3>2, <3>4
    <3>5. CASE CheckClosedConnections
      BY <2>2, <3>2, <3>5 DEF CheckClosedConnections
    <3>6. CASE CheckConfig
      BY <2>2, <3>2, <3>3, <3>6 DEF CheckConfig
    <3>7. CASE CheckUser
      BY <2>2, <3>2, <3>3, <3>7 DEF CheckUser
    <3>8. CASE CheckSecret
      BY <2>2, <3>2, <3>3, <3>8 DEF CheckSecret
    <3> QED
      BY <1>2, <2>4, <3>4, <3>5, <3>6, <3>7, <3>8
      DEF DebugNext, Tool, toolVars, Connect, Disconnect, Discover, QueryServer
  <2> QED
    BY <2>3, <2>4
<1> QED
  BY <1>1, <1>2

\* Whatever the operator writes between the reads of ConfigMap, NatsUser and
\* Secret, a user that is served all along with the key of the question is not
\* reported missing, not Ready or without its Secret: the reads need not be of
\* one moment.
THEOREM AlarmsMeanTrouble == DebugSpec => []AlarmMeansTrouble
<1>1. DebugInit => CalmInv
  BY DEF DebugInit, CalmInv, Asked
<1>2. DebugTypeOK /\ CalmInv => AlarmMeansTrouble
  BY DEF DebugTypeOK, CalmInv, Asked, AlarmMeansTrouble, Reported
<1> QED
  BY <1>1, <1>2, CalmStep, RunInvariant, PTL DEF DebugSpec

\* Where names are used once, a user that is gone stays gone.
LEMMA GoneStays ==
    ASSUME KeysKept, StatusInv, KeyInv, [Next]_vars, Gone
    PROVE  Gone'
<1>0. TypeOK /\ CurInv /\ FreshInv /\ LoopInv /\ Target \in Users
  BY DebugAssumption DEF StatusInv
<1> USE DEF objVars, localVars, Gone
<1>1. CASE UNCHANGED <<user, incarnations>>
  BY <1>1
<1>2. CASE \E u \in todo, r \in Reasons : SetUserCondition(u, r)
  <2>1. PICK u \in todo, r \in Reasons : SetUserCondition(u, r)
    BY <1>2
  <2>2. u \in Users
    BY <1>0 DEF TypeOK
  <2> QED
    BY <1>0, <2>1, <2>2, ConditionKeeps
<1>3. CASE \E c : pc = "key" /\ StoreUser(cur, c)
  <2>1. PICK c : pc = "key" /\ StoreUser(cur, c)
    BY <1>3
  <2>2. cur \in todo /\ cur \in Users
    BY <1>0, <2>1 DEF CurInv, InWork, TypeOK
  <2>3. user[cur].uid # 0
    BY <1>0, <2>1, <2>2 DEF StoreUser, FreshInv, LoopInv
  <2>4. cur # Target
    BY <2>3
  <2> QED
    BY <1>0, <2>1, <2>4 DEF StoreUser, TypeOK
<1>4. CASE \E u \in Users : \E c : u # Target /\ ChangeUser(u, c)
                               /\ incarnations'[Target] = incarnations[Target]
  BY <1>0, <1>4 DEF ChangeUser, TypeOK
<1>5. Worker => \/ UNCHANGED <<user, incarnations>>
                \/ \E u \in todo, r \in Reasons : SetUserCondition(u, r)
                \/ \E c : pc = "key" /\ StoreUser(cur, c)
  <2>1. ListUsers \/ GetSecret \/ UpdateSecret \/ CreateSecret \/ Publish
           => UNCHANGED <<user, incarnations>>
    BY DEF ListUsers, GetSecret, UpdateSecret, CreateSecret, Publish
  <2>2. ASSUME NEW u \in Users, EvaluateRules(u)
        PROVE  \/ UNCHANGED <<user, incarnations>>
               \/ \E r \in Reasons : u \in todo /\ SetUserCondition(u, r)
    BY <2>2 DEF EvaluateRules, Reasons
  <2>3. SetReady => cur \in todo /\ SetUserCondition(cur, "Reconciled")
    BY <1>0 DEF SetReady, CurInv, InWork
  <2>4. RecordKey => \/ UNCHANGED <<user, incarnations>>
                     \/ \E c : pc = "key" /\ StoreUser(cur, c)
    BY DEF RecordKey, WriteUser
  <2> QED
    BY <2>1, <2>2, <2>3, <2>4 DEF Worker, Reasons
<1>6. ASSUME NEW u \in Users, NEW o, NEW i, CreateUser(u, o, i)
      PROVE  u # Target /\ (\E c : ChangeUser(u, c)) /\ incarnations'[Target] = incarnations[Target]
  BY <1>0, <1>6 DEF CreateUser, KeysKept, TypeOK
<1>7. ASSUME NEW u \in Users, NEW o, NEW i, EditUser(u, o, i) \/ DeleteUser(u)
      PROVE  u # Target /\ (\E c : ChangeUser(u, c)) /\ incarnations'[Target] = incarnations[Target]
  BY <1>7 DEF EditUser, DeleteUser
<1>8. ASSUME NEW u \in Users,
             UserEvent(u) \/ ChangePermission(u) \/ CollectSecret(u) \/ DeleteSecret(u)
      PROVE  UNCHANGED <<user, incarnations>>
  BY <1>8 DEF UserEvent, ChangePermission, CollectSecret, DeleteSecret, DropSecret
<1>9. ConfigMapEvent \/ TimerFires \/ OtherEvent \/ RestartOperator \/ UNCHANGED vars
         => UNCHANGED <<user, incarnations>>
  BY DEF ConfigMapEvent, TimerFires, OtherEvent, RestartOperator, vars
<1>10. CASE \E u \in Users : UserStep(u)
  BY <1>1, <1>4, <1>6, <1>7, <1>8, <1>10 DEF UserStep
<1> QED
  BY <1>1, <1>2, <1>3, <1>5, <1>9, <1>10 DEF Next

\* Where users keep their keys, a published key that cannot be used is one of a
\* user that is gone.
LEMMA UnusableIs ==
    ASSUME StatusInv, KeyInv, ~CanConnect, nkey # None, NKeyInConfig(nkey)
    PROVE  Gone
<1>1. config[Target].key = nkey /\ config[Target] # NoEntry /\ Target \in Users
  BY DebugAssumption DEF NKeyInConfig, NoEntry
<1>2. incarnations[Target] = 1 /\ (user[Target].uid # 0 => secret[Target].key = nkey)
  BY <1>1 DEF KeyInv, EntryInv, EntryOf
<1>3. user[Target].uid # 0 => secret[Target] # NoSecret
  BY <1>2 DEF NoSecret
<1> QED
  BY <1>1, <1>2, <1>3 DEF CanConnect, Gone

\* The key is not found in the configuration, or the user has gone with it and is
\* not found afterwards.
LEMMA TroubleStep ==
    ASSUME KeysKept
    PROVE  StatusInv /\ KeyInv /\ DebugTypeOK /\ RunInv /\ TroubleInv
           /\ [DebugNext]_<<vars, debugVars>> /\ RunInv' => TroubleInv'
<1> SUFFICES ASSUME StatusInv, KeyInv, DebugTypeOK, RunInv, TroubleInv,
                    [DebugNext]_<<vars, debugVars>>, RunInv', Asked', ~usable'
             PROVE  /\ ~CanConnect'
                    /\ step' \in {"user", "secret"} \/ (step' = "done" /\ urls' # {} /\ found' = {})
                          => \/ unread' \/ ~(alarms' \subseteq {"closed"})
                             \/ step' = "user" /\ Gone'
  BY DEF TroubleInv
<1>1. [Next]_vars
  BY ToolStep
<1>2. Gone => Gone'
  BY <1>1, GoneStays
<1>3. CASE UNCHANGED <<vars, debugVars>>
  <2>1. CanConnect' = CanConnect
    BY <1>3 DEF vars, CanConnect
  <2> QED
    BY <1>2, <1>3, <2>1 DEF debugVars, toolVars, ghostVars, TroubleInv, Asked
<1>4. CASE DebugNext
  <2>1. Observe /\ step' # "off" /\ nkey' # None
    BY <1>4 DEF DebugNext, Asked, RunInv
  <2>2. ~CanConnect' /\ (step # "off" => ~usable)
    BY <2>1, ObserveIs
  <2>3. CASE step = "off"
    <3>1. \E cmd \in Commands : Discover(cmd)
      BY <1>4, <2>1, <2>3 DEF DebugNext, Tool, toolVars, Connect, Disconnect, QueryServer,
           CheckClosedConnections, CheckConfig, CheckUser, CheckSecret
    <3>2. step' = "connz" \/ urls' = {}
      BY <3>1 DEF Discover
    <3>3. step' \in {"connz", "done"}
      BY <3>1 DEF Discover
    <3> QED
      BY <2>2, <3>2, <3>3
  <2>4. CASE step # "off"
    <3>1. UNCHANGED <<command, nkey>>
      BY <1>4, <2>4 DEF DebugNext, Tool, toolVars, Connect, Disconnect, Discover, QueryServer,
           CheckClosedConnections, CheckConfig, CheckUser, CheckSecret
    <3>2. /\ ~CanConnect
          /\ step \in {"user", "secret"} \/ (step = "done" /\ urls # {} /\ found = {})
                => unread \/ ~(alarms \subseteq {"closed"}) \/ (step = "user" /\ Gone)
      BY <2>2, <2>4, <3>1 DEF TroubleInv, Asked
    <3>3. CASE UNCHANGED toolVars
      BY <1>2, <2>2, <3>2, <3>3 DEF toolVars
    <3>4. CASE \E s \in Servers : QueryServer(s)
      BY <2>2, <3>1, <3>4 DEF QueryServer, Report, Asked
    <3>5. CASE CheckClosedConnections
      BY <2>2, <3>5 DEF CheckClosedConnections
    <3>6. CASE CheckConfig
      <4>1. NKeyInConfig(nkey) => Gone
        BY <2>1, <3>1, <3>2, UnusableIs
      <4> QED
        BY <1>2, <2>2, <3>1, <3>6, <4>1 DEF CheckConfig, Asked
    <3>7. CASE CheckUser
      <4>1. user[Target].nkeyPublicKey = nkey => ~Gone
        BY <2>1, <3>1, DebugAssumption DEF KeyInv, StatusKeyInv, Gone
      <4> QED
        BY <2>2, <3>2, <3>7, <4>1 DEF CheckUser
    <3>8. CASE CheckSecret
      BY <2>2, <3>2, <3>8 DEF CheckSecret
    <3> QED
      BY <1>4, <2>4, <3>3, <3>4, <3>5, <3>6, <3>7, <3>8
      DEF DebugNext, Tool, Connect, Disconnect, Discover
  <2> QED
    BY <2>3, <2>4
<1> QED
  BY <1>3, <1>4

\* When during a whole run the key in the Secret was none the servers knew, the
\* tool says why, although the operator may write each of the three objects just
\* after it was read: where users keep their keys, a key that is published and
\* cannot be used means that the user is gone, and then its status is, too.
THEOREM TroubleIsShown == KeysKept => (DebugSpec => []TroubleShown)
<1> SUFFICES ASSUME KeysKept PROVE DebugSpec => []TroubleShown
  OBVIOUS
<1>1. DebugInit => TroubleInv
  BY DEF DebugInit, TroubleInv, Asked
<1>2. TroubleInv => TroubleShown
  BY DEF TroubleInv, Asked, TroubleShown, Reported
<1>3. Spec => [](StatusInv /\ KeyInv)
  BY KeyInvariant
<1>4. StatusInv /\ KeyInv /\ DebugTypeOK /\ RunInv /\ TroubleInv
         /\ [DebugNext]_<<vars, debugVars>> /\ RunInv' => TroubleInv'
  BY TroubleStep
<1> QED
  BY <1>1, <1>2, <1>3, <1>4, Beside, RunInvariant, PTL DEF DebugSpec
=============================================================================
