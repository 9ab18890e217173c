---------------------------- MODULE UserKeysProofs ----------------------------
(***************************************************************************)
(* Theorems about UserKeys, for any set of users, prefixes and draws and   *)
(* any bounds:                                                             *)
(*   - the type invariant and StatusTruthful, in every environment;        *)
(*   - KeyGeneratedOnce and PublishedKeyHeld, where names are not used     *)
(*     again and nobody deletes the Secret of a user;                      *)
(*   - RestServed, in the undisturbed environment.                         *)
(***************************************************************************)
EXTENDS UserKeys, TLAPS

\* The steps on one user, and those among them that hold its Secret.
InWork   == {"get", "create", "update", "key", "ready"}
HasHeld  == {"update", "key", "ready"}
Prepared == {"key", "ready"}

\* The user in work is one of the list.
CurInv == pc \in InWork => cur \in todo

\* Copies marked current are the current object.  (The copy of a user that was
\* processed may carry a condition that was never written.)
FreshInv ==
    \A u \in Users : /\ cacheFresh[u] => cached[u] = user[u]
                     /\ u \in todo /\ copyFresh[u] => copy[u] = user[u]

\* A Secret holds a key, and so does what was read of it.
KeyedInv ==
    /\ \A u \in Users : secret[u] # NoSecret => secret[u].key # None
    /\ pc \in HasHeld => held.key # None

\* What a reconcile knows of the users of its list.
LoopInv ==
    /\ pc = "idle" => todo = {} /\ entries = [u \in Users |-> NoEntry]
    /\ \A u \in todo : copy[u].uid # 0
    /\ pc = "ready" => copy[cur].nkeyPublicKey = held.key

\* Another reconcile is going to happen.
Due == queued \/ timer \/ echo \/ \E u \in Users : ~cacheFresh[u]

\* Unless another reconcile is due, the status of every user that was processed
\* is true of its new entry and, between reconciles, of the published one.
TruthInv ==
    /\ pc = "idle" => Due \/ \A u \in Users : TrueOf(u, config[u])
    /\ pc # "idle" => \/ Due \/ statusUpdateFailed
                      \/ \A u \in Users \ todo : TrueOf(u, entries[u])

StatusInv == TypeOK /\ CurInv /\ FreshInv /\ KeyedInv /\ LoopInv /\ TruthInv

\* The environments in which a user keeps its key: a name is used once and only
\* the garbage collector deletes Secrets.
KeysKept == Environment \cap {"recreate", "secretDelete"} = {}

\* Every name was used at most once, and Secrets belong to its only user.
OnceInv ==
    \A u \in Users :
        /\ incarnations[u] \in {0, 1}
        /\ user[u].uid \in {0, incarnations[u]}
        /\ cached[u].uid \in {0, incarnations[u]}
        /\ copy[u].uid \in {0, incarnations[u]}
        /\ secret[u] # NoSecret => secret[u].owner = 1

\* The key in the status of a user is the key of its Secret.
StatusKeyInv ==
    \A u \in Users : user[u].nkeyPublicKey # None =>
        user[u].uid # 0 /\ secret[u].key = user[u].nkeyPublicKey

\* The Secret in hand is the current one unless the user is gone.
HeldInv ==
    pc \in HasHeld => IF heldFresh THEN held = secret[cur] ELSE user[cur].uid = 0

\* An entry of an existing user has the key of its Secret.
EntryOf(u, e) ==
    e # NoEntry => /\ e.key # None /\ incarnations[u] = 1
                   /\ user[u].uid # 0 => secret[u].key = e.key

EntryInv == \A u \in Users : EntryOf(u, config[u]) /\ EntryOf(u, entries[u])

KeyInv == OnceInv /\ StatusKeyInv /\ HeldInv /\ EntryInv

\* Unless another reconcile is due, every user that was processed is served by
\* its new entry and, between reconciles, by the published one.
ServedInv ==
    /\ pc \in InWork => Due \/ permitted[cur]
    /\ pc \in Prepared => (held.prefix = None) = copy[cur].insecure
    /\ pc = "idle" => Due \/ \A u \in Users : ServedBy(u, config[u])
    /\ pc # "idle" => \/ Due \/ statusUpdateFailed
                      \/ \A u \in Users \ todo : ServedBy(u, entries[u])

-----------------------------------------------------------------------------
(* What the operators yield.                                               *)

\* The absent user, Secret and entry are of their types.
LEMMA NoTypes == NoUser \in User /\ NoSecret \in Secret /\ NoEntry \in Entry
BY DEF NoUser, NoSecret, NoEntry, User, Secret, Entry, Keys, Prefixes, Reasons

\* A draw that is not in use is a draw.
LEMMA FreshIs == ASSUME ~(Draws \subseteq InUse) PROVE Fresh \in Draws
<1>1. \E d \in Draws : d \notin InUse
  OBVIOUS
<1> QED
  BY <1>1 DEF Fresh

\* The prefix of a user is one of the prefixes, never none.
LEMMA PrefixIs ==
    ASSUME NEW c \in User, ~(Draws \subseteq InUse)
    PROVE  ResolveInboxPrefix(c) \in Prefixes \ {None}
BY FreshIs, ConstantsAssumption DEF ResolveInboxPrefix, Prefixes, User

\* An update keeps key and owner and settles the prefix.
LEMMA UpdatedSecretIs ==
    ASSUME NEW s \in Secret, NEW c \in User, ~(Draws \subseteq InUse)
    PROVE  /\ UpdatedSecret(s, c) \in Secret
           /\ UpdatedSecret(s, c).key = s.key
           /\ UpdatedSecret(s, c).owner = s.owner
           /\ (UpdatedSecret(s, c).prefix = None) = c.insecure
<1>1. ResolveInboxPrefix(c) \in Prefixes \ {None}
  BY PrefixIs
<1>2. c.insecure \in BOOLEAN
  BY DEF User
<1> QED
  BY <1>1, <1>2 DEF UpdatedSecret, Secret, Prefixes

\* A new Secret has a key and belongs to the user.
LEMMA NewSecretIs ==
    ASSUME NEW c \in User, ~(Draws \subseteq InUse)
    PROVE  /\ NewSecret(c) \in Secret
           /\ NewSecret(c).key # None
           /\ NewSecret(c).owner = c.uid
           /\ (NewSecret(c).prefix = None) = c.insecure
<1>1. ResolveInboxPrefix(c) \in Prefixes \ {None}
  BY PrefixIs
<1>2. c.insecure \in BOOLEAN /\ c.uid \in Nat
  BY DEF User
<1>3. Fresh \in Draws /\ Fresh # None
  BY FreshIs, ConstantsAssumption
<1> QED
  BY <1>1, <1>2, <1>3 DEF NewSecret, Secret, Prefixes, Keys

\* Old keys are keys.
LEMMA OldKeysIs == OldKeys \in [Users -> Draws]
BY DrawsAssumption DEF OldKeys

\* The write of a condition leaves the cache and the uids alone; it changes the
\* copy, and either the object follows or the reconcile comes back.
LEMMA SetUserConditionIs ==
    ASSUME TypeOK, NEW u \in Users, NEW r \in Reasons, SetUserCondition(u, r)
    PROVE  LET c == [copy[u] EXCEPT !.ready = r] IN
           /\ c \in User
           /\ copy' = [copy EXCEPT ![u] = c]
           /\ copyFresh' \in [Users -> BOOLEAN]
           /\ \A v \in Users : v # u => copyFresh'[v] = copyFresh[v]
           /\ cached' = cached /\ incarnations' = incarnations
           /\ statusUpdateFailed' \in BOOLEAN /\ faults' \in 0..MaxFaults
           /\ statusUpdateFailed => statusUpdateFailed'
           /\ \/ user' = user /\ cacheFresh' = cacheFresh /\ statusUpdateFailed'
              \/ /\ copyFresh[u] /\ user' = [user EXCEPT ![u] = c]
                 /\ cacheFresh' = [cacheFresh EXCEPT ![u] = @ /\ c = user[u]]
<1> DEFINE c == [copy[u] EXCEPT !.ready = r]
<1>1. c \in User
  <2>1. copy[u] \in User
    BY DEF TypeOK
  <2> QED
    BY <2>1 DEF User
<1>2. [copy EXCEPT ![u].ready = r] = [copy EXCEPT ![u] = c]
  BY DEF TypeOK
<1>3. CASE /\ WriteUser(u, c)
           /\ UNCHANGED <<statusUpdateFailed, faults>>
  BY <1>1, <1>3 DEF TypeOK, WriteUser, StoreUser
<1>4. CASE /\ ~copyFresh[u]
           /\ statusUpdateFailed' = TRUE
           /\ copy' = [copy EXCEPT ![u].ready = r]
           /\ UNCHANGED <<objVars, copyFresh, faults>>
  BY <1>1, <1>2, <1>4 DEF TypeOK, objVars
<1>5. CASE /\ Fault /\ statusUpdateFailed' = TRUE
           /\ copy' = [copy EXCEPT ![u].ready = r]
           /\ UNCHANGED <<objVars, copyFresh>>
  BY <1>1, <1>2, <1>5, ConstantsAssumption DEF TypeOK, objVars, Fault
<1>6. CASE /\ Fault /\ statusUpdateFailed' = TRUE
           /\ copy' = [copy EXCEPT ![u].ready = r]
           /\ StoreUser(u, c)
           /\ copyFresh' = [copyFresh EXCEPT ![u] = c = user[u]]
  <2>1. copyFresh' \in [Users -> BOOLEAN]
    BY <1>6 DEF TypeOK
  <2> QED
    BY <1>1, <1>2, <1>6, <2>1, ConstantsAssumption DEF TypeOK, StoreUser, Fault
<1> QED
  BY <1>3, <1>4, <1>5, <1>6 DEF SetUserCondition

\* Bounds are respected.
LEMMA FaultIs == ASSUME TypeOK, Fault PROVE faults' \in 0..MaxFaults
BY ConstantsAssumption DEF TypeOK, Fault

\* Edits and deletions are bounded as well.
LEMMA UpsetIs == ASSUME TypeOK, Upset PROVE upsets' \in 0..MaxUpsets
BY ConstantsAssumption DEF TypeOK, Upset

\* A write of a condition keeps the types.
LEMMA SetUserConditionTypes ==
    ASSUME TypeOK, NEW u \in Users, NEW r \in Reasons, SetUserCondition(u, r)
    PROVE  /\ copy' \in [Users -> User] /\ copyFresh' \in [Users -> BOOLEAN]
           /\ user' \in [Users -> User] /\ cacheFresh' \in [Users -> BOOLEAN]
           /\ cached' \in [Users -> User] /\ incarnations' \in [Users -> Nat]
           /\ statusUpdateFailed' \in BOOLEAN /\ faults' \in 0..MaxFaults
<1> DEFINE c == [copy[u] EXCEPT !.ready = r]
<1>1. /\ c \in User /\ copy' = [copy EXCEPT ![u] = c]
      /\ copyFresh' \in [Users -> BOOLEAN]
      /\ cached' = cached /\ incarnations' = incarnations
      /\ statusUpdateFailed' \in BOOLEAN /\ faults' \in 0..MaxFaults
      /\ \/ user' = user /\ cacheFresh' = cacheFresh
         \/ /\ user' = [user EXCEPT ![u] = c]
            /\ cacheFresh' = [cacheFresh EXCEPT ![u] = @ /\ c = user[u]]
  BY SetUserConditionIs
<1> HIDE DEF c
<1>2. user' \in [Users -> User]
  BY <1>1 DEF TypeOK
<1>3. cacheFresh' \in [Users -> BOOLEAN]
  BY <1>1 DEF TypeOK
<1>4. /\ copy' \in [Users -> User]
      /\ cached' \in [Users -> User] /\ incarnations' \in [Users -> Nat]
  BY <1>1 DEF TypeOK
<1> QED
  BY <1>1, <1>2, <1>3, <1>4

\* The local variables are reset.
LEMMA EndReconcileTypes ==
    ASSUME EndReconcile
    PROVE  /\ copy' \in [Users -> User] /\ copyFresh' \in [Users -> BOOLEAN]
           /\ held' \in Secret /\ heldFresh' \in BOOLEAN
           /\ entries' \in [Users -> Entry]
           /\ pc' = "idle" /\ todo' \subseteq Users /\ cur' \in Users \cup {None}
           /\ statusUpdateFailed' \in BOOLEAN
BY NoTypes DEF EndReconcile

-----------------------------------------------------------------------------
(* Types.                                                                  *)

\* Every step keeps the types, and the user in work on the list.
LEMMA TypeStep == TypeOK /\ CurInv /\ [Next]_vars => TypeOK' /\ CurInv'
<1> SUFFICES ASSUME TypeOK, CurInv, [Next]_vars PROVE TypeOK' /\ CurInv'
  OBVIOUS
<1> USE DEF TypeOK, CurInv, InWork, objVars, queueVars, localVars
<1>1. CASE ListUsers
  BY <1>1, EndReconcileTypes, FaultIs DEF ListUsers
<1>2. CASE \E u \in Users : EvaluateRules(u)
  <2>1. PICK u \in Users : EvaluateRules(u)
    BY <1>2
  <2>2. CASE /\ permitted[u]
             /\ pc' = "get" /\ cur' = u
             /\ UNCHANGED <<objVars, todo, copy, copyFresh, held, heldFresh, entries,
                            statusUpdateFailed, faults>>
    BY <2>1, <2>2 DEF EvaluateRules
  <2>3. CASE \E r \in Reasons : SetUserCondition(u, r) /\ NextUser(u, NoEntry)
    <3>1. /\ copy' \in [Users -> User] /\ copyFresh' \in [Users -> BOOLEAN]
          /\ user' \in [Users -> User] /\ cacheFresh' \in [Users -> BOOLEAN]
          /\ cached' \in [Users -> User] /\ incarnations' \in [Users -> Nat]
          /\ statusUpdateFailed' \in BOOLEAN /\ faults' \in 0..MaxFaults
      BY <2>3, SetUserConditionTypes
    <3>2. /\ pc' = "users" /\ todo' \subseteq Users /\ cur' = None
          /\ entries' \in [Users -> Entry] /\ held' \in Secret /\ heldFresh' \in BOOLEAN
      BY <2>3, NoTypes DEF NextUser
    <3>3. UNCHANGED <<permitted, secret, config, queueVars, upsets>>
      BY <2>1 DEF EvaluateRules
    <3> QED
      BY <3>1, <3>2, <3>3
  <2> QED
    BY <2>1, <2>2, <2>3 DEF EvaluateRules, Reasons
<1>3. CASE GetSecret
  <2>1. CASE Fault /\ Abort /\ UNCHANGED objVars
    BY <1>3, <2>1, EndReconcileTypes, FaultIs DEF GetSecret, Abort
  <2>2. CASE /\ held' = secret[cur] /\ heldFresh' = TRUE
             /\ pc' \in {"create", "update", "key"}
             /\ UNCHANGED <<permitted, objVars, config, queueVars, todo, cur,
                            copy, copyFresh, entries, statusUpdateFailed, upsets, faults>>
    BY <1>3, <2>2 DEF GetSecret
  <2> QED
    BY <1>3, <2>1, <2>2 DEF GetSecret
<1>4. CASE UpdateSecret
  <2>1. held \in Secret /\ copy[cur] \in User /\ cur \in Users
    BY <1>4 DEF UpdateSecret
  <2> DEFINE t == UpdatedSecret(held, copy[cur])
  <2>2. ~(Draws \subseteq InUse) => t \in Secret
    BY <2>1, UpdatedSecretIs
  <2> HIDE DEF t
  <2>3. CASE Abort /\ (UNCHANGED secret \/ StoreSecret(cur, t))
    BY <1>4, <2>1, <2>2, <2>3, EndReconcileTypes, FaultIs
    DEF UpdateSecret, StoreSecret, Abort
  <2>4. CASE /\ StoreSecret(cur, t)
             /\ held' = t /\ pc' = "key"
             /\ UNCHANGED <<permitted, objVars, config, queueVars, todo, cur, copy, copyFresh,
                            heldFresh, entries, statusUpdateFailed, upsets, faults>>
    BY <1>4, <2>1, <2>2, <2>4 DEF UpdateSecret, StoreSecret
  <2> QED
    BY <1>4, <2>3, <2>4 DEF UpdateSecret, t
<1>5. CASE CreateSecret
  <2>1. copy[cur] \in User /\ cur \in Users
    BY <1>5 DEF CreateSecret
  <2> DEFINE t == NewSecret(copy[cur])
  <2>2. ~(Draws \subseteq InUse) => t \in Secret
    BY <2>1, NewSecretIs
  <2> HIDE DEF t
  <2>3. CASE Abort /\ (UNCHANGED secret \/ StoreSecret(cur, t))
    BY <1>5, <2>1, <2>2, <2>3, EndReconcileTypes, FaultIs
    DEF CreateSecret, StoreSecret, Abort
  <2>4. CASE /\ StoreSecret(cur, t)
             /\ held' = t /\ heldFresh' = TRUE /\ pc' = "key"
             /\ UNCHANGED <<permitted, objVars, config, queueVars, todo, cur, copy, copyFresh,
                            entries, statusUpdateFailed, upsets, faults>>
    BY <1>5, <2>1, <2>2, <2>4 DEF CreateSecret, StoreSecret
  <2> QED
    BY <1>5, <2>3, <2>4 DEF CreateSecret, t
<1>6. CASE RecordKey
  <2>1. cur \in Users /\ copy[cur] \in User /\ held.key \in Keys
    BY <1>6 DEF RecordKey, Secret
  <2> DEFINE c == [copy[cur] EXCEPT !.nkeyPublicKey = held.key]
  <2>2. c \in User
    BY <2>1 DEF User
  <2> HIDE DEF c
  <2>3. CASE Abort /\ (UNCHANGED objVars \/ StoreUser(cur, c))
    <3>1. faults' \in 0..MaxFaults
      BY <1>6, FaultIs DEF RecordKey
    <3>2. /\ user' \in [Users -> User] /\ cacheFresh' \in [Users -> BOOLEAN]
          /\ cached' = cached /\ incarnations' = incarnations
      <4>1. CASE UNCHANGED objVars
        BY <4>1
      <4>2. CASE StoreUser(cur, c)
        BY <2>1, <2>2, <4>2 DEF StoreUser
      <4> QED
        BY <2>3, <4>1, <4>2
    <3> QED
      BY <1>6, <2>3, <3>1, <3>2, EndReconcileTypes DEF RecordKey, Abort
  <2>4. CASE /\ WriteUser(cur, c)
             /\ pc' = "ready"
             /\ UNCHANGED <<permitted, config, queueVars, todo, cur, held, heldFresh,
                            entries, statusUpdateFailed, upsets, faults>>
    BY <1>6, <2>1, <2>2, <2>4 DEF RecordKey, WriteUser, StoreUser
  <2>5. CASE /\ pc' = "ready"
             /\ UNCHANGED <<permitted, objVars, config, queueVars, localVars, upsets, faults>>
    BY <1>6, <2>5 DEF RecordKey
  <2> QED
    BY <1>6, <2>3, <2>4, <2>5 DEF RecordKey, c
<1>7. CASE SetReady
  <2>1. cur \in Users /\ [key |-> held.key, prefix |-> held.prefix] \in Entry
    BY <1>7 DEF SetReady, Secret, Entry
  <2> QED
    BY <1>7, <2>1, SetUserConditionTypes, NoTypes DEF SetReady, NextUser, Reasons
<1>8. CASE Publish
  BY <1>8, EndReconcileTypes, FaultIs DEF Publish
<1>9. CASE \E u \in Users : UserEvent(u)
  BY <1>9 DEF UserEvent
<1>10. CASE ConfigMapEvent
  BY <1>10 DEF ConfigMapEvent
<1>11. CASE TimerFires
  BY <1>11 DEF TimerFires
<1>12. CASE OtherEvent
  BY <1>12 DEF OtherEvent
<1>13. CASE RestartOperator
  BY <1>13, EndReconcileTypes, FaultIs DEF RestartOperator
<1>14. CASE \E u \in Users, o \in Overrides \cup {None}, i \in BOOLEAN : CreateUser(u, o, i)
  <2>1. PICK u \in Users, o \in Overrides \cup {None}, i \in BOOLEAN : CreateUser(u, o, i)
    BY <1>14
  <2>2. incarnations[u] + 1 \in Nat
    OBVIOUS
  <2>3. [NoUser EXCEPT !.uid = incarnations[u] + 1,
                       !.inboxPrefix = o, !.insecure = i] \in User
    BY <2>2 DEF NoUser, User, Keys, Reasons
  <2> QED
    BY <2>1, <2>2, <2>3, UpsetIs DEF CreateUser, ChangeUser
<1>15. CASE \E u \in Users, o \in Overrides \cup {None}, i \in BOOLEAN : EditUser(u, o, i)
  <2>1. PICK u \in Users, o \in Overrides \cup {None}, i \in BOOLEAN : EditUser(u, o, i)
    BY <1>15
  <2>2. user[u] \in User
    OBVIOUS
  <2>3. [user[u] EXCEPT !.inboxPrefix = o, !.insecure = i] \in User
    BY <2>2 DEF User
  <2> QED
    BY <2>1, <2>3, UpsetIs DEF EditUser, ChangeUser
<1>16. CASE \E u \in Users : DeleteUser(u)
  BY <1>16, NoTypes, UpsetIs DEF DeleteUser, ChangeUser
<1>17. CASE \E u \in Users : ChangePermission(u)
  <2>1. permitted' \in [Users -> BOOLEAN] /\ upsets' \in 0..MaxUpsets
    BY <1>17, UpsetIs DEF ChangePermission
  <2>2. queued' \in BOOLEAN
    BY <1>17 DEF ChangePermission
  <2> QED
    BY <1>17, <2>1, <2>2 DEF ChangePermission
<1>18. CASE \E u \in Users : CollectSecret(u)
  BY <1>18, NoTypes DEF CollectSecret, DropSecret
<1>19. CASE \E u \in Users : DeleteSecret(u)
  BY <1>19, NoTypes, UpsetIs DEF DeleteSecret, DropSecret
<1>20. CASE UNCHANGED vars
  BY <1>20 DEF vars
<1> QED
  BY <1>1, <1>2, <1>3, <1>4, <1>5, <1>6, <1>7, <1>8, <1>9, <1>10, <1>11, <1>12, <1>13, <1>14, <1>15, <1>16, <1>17, <1>18, <1>19, <1>20 DEF Next, Worker, UserStep

\* The initial states are of their types.
LEMMA TypeInit == Init => TypeOK /\ CurInv
<1> SUFFICES ASSUME Init PROVE TypeOK /\ CurInv
  OBVIOUS
<1>1. \A u \in Users : /\ [NoUser EXCEPT !.uid = 1, !.nkeyPublicKey = OldKeys[u],
                                         !.ready = "Reconciled"] \in User
                      /\ [NoSecret EXCEPT !.key = OldKeys[u], !.owner = 1] \in Secret
                      /\ [NoEntry EXCEPT !.key = OldKeys[u]] \in Entry
  BY OldKeysIs, NoTypes DEF User, Secret, Entry, Keys, Reasons
<1>2. PICK old \in SUBSET Users :
          /\ user = [u \in Users |-> IF u \in old
                        THEN [NoUser EXCEPT !.uid = 1, !.nkeyPublicKey = OldKeys[u],
                                            !.ready = "Reconciled"]
                        ELSE NoUser]
          /\ secret = [u \in Users |-> IF u \in old
                          THEN [NoSecret EXCEPT !.key = OldKeys[u], !.owner = 1]
                          ELSE NoSecret]
          /\ config = [u \in Users |-> IF u \in old
                          THEN [NoEntry EXCEPT !.key = OldKeys[u]] ELSE NoEntry]
          /\ incarnations = [u \in Users |-> IF u \in old THEN 1 ELSE 0]
  BY DEF Init
<1>3. /\ user \in [Users -> User] /\ secret \in [Users -> Secret]
      /\ config \in [Users -> Entry] /\ incarnations \in [Users -> Nat]
  BY <1>1, <1>2, NoTypes
<1>4. upsets = 0 /\ faults = 0
  BY DEF Init
<1>5. upsets \in 0..MaxUpsets /\ faults \in 0..MaxFaults
  BY <1>4, ConstantsAssumption
<1> QED
  BY <1>3, <1>5, NoTypes DEF Init, TypeOK, CurInv, InWork

\* Objects, copies and local variables stay within their types, in every
\* environment.
THEOREM TypeCorrect == Spec => []TypeOK
<1>1. Init => TypeOK /\ CurInv
  BY TypeInit
<1>2. TypeOK /\ CurInv /\ [Next]_vars => (TypeOK /\ CurInv)'
  BY TypeStep
<1> QED
  BY <1>1, <1>2, PTL DEF Spec


-----------------------------------------------------------------------------
(* The status tells the truth, in every environment.                       *)

\* What the write of a condition does to every user and its copies.
LEMMA ConditionEffect ==
    ASSUME TypeOK, NEW u \in Users, NEW r \in Reasons, SetUserCondition(u, r)
    PROVE  /\ \A v \in Users : v # u =>
                  /\ copy'[v] = copy[v] /\ copyFresh'[v] = copyFresh[v]
                  /\ user'[v] = user[v] /\ cacheFresh'[v] = cacheFresh[v]
           /\ \A v \in Users : copy'[v].uid = copy[v].uid
           /\ cached' = cached /\ incarnations' = incarnations
           /\ cacheFresh'[u] => cacheFresh[u] /\ user'[u] = user[u]
           /\ \/ user'[u] = user[u]
              \/ copyFresh[u] /\ user'[u] = [copy[u] EXCEPT !.ready = r]
           /\ \/ statusUpdateFailed'
              \/ copyFresh[u] /\ user'[u] = [copy[u] EXCEPT !.ready = r]
           /\ statusUpdateFailed => statusUpdateFailed'
<1> DEFINE c == [copy[u] EXCEPT !.ready = r]
<1>1. /\ c \in User /\ copy' = [copy EXCEPT ![u] = c]
      /\ \A v \in Users : v # u => copyFresh'[v] = copyFresh[v]
      /\ cached' = cached /\ incarnations' = incarnations
      /\ statusUpdateFailed => statusUpdateFailed'
      /\ \/ user' = user /\ cacheFresh' = cacheFresh /\ statusUpdateFailed'
         \/ /\ copyFresh[u] /\ user' = [user EXCEPT ![u] = c]
            /\ cacheFresh' = [cacheFresh EXCEPT ![u] = @ /\ c = user[u]]
  BY SetUserConditionIs
<1>2. c.uid = copy[u].uid
  BY DEF TypeOK, User
<1> HIDE DEF c
<1>3. /\ \A v \in Users : v # u =>
            copy'[v] = copy[v] /\ user'[v] = user[v] /\ cacheFresh'[v] = cacheFresh[v]
      /\ \A v \in Users : copy'[v].uid = copy[v].uid
      /\ cacheFresh'[u] => cacheFresh[u] /\ user'[u] = user[u]
      /\ user'[u] = user[u] \/ (copyFresh[u] /\ user'[u] = c)
      /\ statusUpdateFailed' \/ (copyFresh[u] /\ user'[u] = c)
  BY <1>1, <1>2 DEF TypeOK
<1> QED
  BY <1>1, <1>3 DEF c

\* Copies marked current stay current.
LEMMA FreshStep == TypeOK /\ CurInv /\ FreshInv /\ [Next]_vars => FreshInv'
<1> SUFFICES ASSUME TypeOK, CurInv, FreshInv, [Next]_vars, NEW v \in Users
             PROVE  /\ cacheFresh'[v] => cached'[v] = user'[v]
                    /\ v \in todo' /\ copyFresh'[v] => copy'[v] = user'[v]
  BY DEF FreshInv
<1> USE DEF TypeOK, FreshInv, objVars, queueVars, localVars
<1>1. CASE ListUsers
  BY <1>1 DEF ListUsers, EndReconcile
<1>2. CASE \E u \in Users : EvaluateRules(u)
  <2>1. PICK u \in Users : EvaluateRules(u)
    BY <1>2
  <2>2. CASE pc' = "get" /\ UNCHANGED <<objVars, todo, copy, copyFresh, held, entries>>
    BY <2>1, <2>2 DEF EvaluateRules
  <2>3. CASE \E r \in Reasons : SetUserCondition(u, r) /\ NextUser(u, NoEntry)
    <3>1. /\ \A w \in Users : w # u =>
                  /\ copy'[w] = copy[w] /\ copyFresh'[w] = copyFresh[w]
                  /\ user'[w] = user[w] /\ cacheFresh'[w] = cacheFresh[w]
          /\ cached' = cached
          /\ cacheFresh'[u] => cacheFresh[u] /\ user'[u] = user[u]
      BY <2>3, ConditionEffect
    <3>2. todo' = todo \ {u}
      BY <2>3 DEF NextUser
    <3> QED
      BY <3>1, <3>2
  <2> QED
    BY <2>1, <2>2, <2>3 DEF EvaluateRules, Reasons
<1>3. CASE GetSecret
  BY <1>3 DEF GetSecret, Abort, EndReconcile
<1>4. CASE UpdateSecret
  BY <1>4 DEF UpdateSecret, Abort, EndReconcile
<1>5. CASE CreateSecret
  BY <1>5 DEF CreateSecret, Abort, EndReconcile
<1>6. CASE RecordKey
  <2>1. cur \in Users /\ cur \in todo /\ copy[cur] \in User
    BY <1>6 DEF RecordKey, CurInv, InWork
  <2> DEFINE c == [copy[cur] EXCEPT !.nkeyPublicKey = held.key]
  <2>2. c.uid = copy[cur].uid /\ c.nkeyPublicKey = held.key
    BY <2>1 DEF User
  <2> HIDE DEF c
  <2>3. CASE Abort /\ (UNCHANGED objVars \/ StoreUser(cur, c))
    BY <2>1, <2>3 DEF StoreUser, Abort, EndReconcile
  <2>4. CASE pc' = "ready" /\ UNCHANGED <<todo, cur, held, entries>> /\ WriteUser(cur, c)
    BY <2>1, <2>2, <2>4 DEF WriteUser, StoreUser
  <2>5. CASE /\ copy[cur].nkeyPublicKey = held.key /\ pc' = "ready"
             /\ UNCHANGED <<objVars, localVars>>
    BY <2>5
  <2> QED
    BY <1>6, <2>3, <2>4, <2>5 DEF RecordKey, c
<1>7. CASE SetReady
  <2>1. cur \in Users
    BY <1>7 DEF SetReady, CurInv, InWork
  <2>2. /\ \A w \in Users : w # cur =>
                /\ copy'[w] = copy[w] /\ copyFresh'[w] = copyFresh[w]
                /\ user'[w] = user[w] /\ cacheFresh'[w] = cacheFresh[w]
        /\ cached' = cached
        /\ cacheFresh'[cur] => cacheFresh[cur] /\ user'[cur] = user[cur]
    BY <1>7, <2>1, ConditionEffect DEF SetReady, Reasons
  <2>3. todo' = todo \ {cur}
    BY <1>7 DEF SetReady, NextUser
  <2> QED
    BY <2>1, <2>2, <2>3
<1>8. CASE Publish
  BY <1>8 DEF Publish, EndReconcile
<1>9. CASE \E u \in Users : UserEvent(u)
  BY <1>9 DEF UserEvent
<1>10. CASE ConfigMapEvent
  BY <1>10 DEF ConfigMapEvent
<1>11. CASE TimerFires
  BY <1>11 DEF TimerFires
<1>12. CASE OtherEvent
  BY <1>12 DEF OtherEvent
<1>13. CASE RestartOperator
  BY <1>13 DEF RestartOperator, EndReconcile
<1>14. CASE \E u \in Users, o \in Overrides \cup {None}, i \in BOOLEAN : CreateUser(u, o, i)
  BY <1>14 DEF CreateUser, ChangeUser
<1>15. CASE \E u \in Users, o \in Overrides \cup {None}, i \in BOOLEAN : EditUser(u, o, i)
  BY <1>15 DEF EditUser, ChangeUser
<1>16. CASE \E u \in Users : DeleteUser(u)
  BY <1>16 DEF DeleteUser, ChangeUser
<1>17. CASE \E u \in Users : ChangePermission(u)
  BY <1>17 DEF ChangePermission
<1>18. CASE \E u \in Users : CollectSecret(u)
  BY <1>18 DEF CollectSecret, DropSecret
<1>19. CASE \E u \in Users : DeleteSecret(u)
  BY <1>19 DEF DeleteSecret, DropSecret
<1>20. CASE UNCHANGED vars
  BY <1>20 DEF vars
<1> QED
  BY <1>1, <1>2, <1>3, <1>4, <1>5, <1>6, <1>7, <1>8, <1>9, <1>10, <1>11, <1>12, <1>13, <1>14, <1>15, <1>16, <1>17, <1>18, <1>19, <1>20 DEF Next, Worker, UserStep

\* No Secret loses its key.
LEMMA KeyedStep == TypeOK /\ CurInv /\ KeyedInv /\ [Next]_vars => KeyedInv'
<1> SUFFICES ASSUME TypeOK, CurInv, KeyedInv, [Next]_vars PROVE KeyedInv'
  OBVIOUS
<1> USE DEF TypeOK, KeyedInv, HasHeld, objVars, queueVars, localVars
<1>1. CASE ListUsers
  BY <1>1 DEF ListUsers, EndReconcile
<1>2. CASE \E u \in Users : EvaluateRules(u)
  BY <1>2 DEF EvaluateRules, NextUser
<1>3. CASE GetSecret
  BY <1>3 DEF GetSecret, SecretFound, Abort, EndReconcile, CurInv, InWork
<1>4. CASE UpdateSecret
  <2>1. held \in Secret /\ copy[cur] \in User /\ cur \in Users
    BY <1>4 DEF UpdateSecret, CurInv, InWork
  <2>2. ~(Draws \subseteq InUse) => UpdatedSecret(held, copy[cur]).key = held.key
    BY <2>1, UpdatedSecretIs
  <2> QED
    BY <1>4, <2>1, <2>2 DEF UpdateSecret, StoreSecret, Abort, EndReconcile
<1>5. CASE CreateSecret
  <2>1. copy[cur] \in User /\ cur \in Users
    BY <1>5 DEF CreateSecret, CurInv, InWork
  <2>2. ~(Draws \subseteq InUse) => NewSecret(copy[cur]).key # None
    BY <2>1, NewSecretIs
  <2> QED
    BY <1>5, <2>1, <2>2 DEF CreateSecret, StoreSecret, Abort, EndReconcile
<1>6. CASE RecordKey
  BY <1>6 DEF RecordKey, Abort, EndReconcile
<1>7. CASE SetReady
  BY <1>7 DEF SetReady, NextUser
<1>8. CASE Publish
  BY <1>8 DEF Publish, EndReconcile
<1>9. CASE \E u \in Users : UserEvent(u)
  BY <1>9 DEF UserEvent
<1>10. CASE ConfigMapEvent
  BY <1>10 DEF ConfigMapEvent
<1>11. CASE TimerFires
  BY <1>11 DEF TimerFires
<1>12. CASE OtherEvent
  BY <1>12 DEF OtherEvent
<1>13. CASE RestartOperator
  BY <1>13 DEF RestartOperator, EndReconcile
<1>14. CASE \E u \in Users, o \in Overrides \cup {None}, i \in BOOLEAN : CreateUser(u, o, i)
  BY <1>14 DEF CreateUser, ChangeUser
<1>15. CASE \E u \in Users, o \in Overrides \cup {None}, i \in BOOLEAN : EditUser(u, o, i)
  BY <1>15 DEF EditUser, ChangeUser
<1>16. CASE \E u \in Users : DeleteUser(u)
  BY <1>16 DEF DeleteUser, ChangeUser
<1>17. CASE \E u \in Users : ChangePermission(u)
  BY <1>17 DEF ChangePermission
<1>18. CASE \E u \in Users : CollectSecret(u)
  BY <1>18 DEF CollectSecret, DropSecret
<1>19. CASE \E u \in Users : DeleteSecret(u)
  BY <1>19 DEF DeleteSecret, DropSecret
<1>20. CASE UNCHANGED vars
  BY <1>20 DEF vars
<1> QED
  BY <1>1, <1>2, <1>3, <1>4, <1>5, <1>6, <1>7, <1>8, <1>9, <1>10, <1>11, <1>12, <1>13, <1>14, <1>15, <1>16, <1>17, <1>18, <1>19, <1>20 DEF Next, Worker, UserStep

\* Users of the list exist in it, and the key is recorded before Ready.
LEMMA LoopStep == TypeOK /\ CurInv /\ LoopInv /\ [Next]_vars => LoopInv'
<1> SUFFICES ASSUME TypeOK, CurInv, LoopInv, [Next]_vars PROVE LoopInv'
  OBVIOUS
<1> USE DEF TypeOK, LoopInv, objVars, queueVars, localVars
<1>1. CASE ListUsers
  BY <1>1 DEF ListUsers, EndReconcile
<1>2. CASE \E u \in Users : EvaluateRules(u)
  <2>1. PICK u \in Users : EvaluateRules(u)
    BY <1>2
  <2>2. CASE pc' = "get" /\ UNCHANGED <<objVars, todo, copy, copyFresh, held, entries>>
    BY <2>1, <2>2 DEF EvaluateRules
  <2>3. CASE \E r \in Reasons : SetUserCondition(u, r) /\ NextUser(u, NoEntry)
    BY <2>1, <2>3, ConditionEffect DEF EvaluateRules, NextUser
  <2> QED
    BY <2>1, <2>2, <2>3 DEF EvaluateRules, Reasons
<1>3. CASE GetSecret
  BY <1>3 DEF GetSecret, Abort, EndReconcile
<1>4. CASE UpdateSecret
  BY <1>4 DEF UpdateSecret, Abort, EndReconcile
<1>5. CASE CreateSecret
  BY <1>5 DEF CreateSecret, Abort, EndReconcile
<1>6. CASE RecordKey
  <2>1. cur \in Users /\ cur \in todo /\ copy[cur] \in User
    BY <1>6 DEF RecordKey, CurInv, InWork
  <2> DEFINE c == [copy[cur] EXCEPT !.nkeyPublicKey = held.key]
  <2>2. c.uid = copy[cur].uid /\ c.nkeyPublicKey = held.key
    BY <2>1 DEF User
  <2> HIDE DEF c
  <2>3. CASE Abort /\ (UNCHANGED objVars \/ StoreUser(cur, c))
    BY <2>1, <2>3 DEF StoreUser, Abort, EndReconcile
  <2>4. CASE pc' = "ready" /\ UNCHANGED <<todo, cur, held, entries>> /\ WriteUser(cur, c)
    BY <2>1, <2>2, <2>4 DEF WriteUser, StoreUser
  <2>5. CASE /\ copy[cur].nkeyPublicKey = held.key /\ pc' = "ready"
             /\ UNCHANGED <<objVars, localVars>>
    BY <2>5
  <2> QED
    BY <1>6, <2>3, <2>4, <2>5 DEF RecordKey, c
<1>7. CASE SetReady
  <2>1. cur \in Users
    BY <1>7 DEF SetReady, CurInv, InWork
  <2> QED
    BY <1>7, <2>1, ConditionEffect DEF SetReady, NextUser, Reasons
<1>8. CASE Publish
  BY <1>8 DEF Publish, EndReconcile
<1>9. CASE \E u \in Users : UserEvent(u)
  BY <1>9 DEF UserEvent
<1>10. CASE ConfigMapEvent
  BY <1>10 DEF ConfigMapEvent
<1>11. CASE TimerFires
  BY <1>11 DEF TimerFires
<1>12. CASE OtherEvent
  BY <1>12 DEF OtherEvent
<1>13. CASE RestartOperator
  BY <1>13 DEF RestartOperator, EndReconcile
<1>14. CASE \E u \in Users, o \in Overrides \cup {None}, i \in BOOLEAN : CreateUser(u, o, i)
  BY <1>14 DEF CreateUser, ChangeUser
<1>15. CASE \E u \in Users, o \in Overrides \cup {None}, i \in BOOLEAN : EditUser(u, o, i)
  BY <1>15 DEF EditUser, ChangeUser
<1>16. CASE \E u \in Users : DeleteUser(u)
  BY <1>16 DEF DeleteUser, ChangeUser
<1>17. CASE \E u \in Users : ChangePermission(u)
  BY <1>17 DEF ChangePermission
<1>18. CASE \E u \in Users : CollectSecret(u)
  BY <1>18 DEF CollectSecret, DropSecret
<1>19. CASE \E u \in Users : DeleteSecret(u)
  BY <1>19 DEF DeleteSecret, DropSecret
<1>20. CASE UNCHANGED vars
  BY <1>20 DEF vars
<1> QED
  BY <1>1, <1>2, <1>3, <1>4, <1>5, <1>6, <1>7, <1>8, <1>9, <1>10, <1>11, <1>12, <1>13, <1>14, <1>15, <1>16, <1>17, <1>18, <1>19, <1>20 DEF Next, Worker, UserStep


\* Edits and events lead to another reconcile.
LEMMA DueRaised ==
    ASSUME TypeOK,
           \/ \E u \in Users : UserEvent(u) \/ DeleteUser(u)
           \/ \E u \in Users, o \in Overrides \cup {None}, i \in BOOLEAN :
                 CreateUser(u, o, i) \/ EditUser(u, o, i)
           \/ ConfigMapEvent \/ TimerFires \/ OtherEvent \/ RestartOperator
    PROVE  Due'
<1>1. CASE ConfigMapEvent \/ TimerFires \/ OtherEvent \/ RestartOperator
  BY <1>1 DEF ConfigMapEvent, TimerFires, OtherEvent, RestartOperator, Due
<1>2. CASE \E u \in Users : UserEvent(u)
  BY <1>2 DEF UserEvent, Due
<1>3. ASSUME NEW u \in Users, NEW c, ChangeUser(u, c) PROVE Due'
  BY <1>3 DEF ChangeUser, Due, TypeOK
<1> QED
  BY <1>1, <1>2, <1>3 DEF CreateUser, EditUser, DeleteUser

\* A reconcile that is due stays due until it starts.
LEMMA DueStays ==
    ASSUME TypeOK, CurInv, [Next]_vars, Due, ~ListUsers
    PROVE  Due'
<1> USE DEF TypeOK, Due, objVars, queueVars, localVars
<1>1. CASE \E u \in Users : EvaluateRules(u)
  <2>1. PICK u \in Users : EvaluateRules(u)
    BY <1>1
  <2>2. CASE UNCHANGED objVars
    BY <2>1, <2>2 DEF EvaluateRules
  <2>3. CASE \E r \in Reasons : SetUserCondition(u, r)
    BY <2>1, <2>3, ConditionEffect DEF EvaluateRules
  <2> QED
    BY <2>1, <2>2, <2>3 DEF EvaluateRules, Reasons
<1>2. CASE GetSecret \/ UpdateSecret \/ CreateSecret
  BY <1>2 DEF GetSecret, UpdateSecret, CreateSecret, Abort
<1>3. CASE RecordKey
  <2>1. cur \in Users
    BY <1>3 DEF RecordKey, CurInv, InWork
  <2> QED
    BY <1>3, <2>1 DEF RecordKey, WriteUser, StoreUser, Abort
<1>4. CASE SetReady
  <2>1. cur \in Users
    BY <1>4 DEF SetReady, CurInv, InWork
  <2> QED
    BY <1>4, <2>1, ConditionEffect DEF SetReady, Reasons
<1>5. CASE Publish
  BY <1>5 DEF Publish
<1>6. CASE \E u \in Users : ChangePermission(u) \/ CollectSecret(u) \/ DeleteSecret(u)
  BY <1>6 DEF ChangePermission, CollectSecret, DeleteSecret, DropSecret
<1>7. CASE UNCHANGED vars
  BY <1>7 DEF vars
<1> QED
  BY <1>1, <1>2, <1>3, <1>4, <1>5, <1>6, <1>7, DueRaised DEF Next, Worker, UserStep

\* The status of a user that leaves the loop is true of its entry, unless the
\* reconcile comes back.
LEMMA TruthStep == StatusInv /\ [Next]_vars => TruthInv'
<1> SUFFICES ASSUME StatusInv, [Next]_vars, ~Due' PROVE TruthInv'
  BY DEF TruthInv
<1> USE DEF TypeOK, objVars, queueVars, localVars
<1>1. TypeOK /\ CurInv /\ FreshInv /\ KeyedInv /\ LoopInv /\ TruthInv
  BY DEF StatusInv
<1>2. CASE ListUsers
  <2>1. \A u \in Users : cacheFresh'[u] /\ cacheFresh'[u] = cacheFresh[u]
    BY <1>2, <1>1 DEF Due, ListUsers
  <2>2. /\ todo' = {u \in Users : cached[u].uid # 0} /\ pc' = "users"
        /\ entries' = entries /\ user' = user
    BY <1>2, <1>1 DEF Due, ListUsers
  <2>3. \A u \in Users : entries[u] = NoEntry
    BY <1>2, <1>1 DEF LoopInv, ListUsers
  <2> QED
    BY <2>1, <2>2, <2>3, <1>1 DEF TruthInv, TrueOf, FreshInv
<1>3. CASE /\ ~ListUsers
           /\ UNCHANGED <<user, config, pc, todo, entries, statusUpdateFailed>>
  BY <1>3, <1>1, DueStays DEF TruthInv, TrueOf
<1>4. CASE Abort
  BY <1>4 DEF Abort, Due
<1>5. ASSUME NEW u \in Users, NEW r \in Reasons, NEW e, pc # "idle", ~ListUsers,
             SetUserCondition(u, r), NextUser(u, e),
             \/ statusUpdateFailed'
             \/ IF user'[u].uid # 0 /\ user'[u].ready = "Reconciled"
                THEN e.key # None /\ e.key = user'[u].nkeyPublicKey ELSE e = NoEntry
      PROVE  TruthInv'
  <2>1. \/ statusUpdateFailed
        \/ \A v \in Users \ todo : TrueOf(v, entries[v])
    BY <1>1, <1>5, DueStays DEF TruthInv
  <2>2. \A v \in Users : v # u => user'[v] = user[v] /\ entries'[v] = entries[v]
    BY <1>1, <1>5, ConditionEffect DEF NextUser
  <2>3. statusUpdateFailed => statusUpdateFailed'
    BY <1>1, <1>5, ConditionEffect
  <2>4. /\ pc' = "users" /\ todo' = todo \ {u} /\ entries'[u] = e
    BY <1>1, <1>5 DEF NextUser
  <2>5. ASSUME NEW v \in Users \ todo', ~statusUpdateFailed' PROVE TrueOf(v, entries[v])'
    <3>1. CASE v = u
      BY <1>5, <2>4, <2>5, <3>1 DEF TrueOf
    <3>2. CASE v # u
      BY <2>1, <2>2, <2>3, <2>4, <2>5, <3>2 DEF TrueOf
    <3> QED
      BY <3>1, <3>2
  <2> QED
    BY <2>4, <2>5 DEF TruthInv
<1>6. CASE \E u \in Users : EvaluateRules(u)
  <2>1. PICK u \in Users : EvaluateRules(u)
    BY <1>6
  <2>2. pc = "users" /\ u \in todo /\ ~ListUsers /\ UNCHANGED config
    BY <2>1 DEF EvaluateRules, ListUsers
  <2>3. CASE pc' = "get" /\ UNCHANGED <<objVars, todo, entries, statusUpdateFailed>>
    BY <2>2, <2>3, <1>1, DueStays DEF TruthInv, TrueOf
  <2>4. ASSUME NEW r \in Reasons, r # "Reconciled",
               SetUserCondition(u, r), NextUser(u, NoEntry)
        PROVE  TruthInv'
    <3>1. statusUpdateFailed' \/ user'[u] = [copy[u] EXCEPT !.ready = r]
      BY <1>1, <2>4, ConditionEffect
    <3>2. copy[u] \in User
      BY <1>1
    <3>3. statusUpdateFailed' \/ user'[u].ready # "Reconciled"
      BY <2>4, <3>1, <3>2 DEF User
    <3> QED
      BY <1>5, <2>2, <2>4, <3>3
  <2> QED
    BY <2>1, <2>3, <2>4 DEF EvaluateRules, Reasons
<1>7. CASE GetSecret \/ UpdateSecret \/ CreateSecret
  <2>1. pc # "idle" /\ ~ListUsers
    BY <1>7 DEF GetSecret, UpdateSecret, CreateSecret, ListUsers
  <2>2. CASE /\ pc' \in InWork
             /\ UNCHANGED <<user, config, todo, entries, statusUpdateFailed>>
    BY <2>1, <2>2, <1>1, DueStays DEF TruthInv, TrueOf, InWork
  <2> QED
    BY <1>4, <1>7, <2>2 DEF GetSecret, UpdateSecret, CreateSecret, InWork
<1>8. CASE RecordKey
  <2>1. pc # "idle" /\ ~ListUsers /\ cur \in todo
    BY <1>8, <1>1 DEF RecordKey, ListUsers, CurInv, InWork
  <2>2. CASE /\ pc' = "ready"
             /\ UNCHANGED <<config, todo, entries, statusUpdateFailed>>
             /\ \A v \in Users \ {cur} : user'[v] = user[v]
    BY <2>1, <2>2, <1>1, DueStays DEF TruthInv, TrueOf
  <2> QED
    BY <1>1, <1>4, <1>8, <2>2 DEF RecordKey, WriteUser, StoreUser
<1>9. CASE SetReady
  <2> DEFINE e == [key |-> held.key, prefix |-> held.prefix]
  <2>1. /\ pc = "ready" /\ cur \in todo /\ cur \in Users /\ ~ListUsers
        /\ SetUserCondition(cur, "Reconciled") /\ NextUser(cur, e)
    BY <1>9, <1>1 DEF SetReady, ListUsers, CurInv, InWork
  <2>2. \/ statusUpdateFailed'
        \/ user'[cur] = [copy[cur] EXCEPT !.ready = "Reconciled"]
    BY <1>1, <2>1, ConditionEffect DEF Reasons
  <2>3. /\ copy[cur] \in User /\ copy[cur].nkeyPublicKey = held.key
        /\ held.key # None /\ e.key = held.key
    BY <1>1, <2>1 DEF LoopInv, KeyedInv, HasHeld
  <2>4. \/ statusUpdateFailed'
        \/ /\ user'[cur].uid # 0 /\ user'[cur].ready = "Reconciled"
           /\ user'[cur].nkeyPublicKey = held.key
    BY <1>1, <2>1, <2>2, <2>3 DEF LoopInv, User
  <2> HIDE DEF e
  <2> QED
    BY <1>5, <2>1, <2>3, <2>4 DEF Reasons
<1>10. CASE Publish
  <2>1. /\ pc = "users" /\ todo = {} /\ pc' = "idle" /\ ~ListUsers
        /\ user' = user
    BY <1>10 DEF Publish, EndReconcile, ListUsers
  <2>2. ~statusUpdateFailed /\ config' = entries
    BY <1>10 DEF Publish, Due, RequeueAfter
  <2> QED
    BY <1>1, <2>1, <2>2, DueStays DEF TruthInv, TrueOf
<1>11. CASE \E u \in Users : ChangePermission(u) \/ CollectSecret(u) \/ DeleteSecret(u)
  <2>1. CASE \E u \in Users : ChangePermission(u)
    <3>1. ~ListUsers
      BY <2>1 DEF ChangePermission, ListUsers
    <3>2. UNCHANGED <<user, config, pc, todo, entries, statusUpdateFailed>>
      BY <2>1 DEF ChangePermission
    <3> QED
      BY <1>3, <3>1, <3>2
  <2>2. CASE \E u \in Users : DropSecret(u)
    <3>1. ~ListUsers
      BY <2>2 DEF DropSecret, ListUsers
    <3>2. UNCHANGED <<user, config, pc, todo, entries, statusUpdateFailed>>
      BY <2>2 DEF DropSecret
    <3> QED
      BY <1>3, <3>1, <3>2
  <2> QED
    BY <1>11, <2>1, <2>2 DEF CollectSecret, DeleteSecret
<1>12. CASE UNCHANGED vars
  BY <1>3, <1>12 DEF vars, ListUsers
<1> QED
  BY <1>1, <1>2, <1>6, <1>7, <1>8, <1>9, <1>10, <1>11, <1>12, DueRaised
  DEF Next, Worker, UserStep

\* The first configuration is that of the old operator, and a reconcile is due.
LEMMA StatusInit == Init => StatusInv
<1> SUFFICES ASSUME Init PROVE StatusInv
  OBVIOUS
<1>1. TypeOK /\ CurInv
  BY TypeInit
<1>2. FreshInv /\ LoopInv /\ TruthInv
  BY DEF Init, FreshInv, LoopInv, TruthInv, Due
<1>3. KeyedInv
  <2>1. \A u \in Users : OldKeys[u] # None
    BY OldKeysIs, ConstantsAssumption
  <2>2. ASSUME NEW u \in Users PROVE secret[u] # NoSecret => secret[u].key # None
    <3>1. PICK old \in SUBSET Users :
             secret = [v \in Users |-> IF v \in old
                          THEN [NoSecret EXCEPT !.key = OldKeys[v], !.owner = 1]
                          ELSE NoSecret]
      BY DEF Init
    <3>2. [NoSecret EXCEPT !.key = OldKeys[u], !.owner = 1].key = OldKeys[u]
      BY DEF NoSecret
    <3> QED
      BY <2>1, <3>1, <3>2
  <2> QED
    BY <2>2 DEF Init, KeyedInv, HasHeld
<1> QED
  BY <1>1, <1>2, <1>3 DEF StatusInv

\* StatusInv is an invariant.
LEMMA StatusInvariant == Spec => []StatusInv
<1>1. Init => StatusInv
  BY StatusInit
<1>2. StatusInv /\ [Next]_vars => StatusInv'
  BY TypeStep, FreshStep, KeyedStep, LoopStep, TruthStep DEF StatusInv
<1> QED
  BY <1>1, <1>2, PTL DEF Spec

\* When the operator has come to rest the Ready condition and the key in the
\* status of every user agree with the published configuration, in every
\* environment: whichever status writes were refused or lost on the way
\* (setUserCondition, EnsureNKeySecret), RequeueAfter or a watch event has
\* brought the reconcile back.
THEOREM StatusIsTruthful == Spec => []StatusTruthful
<1>1. StatusInv => StatusTruthful
  BY DEF StatusInv, TruthInv, StatusTruthful, Quiescent, Due
<1> QED
  BY <1>1, StatusInvariant, PTL

-----------------------------------------------------------------------------
(* A user keeps its key, where names are used once and nobody but the      *)
(* garbage collector deletes Secrets.                                      *)

\* Nothing is nobody's and has no key.
LEMMA NoneIs ==
    /\ NoUser.uid = 0 /\ NoUser.nkeyPublicKey = None
    /\ NoSecret.key = None /\ NoEntry.key = None
BY DEF NoUser, NoSecret, NoEntry

\* The write of a condition changes no uid, no key and no spec.
LEMMA ConditionKeeps ==
    ASSUME TypeOK, FreshInv, NEW u \in Users, u \in todo,
           NEW r \in Reasons, SetUserCondition(u, r)
    PROVE  /\ \A w \in Users : /\ user'[w].uid = user[w].uid
                              /\ user'[w].nkeyPublicKey = user[w].nkeyPublicKey
                              /\ user'[w].insecure = user[w].insecure
                              /\ copy'[w].uid = copy[w].uid
           /\ cached' = cached /\ incarnations' = incarnations
<1> DEFINE c == [copy[u] EXCEPT !.ready = r]
<1>1. copy[u] \in User
  BY DEF TypeOK
<1>2. c.uid = copy[u].uid /\ c.nkeyPublicKey = copy[u].nkeyPublicKey /\ c.insecure = copy[u].insecure
  BY <1>1 DEF User
<1>3. user'[u] = user[u] \/ (copyFresh[u] /\ user'[u] = c)
  BY ConditionEffect
<1> HIDE DEF c
<1>4. /\ user'[u].uid = user[u].uid /\ user'[u].nkeyPublicKey = user[u].nkeyPublicKey
      /\ user'[u].insecure = user[u].insecure
  BY <1>2, <1>3 DEF FreshInv
<1>5. /\ \A w \in Users : copy'[w].uid = copy[w].uid /\ (w # u => user'[w] = user[w])
      /\ cached' = cached /\ incarnations' = incarnations
  BY ConditionEffect
<1> QED
  BY <1>4, <1>5

\* At the end of a reconcile nothing of it is left.
LEMMA EndReconcileIs ==
    ASSUME EndReconcile
    PROVE  /\ \A w \in Users : copy'[w].uid = 0 /\ entries'[w] = NoEntry
           /\ pc' = "idle" /\ todo' = {} /\ statusUpdateFailed' = FALSE
BY DEF EndReconcile, NoUser

\* A name is used once.
LEMMA OnceStep == KeysKept /\ StatusInv /\ KeyInv /\ [Next]_vars => OnceInv'
<1> SUFFICES ASSUME KeysKept, StatusInv, KeyInv, [Next]_vars, NEW v \in Users
             PROVE  /\ incarnations'[v] \in {0, 1}
                    /\ user'[v].uid \in {0, incarnations'[v]}
                    /\ cached'[v].uid \in {0, incarnations'[v]}
                    /\ copy'[v].uid \in {0, incarnations'[v]}
                    /\ secret'[v] # NoSecret => secret'[v].owner = 1
  BY DEF OnceInv
<1>0. /\ TypeOK /\ CurInv /\ FreshInv /\ KeyedInv /\ LoopInv
      /\ OnceInv /\ StatusKeyInv /\ HeldInv /\ EntryInv
  BY DEF StatusInv, KeyInv
<1> USE DEF TypeOK, objVars, queueVars, localVars, OnceInv
<1>1. CASE ListUsers
  BY <1>0, <1>1, EndReconcileIs DEF ListUsers
<1>2. CASE \E u \in Users : EvaluateRules(u)
  <2>1. PICK u \in Users : EvaluateRules(u)
    BY <1>2
  <2>2. u \in todo /\ copy[u] \in User /\ pc = "users"
    BY <2>1, <1>0 DEF EvaluateRules
  <2>3. CASE pc' = "get" /\ UNCHANGED <<objVars, todo, copy, copyFresh, held, entries>>
    BY <1>0, <2>1, <2>3 DEF EvaluateRules
  <2>4. CASE \E r \in Reasons : SetUserCondition(u, r) /\ NextUser(u, NoEntry)
    <3>1. PICK r \in Reasons : SetUserCondition(u, r) /\ NextUser(u, NoEntry)
      BY <2>4
    <3> QED
      BY <1>0, <2>1, <2>2, <3>1, ConditionKeeps DEF EvaluateRules, NextUser
  <2>5. \/ pc' = "get" /\ UNCHANGED <<objVars, todo, copy, copyFresh, held, entries>>
        \/ \E r \in Reasons : SetUserCondition(u, r) /\ NextUser(u, NoEntry)
    BY <2>1 DEF EvaluateRules, Reasons
  <2> QED
    BY <2>3, <2>4, <2>5
<1>3. CASE GetSecret
  BY <1>0, <1>3, EndReconcileIs DEF GetSecret, SecretFound, Abort
<1>4. CASE UpdateSecret
  <2>1. cur \in todo /\ cur \in Users /\ copy[cur] \in User /\ copy[cur].uid # 0
    BY <1>0, <1>4 DEF UpdateSecret, CurInv, InWork, LoopInv
  <2> DEFINE t == UpdatedSecret(held, copy[cur])
  <2>2. ~(Draws \subseteq InUse) => t.key = held.key /\ t.owner = held.owner
    BY <1>0, <2>1, UpdatedSecretIs
  <2>3. heldFresh => held = secret[cur] /\ held.key # None
    BY <1>0, <1>4 DEF HeldInv, KeyedInv, HasHeld, UpdateSecret
  <2> HIDE DEF t
  <2>4. CASE Abort /\ (UNCHANGED secret \/ (heldFresh /\ StoreSecret(cur, t)))
    BY <1>0, <1>4, <2>1, <2>2, <2>3, <2>4, EndReconcileIs, NoneIs DEF UpdateSecret, StoreSecret, Abort
  <2>5. CASE /\ heldFresh /\ StoreSecret(cur, t)
             /\ held' = t /\ pc' = "key"
             /\ UNCHANGED <<objVars, config, todo, cur, copy, heldFresh, entries>>
    BY <1>0, <1>4, <2>1, <2>2, <2>3, <2>5, NoneIs DEF UpdateSecret, StoreSecret
  <2> QED
    BY <1>4, <2>4, <2>5 DEF UpdateSecret, t
<1>5. CASE CreateSecret
  <2>1. cur \in todo /\ cur \in Users /\ copy[cur] \in User /\ copy[cur].uid # 0
    BY <1>0, <1>5 DEF CreateSecret, CurInv, InWork, LoopInv
  <2> DEFINE t == NewSecret(copy[cur])
  <2>2. ~(Draws \subseteq InUse) => t.key # None /\ t.owner = copy[cur].uid
    BY <2>1, NewSecretIs
  <2> HIDE DEF t
  <2>3. CASE Abort /\ (UNCHANGED secret \/ (secret[cur] = NoSecret /\ StoreSecret(cur, t)))
    BY <1>0, <1>5, <2>1, <2>2, <2>3, EndReconcileIs, NoneIs DEF CreateSecret, StoreSecret, Abort
  <2>4. CASE /\ secret[cur] = NoSecret /\ StoreSecret(cur, t)
             /\ held' = t /\ heldFresh' = TRUE /\ pc' = "key"
             /\ UNCHANGED <<objVars, config, todo, cur, copy, entries>>
    BY <1>0, <1>5, <2>1, <2>2, <2>4, NoneIs DEF CreateSecret, StoreSecret
  <2> QED
    BY <1>5, <2>3, <2>4 DEF CreateSecret, t
<1>6. CASE RecordKey
  <2>1. cur \in todo /\ cur \in Users /\ copy[cur] \in User /\ copy[cur].uid # 0
    BY <1>0, <1>6 DEF RecordKey, CurInv, InWork, LoopInv
  <2> DEFINE c == [copy[cur] EXCEPT !.nkeyPublicKey = held.key]
  <2>2. c.uid = copy[cur].uid /\ c.nkeyPublicKey = held.key
    BY <2>1 DEF User
  <2> HIDE DEF c
  <2>3. copyFresh[cur] => /\ user[cur] = copy[cur] /\ user[cur].uid # 0
                          /\ held = secret[cur]
    BY <1>0, <1>6, <2>1 DEF RecordKey, HeldInv, HasHeld, FreshInv
  <2>4. CASE Abort /\ (UNCHANGED objVars \/ StoreUser(cur, c))
    <3>1. secret' = secret
      BY <1>6 DEF RecordKey
    <3>2. CASE UNCHANGED objVars
      BY <1>0, <2>4, <3>1, <3>2, EndReconcileIs DEF Abort
    <3>3. CASE StoreUser(cur, c)
      BY <1>0, <2>1, <2>2, <2>3, <2>4, <3>1, <3>3, EndReconcileIs DEF StoreUser, Abort
    <3> QED
      BY <2>4, <3>2, <3>3
  <2>5. CASE pc' = "ready" /\ UNCHANGED <<todo, cur, held, heldFresh, entries, config>> /\ WriteUser(cur, c)
    BY <1>0, <1>6, <2>1, <2>2, <2>3, <2>5 DEF WriteUser, StoreUser, RecordKey
  <2>6. CASE pc' = "ready" /\ UNCHANGED <<objVars, localVars, config>>
    BY <1>0, <1>6, <2>6 DEF RecordKey
  <2> QED
    BY <1>6, <2>4, <2>5, <2>6 DEF RecordKey, c
<1>7. CASE SetReady
  <2>1. cur \in todo /\ cur \in Users /\ copy[cur] \in User /\ copy[cur].uid # 0
    BY <1>0, <1>7 DEF SetReady, CurInv, InWork, LoopInv
  <2>2. /\ held.key # None /\ incarnations[cur] = 1
        /\ user[cur].uid # 0 => secret[cur].key = held.key
    BY <1>0, <1>7, <2>1 DEF SetReady, HeldInv, KeyedInv, HasHeld, OnceInv
  <2> QED
    BY <1>0, <1>7, <2>1, <2>2, ConditionKeeps DEF SetReady, NextUser, Reasons
<1>8. CASE Publish
  BY <1>0, <1>8, EndReconcileIs DEF Publish
<1>9. CASE \E u \in Users : UserEvent(u)
  BY <1>0, <1>9 DEF UserEvent
<1>10. CASE ConfigMapEvent
  BY <1>0, <1>10 DEF ConfigMapEvent
<1>11. CASE TimerFires
  BY <1>0, <1>11 DEF TimerFires
<1>12. CASE OtherEvent
  BY <1>0, <1>12 DEF OtherEvent
<1>13. CASE RestartOperator
  BY <1>0, <1>13, EndReconcileIs DEF RestartOperator
<1>14. CASE \E u \in Users, o \in Overrides \cup {None}, i \in BOOLEAN : CreateUser(u, o, i)
  <2>1. PICK u \in Users, o \in Overrides \cup {None}, i \in BOOLEAN : CreateUser(u, o, i)
    BY <1>14
  <2> DEFINE c == [NoUser EXCEPT !.uid = incarnations[u] + 1,
                                 !.inboxPrefix = o, !.insecure = i]
  <2>2. incarnations[u] = 0 /\ c.uid = 1 /\ c.nkeyPublicKey = None
    BY <1>0, <2>1 DEF CreateUser, KeysKept, NoUser
  <2> HIDE DEF c
  <2>3. ChangeUser(u, c) /\ incarnations' = [incarnations EXCEPT ![u] = 1]
    BY <1>0, <2>1, <2>2 DEF CreateUser, c
  <2> QED
    BY <1>0, <2>2, <2>3 DEF ChangeUser
<1>15. CASE \E u \in Users, o \in Overrides \cup {None}, i \in BOOLEAN : EditUser(u, o, i)
  <2>1. PICK u \in Users, o \in Overrides \cup {None}, i \in BOOLEAN : EditUser(u, o, i)
    BY <1>15
  <2> DEFINE c == [user[u] EXCEPT !.inboxPrefix = o, !.insecure = i]
  <2>2. user[u] \in User
    BY <1>0
  <2>3. c.uid = user[u].uid /\ c.nkeyPublicKey = user[u].nkeyPublicKey
    BY <2>2 DEF User
  <2> HIDE DEF c
  <2>4. ChangeUser(u, c) /\ incarnations' = incarnations
    BY <2>1 DEF EditUser, c
  <2> QED
    BY <1>0, <2>3, <2>4 DEF ChangeUser
<1>16. CASE \E u \in Users : DeleteUser(u)
  BY <1>0, <1>16, NoneIs DEF DeleteUser, ChangeUser
<1>17. CASE \E u \in Users : ChangePermission(u)
  BY <1>0, <1>17 DEF ChangePermission
<1>18. CASE \E u \in Users : CollectSecret(u)
  BY <1>0, <1>18 DEF CollectSecret, DropSecret
<1>19. CASE \E u \in Users : DeleteSecret(u)
  BY <1>0, <1>19 DEF DeleteSecret, KeysKept
<1>20. CASE UNCHANGED vars
  BY <1>0, <1>20 DEF vars
<1> QED
  BY <1>1, <1>2, <1>3, <1>4, <1>5, <1>6, <1>7, <1>8, <1>9, <1>10, <1>11, <1>12, <1>13, <1>14, <1>15, <1>16, <1>17, <1>18, <1>19, <1>20 DEF Next, Worker, UserStep

\* The key in a status is the key of the Secret.
LEMMA StatusKeyStep == KeysKept /\ StatusInv /\ KeyInv /\ [Next]_vars => StatusKeyInv'
<1> SUFFICES ASSUME KeysKept, StatusInv, KeyInv, [Next]_vars, NEW v \in Users
             PROVE  user'[v].nkeyPublicKey # None =>
                        user'[v].uid # 0 /\ secret'[v].key = user'[v].nkeyPublicKey
  BY DEF StatusKeyInv
<1>0. /\ TypeOK /\ CurInv /\ FreshInv /\ KeyedInv /\ LoopInv
      /\ OnceInv /\ StatusKeyInv /\ HeldInv /\ EntryInv
  BY DEF StatusInv, KeyInv
<1> USE DEF TypeOK, objVars, queueVars, localVars, OnceInv, StatusKeyInv
<1>1. CASE ListUsers
  BY <1>0, <1>1, EndReconcileIs DEF ListUsers
<1>2. CASE \E u \in Users : EvaluateRules(u)
  <2>1. PICK u \in Users : EvaluateRules(u)
    BY <1>2
  <2>2. u \in todo /\ copy[u] \in User /\ pc = "users"
    BY <2>1, <1>0 DEF EvaluateRules
  <2>3. CASE pc' = "get" /\ UNCHANGED <<objVars, todo, copy, copyFresh, held, entries>>
    BY <1>0, <2>1, <2>3 DEF EvaluateRules
  <2>4. CASE \E r \in Reasons : SetUserCondition(u, r) /\ NextUser(u, NoEntry)
    <3>1. PICK r \in Reasons : SetUserCondition(u, r) /\ NextUser(u, NoEntry)
      BY <2>4
    <3> QED
      BY <1>0, <2>1, <2>2, <3>1, ConditionKeeps DEF EvaluateRules, NextUser
  <2>5. \/ pc' = "get" /\ UNCHANGED <<objVars, todo, copy, copyFresh, held, entries>>
        \/ \E r \in Reasons : SetUserCondition(u, r) /\ NextUser(u, NoEntry)
    BY <2>1 DEF EvaluateRules, Reasons
  <2> QED
    BY <2>3, <2>4, <2>5
<1>3. CASE GetSecret
  BY <1>0, <1>3, EndReconcileIs DEF GetSecret, SecretFound, Abort
<1>4. CASE UpdateSecret
  <2>1. cur \in todo /\ cur \in Users /\ copy[cur] \in User /\ copy[cur].uid # 0
    BY <1>0, <1>4 DEF UpdateSecret, CurInv, InWork, LoopInv
  <2> DEFINE t == UpdatedSecret(held, copy[cur])
  <2>2. ~(Draws \subseteq InUse) => t.key = held.key /\ t.owner = held.owner
    BY <1>0, <2>1, UpdatedSecretIs
  <2>3. heldFresh => held = secret[cur] /\ held.key # None
    BY <1>0, <1>4 DEF HeldInv, KeyedInv, HasHeld, UpdateSecret
  <2> HIDE DEF t
  <2>4. CASE Abort /\ (UNCHANGED secret \/ (heldFresh /\ StoreSecret(cur, t)))
    BY <1>0, <1>4, <2>1, <2>2, <2>3, <2>4, EndReconcileIs, NoneIs DEF UpdateSecret, StoreSecret, Abort
  <2>5. CASE /\ heldFresh /\ StoreSecret(cur, t)
             /\ held' = t /\ pc' = "key"
             /\ UNCHANGED <<objVars, config, todo, cur, copy, heldFresh, entries>>
    BY <1>0, <1>4, <2>1, <2>2, <2>3, <2>5, NoneIs DEF UpdateSecret, StoreSecret
  <2> QED
    BY <1>4, <2>4, <2>5 DEF UpdateSecret, t
<1>5. CASE CreateSecret
  <2>1. cur \in todo /\ cur \in Users /\ copy[cur] \in User /\ copy[cur].uid # 0
    BY <1>0, <1>5 DEF CreateSecret, CurInv, InWork, LoopInv
  <2> DEFINE t == NewSecret(copy[cur])
  <2>2. ~(Draws \subseteq InUse) => t.key # None /\ t.owner = copy[cur].uid
    BY <2>1, NewSecretIs
  <2> HIDE DEF t
  <2>3. CASE Abort /\ (UNCHANGED secret \/ (secret[cur] = NoSecret /\ StoreSecret(cur, t)))
    BY <1>0, <1>5, <2>1, <2>2, <2>3, EndReconcileIs, NoneIs DEF CreateSecret, StoreSecret, Abort
  <2>4. CASE /\ secret[cur] = NoSecret /\ StoreSecret(cur, t)
             /\ held' = t /\ heldFresh' = TRUE /\ pc' = "key"
             /\ UNCHANGED <<objVars, config, todo, cur, copy, entries>>
    BY <1>0, <1>5, <2>1, <2>2, <2>4, NoneIs DEF CreateSecret, StoreSecret
  <2> QED
    BY <1>5, <2>3, <2>4 DEF CreateSecret, t
<1>6. CASE RecordKey
  <2>1. cur \in todo /\ cur \in Users /\ copy[cur] \in User /\ copy[cur].uid # 0
    BY <1>0, <1>6 DEF RecordKey, CurInv, InWork, LoopInv
  <2> DEFINE c == [copy[cur] EXCEPT !.nkeyPublicKey = held.key]
  <2>2. c.uid = copy[cur].uid /\ c.nkeyPublicKey = held.key
    BY <2>1 DEF User
  <2> HIDE DEF c
  <2>3. copyFresh[cur] => /\ user[cur] = copy[cur] /\ user[cur].uid # 0
                          /\ held = secret[cur]
    BY <1>0, <1>6, <2>1 DEF RecordKey, HeldInv, HasHeld, FreshInv
  <2>4. CASE Abort /\ (UNCHANGED objVars \/ StoreUser(cur, c))
    <3>1. secret' = secret
      BY <1>6 DEF RecordKey
    <3>2. CASE UNCHANGED objVars
      BY <1>0, <2>4, <3>1, <3>2, EndReconcileIs DEF Abort
    <3>3. CASE StoreUser(cur, c)
      BY <1>0, <2>1, <2>2, <2>3, <2>4, <3>1, <3>3, EndReconcileIs DEF StoreUser, Abort
    <3> QED
      BY <2>4, <3>2, <3>3
  <2>5. CASE pc' = "ready" /\ UNCHANGED <<todo, cur, held, heldFresh, entries, config>> /\ WriteUser(cur, c)
    BY <1>0, <1>6, <2>1, <2>2, <2>3, <2>5 DEF WriteUser, StoreUser, RecordKey
  <2>6. CASE pc' = "ready" /\ UNCHANGED <<objVars, localVars, config>>
    BY <1>0, <1>6, <2>6 DEF RecordKey
  <2> QED
    BY <1>6, <2>4, <2>5, <2>6 DEF RecordKey, c
<1>7. CASE SetReady
  <2>1. cur \in todo /\ cur \in Users /\ copy[cur] \in User /\ copy[cur].uid # 0
    BY <1>0, <1>7 DEF SetReady, CurInv, InWork, LoopInv
  <2>2. /\ held.key # None /\ incarnations[cur] = 1
        /\ user[cur].uid # 0 => secret[cur].key = held.key
    BY <1>0, <1>7, <2>1 DEF SetReady, HeldInv, KeyedInv, HasHeld, OnceInv
  <2> QED
    BY <1>0, <1>7, <2>1, <2>2, ConditionKeeps DEF SetReady, NextUser, Reasons
<1>8. CASE Publish
  BY <1>0, <1>8, EndReconcileIs DEF Publish
<1>9. CASE \E u \in Users : UserEvent(u)
  BY <1>0, <1>9 DEF UserEvent
<1>10. CASE ConfigMapEvent
  BY <1>0, <1>10 DEF ConfigMapEvent
<1>11. CASE TimerFires
  BY <1>0, <1>11 DEF TimerFires
<1>12. CASE OtherEvent
  BY <1>0, <1>12 DEF OtherEvent
<1>13. CASE RestartOperator
  BY <1>0, <1>13, EndReconcileIs DEF RestartOperator
<1>14. CASE \E u \in Users, o \in Overrides \cup {None}, i \in BOOLEAN : CreateUser(u, o, i)
  <2>1. PICK u \in Users, o \in Overrides \cup {None}, i \in BOOLEAN : CreateUser(u, o, i)
    BY <1>14
  <2> DEFINE c == [NoUser EXCEPT !.uid = incarnations[u] + 1,
                                 !.inboxPrefix = o, !.insecure = i]
  <2>2. incarnations[u] = 0 /\ c.uid = 1 /\ c.nkeyPublicKey = None
    BY <1>0, <2>1 DEF CreateUser, KeysKept, NoUser
  <2> HIDE DEF c
  <2>3. ChangeUser(u, c) /\ incarnations' = [incarnations EXCEPT ![u] = 1]
    BY <1>0, <2>1, <2>2 DEF CreateUser, c
  <2> QED
    BY <1>0, <2>2, <2>3 DEF ChangeUser
<1>15. CASE \E u \in Users, o \in Overrides \cup {None}, i \in BOOLEAN : EditUser(u, o, i)
  <2>1. PICK u \in Users, o \in Overrides \cup {None}, i \in BOOLEAN : EditUser(u, o, i)
    BY <1>15
  <2> DEFINE c == [user[u] EXCEPT !.inboxPrefix = o, !.insecure = i]
  <2>2. user[u] \in User
    BY <1>0
  <2>3. c.uid = user[u].uid /\ c.nkeyPublicKey = user[u].nkeyPublicKey
    BY <2>2 DEF User
  <2> HIDE DEF c
  <2>4. ChangeUser(u, c) /\ incarnations' = incarnations
    BY <2>1 DEF EditUser, c
  <2> QED
    BY <1>0, <2>3, <2>4 DEF ChangeUser
<1>16. CASE \E u \in Users : DeleteUser(u)
  BY <1>0, <1>16, NoneIs DEF DeleteUser, ChangeUser
<1>17. CASE \E u \in Users : ChangePermission(u)
  BY <1>0, <1>17 DEF ChangePermission
<1>18. CASE \E u \in Users : CollectSecret(u)
  BY <1>0, <1>18 DEF CollectSecret, DropSecret
<1>19. CASE \E u \in Users : DeleteSecret(u)
  BY <1>0, <1>19 DEF DeleteSecret, KeysKept
<1>20. CASE UNCHANGED vars
  BY <1>0, <1>20 DEF vars
<1> QED
  BY <1>1, <1>2, <1>3, <1>4, <1>5, <1>6, <1>7, <1>8, <1>9, <1>10, <1>11, <1>12, <1>13, <1>14, <1>15, <1>16, <1>17, <1>18, <1>19, <1>20 DEF Next, Worker, UserStep

\* Entries have the key of the Secret.
LEMMA EntryStep == KeysKept /\ StatusInv /\ KeyInv /\ [Next]_vars => EntryInv'
<1> SUFFICES ASSUME KeysKept, StatusInv, KeyInv, [Next]_vars, NEW v \in Users
             PROVE  EntryOf(v, config[v])' /\ EntryOf(v, entries[v])'
  BY DEF EntryInv
<1>0. /\ TypeOK /\ CurInv /\ FreshInv /\ KeyedInv /\ LoopInv
      /\ OnceInv /\ StatusKeyInv /\ HeldInv /\ EntryInv
  BY DEF StatusInv, KeyInv
<1> USE DEF TypeOK, objVars, queueVars, localVars, OnceInv, EntryInv, EntryOf
<1>1. CASE ListUsers
  BY <1>0, <1>1, EndReconcileIs DEF ListUsers
<1>2. CASE \E u \in Users : EvaluateRules(u)
  <2>1. PICK u \in Users : EvaluateRules(u)
    BY <1>2
  <2>2. u \in todo /\ copy[u] \in User /\ pc = "users"
    BY <2>1, <1>0 DEF EvaluateRules
  <2>3. CASE pc' = "get" /\ UNCHANGED <<objVars, todo, copy, copyFresh, held, entries>>
    BY <1>0, <2>1, <2>3 DEF EvaluateRules
  <2>4. CASE \E r \in Reasons : SetUserCondition(u, r) /\ NextUser(u, NoEntry)
    <3>1. PICK r \in Reasons : SetUserCondition(u, r) /\ NextUser(u, NoEntry)
      BY <2>4
    <3> QED
      BY <1>0, <2>1, <2>2, <3>1, ConditionKeeps DEF EvaluateRules, NextUser
  <2>5. \/ pc' = "get" /\ UNCHANGED <<objVars, todo, copy, copyFresh, held, entries>>
        \/ \E r \in Reasons : SetUserCondition(u, r) /\ NextUser(u, NoEntry)
    BY <2>1 DEF EvaluateRules, Reasons
  <2> QED
    BY <2>3, <2>4, <2>5
<1>3. CASE GetSecret
  BY <1>0, <1>3, EndReconcileIs DEF GetSecret, SecretFound, Abort
<1>4. CASE UpdateSecret
  <2>1. cur \in todo /\ cur \in Users /\ copy[cur] \in User /\ copy[cur].uid # 0
    BY <1>0, <1>4 DEF UpdateSecret, CurInv, InWork, LoopInv
  <2> DEFINE t == UpdatedSecret(held, copy[cur])
  <2>2. ~(Draws \subseteq InUse) => t.key = held.key /\ t.owner = held.owner
    BY <1>0, <2>1, UpdatedSecretIs
  <2>3. heldFresh => held = secret[cur] /\ held.key # None
    BY <1>0, <1>4 DEF HeldInv, KeyedInv, HasHeld, UpdateSecret
  <2> HIDE DEF t
  <2>4. CASE Abort /\ (UNCHANGED secret \/ (heldFresh /\ StoreSecret(cur, t)))
    BY <1>0, <1>4, <2>1, <2>2, <2>3, <2>4, EndReconcileIs, NoneIs DEF UpdateSecret, StoreSecret, Abort
  <2>5. CASE /\ heldFresh /\ StoreSecret(cur, t)
             /\ held' = t /\ pc' = "key"
             /\ UNCHANGED <<objVars, config, todo, cur, copy, heldFresh, entries>>
    BY <1>0, <1>4, <2>1, <2>2, <2>3, <2>5, NoneIs DEF UpdateSecret, StoreSecret
  <2> QED
    BY <1>4, <2>4, <2>5 DEF UpdateSecret, t
<1>5. CASE CreateSecret
  <2>1. cur \in todo /\ cur \in Users /\ copy[cur] \in User /\ copy[cur].uid # 0
    BY <1>0, <1>5 DEF CreateSecret, CurInv, InWork, LoopInv
  <2> DEFINE t == NewSecret(copy[cur])
  <2>2. ~(Draws \subseteq InUse) => t.key # None /\ t.owner = copy[cur].uid
    BY <2>1, NewSecretIs
  <2> HIDE DEF t
  <2>3. CASE Abort /\ (UNCHANGED secret \/ (secret[cur] = NoSecret /\ StoreSecret(cur, t)))
    BY <1>0, <1>5, <2>1, <2>2, <2>3, EndReconcileIs, NoneIs DEF CreateSecret, StoreSecret, Abort
  <2>4. CASE /\ secret[cur] = NoSecret /\ StoreSecret(cur, t)
             /\ held' = t /\ heldFresh' = TRUE /\ pc' = "key"
             /\ UNCHANGED <<objVars, config, todo, cur, copy, entries>>
    BY <1>0, <1>5, <2>1, <2>2, <2>4, NoneIs DEF CreateSecret, StoreSecret
  <2> QED
    BY <1>5, <2>3, <2>4 DEF CreateSecret, t
<1>6. CASE RecordKey
  <2>1. cur \in todo /\ cur \in Users /\ copy[cur] \in User /\ copy[cur].uid # 0
    BY <1>0, <1>6 DEF RecordKey, CurInv, InWork, LoopInv
  <2> DEFINE c == [copy[cur] EXCEPT !.nkeyPublicKey = held.key]
  <2>2. c.uid = copy[cur].uid /\ c.nkeyPublicKey = held.key
    BY <2>1 DEF User
  <2> HIDE DEF c
  <2>3. copyFresh[cur] => /\ user[cur] = copy[cur] /\ user[cur].uid # 0
                          /\ held = secret[cur]
    BY <1>0, <1>6, <2>1 DEF RecordKey, HeldInv, HasHeld, FreshInv
  <2>4. CASE Abort /\ (UNCHANGED objVars \/ StoreUser(cur, c))
    <3>1. secret' = secret
      BY <1>6 DEF RecordKey
    <3>2. CASE UNCHANGED objVars
      BY <1>0, <2>4, <3>1, <3>2, EndReconcileIs DEF Abort
    <3>3. CASE StoreUser(cur, c)
      BY <1>0, <2>1, <2>2, <2>3, <2>4, <3>1, <3>3, EndReconcileIs DEF StoreUser, Abort
    <3> QED
      BY <2>4, <3>2, <3>3
  <2>5. CASE pc' = "ready" /\ UNCHANGED <<todo, cur, held, heldFresh, entries, config>> /\ WriteUser(cur, c)
    BY <1>0, <1>6, <2>1, <2>2, <2>3, <2>5 DEF WriteUser, StoreUser, RecordKey
  <2>6. CASE pc' = "ready" /\ UNCHANGED <<objVars, localVars, config>>
    BY <1>0, <1>6, <2>6 DEF RecordKey
  <2> QED
    BY <1>6, <2>4, <2>5, <2>6 DEF RecordKey, c
<1>7. CASE SetReady
  <2>1. cur \in todo /\ cur \in Users /\ copy[cur] \in User /\ copy[cur].uid # 0
    BY <1>0, <1>7 DEF SetReady, CurInv, InWork, LoopInv
  <2>2. /\ held.key # None /\ incarnations[cur] = 1
        /\ user[cur].uid # 0 => secret[cur].key = held.key
    BY <1>0, <1>7, <2>1 DEF SetReady, HeldInv, KeyedInv, HasHeld, OnceInv
  <2> QED
    BY <1>0, <1>7, <2>1, <2>2, ConditionKeeps DEF SetReady, NextUser, Reasons
<1>8. CASE Publish
  BY <1>0, <1>8, EndReconcileIs DEF Publish
<1>9. CASE \E u \in Users : UserEvent(u)
  BY <1>0, <1>9 DEF UserEvent
<1>10. CASE ConfigMapEvent
  BY <1>0, <1>10 DEF ConfigMapEvent
<1>11. CASE TimerFires
  BY <1>0, <1>11 DEF TimerFires
<1>12. CASE OtherEvent
  BY <1>0, <1>12 DEF OtherEvent
<1>13. CASE RestartOperator
  BY <1>0, <1>13, EndReconcileIs DEF RestartOperator
<1>14. CASE \E u \in Users, o \in Overrides \cup {None}, i \in BOOLEAN : CreateUser(u, o, i)
  <2>1. PICK u \in Users, o \in Overrides \cup {None}, i \in BOOLEAN : CreateUser(u, o, i)
    BY <1>14
  <2> DEFINE c == [NoUser EXCEPT !.uid = incarnations[u] + 1,
                                 !.inboxPrefix = o, !.insecure = i]
  <2>2. incarnations[u] = 0 /\ c.uid = 1 /\ c.nkeyPublicKey = None
    BY <1>0, <2>1 DEF CreateUser, KeysKept, NoUser
  <2> HIDE DEF c
  <2>3. ChangeUser(u, c) /\ incarnations' = [incarnations EXCEPT ![u] = 1]
    BY <1>0, <2>1, <2>2 DEF CreateUser, c
  <2> QED
    BY <1>0, <2>2, <2>3 DEF ChangeUser
<1>15. CASE \E u \in Users, o \in Overrides \cup {None}, i \in BOOLEAN : EditUser(u, o, i)
  <2>1. PICK u \in Users, o \in Overrides \cup {None}, i \in BOOLEAN : EditUser(u, o, i)
    BY <1>15
  <2> DEFINE c == [user[u] EXCEPT !.inboxPrefix = o, !.insecure = i]
  <2>2. user[u] \in User
    BY <1>0
  <2>3. c.uid = user[u].uid /\ c.nkeyPublicKey = user[u].nkeyPublicKey
    BY <2>2 DEF User
  <2> HIDE DEF c
  <2>4. ChangeUser(u, c) /\ incarnations' = incarnations
    BY <2>1 DEF EditUser, c
  <2> QED
    BY <1>0, <2>3, <2>4 DEF ChangeUser
<1>16. CASE \E u \in Users : DeleteUser(u)
  BY <1>0, <1>16, NoneIs DEF DeleteUser, ChangeUser
<1>17. CASE \E u \in Users : ChangePermission(u)
  BY <1>0, <1>17 DEF ChangePermission
<1>18. CASE \E u \in Users : CollectSecret(u)
  BY <1>0, <1>18 DEF CollectSecret, DropSecret
<1>19. CASE \E u \in Users : DeleteSecret(u)
  BY <1>0, <1>19 DEF DeleteSecret, KeysKept
<1>20. CASE UNCHANGED vars
  BY <1>0, <1>20 DEF vars
<1> QED
  BY <1>1, <1>2, <1>3, <1>4, <1>5, <1>6, <1>7, <1>8, <1>9, <1>10, <1>11, <1>12, <1>13, <1>14, <1>15, <1>16, <1>17, <1>18, <1>19, <1>20 DEF Next, Worker, UserStep

\* The Secret in hand is current, or the user is gone.
LEMMA HeldStep == KeysKept /\ StatusInv /\ KeyInv /\ [Next]_vars => HeldInv'
<1> SUFFICES ASSUME KeysKept, StatusInv, KeyInv, [Next]_vars
             PROVE  HeldInv'
  BY DEF HeldInv
<1>0. /\ TypeOK /\ CurInv /\ FreshInv /\ KeyedInv /\ LoopInv
      /\ OnceInv /\ StatusKeyInv /\ HeldInv /\ EntryInv
  BY DEF StatusInv, KeyInv
<1> USE DEF TypeOK, objVars, queueVars, localVars, OnceInv, HeldInv, HasHeld
<1>1. CASE ListUsers
  BY <1>0, <1>1, EndReconcileIs DEF ListUsers
<1>2. CASE \E u \in Users : EvaluateRules(u)
  <2>1. PICK u \in Users : EvaluateRules(u)
    BY <1>2
  <2>2. u \in todo /\ copy[u] \in User /\ pc = "users"
    BY <2>1, <1>0 DEF EvaluateRules
  <2>3. CASE pc' = "get" /\ UNCHANGED <<objVars, todo, copy, copyFresh, held, entries>>
    BY <1>0, <2>1, <2>3 DEF EvaluateRules
  <2>4. CASE \E r \in Reasons : SetUserCondition(u, r) /\ NextUser(u, NoEntry)
    <3>1. PICK r \in Reasons : SetUserCondition(u, r) /\ NextUser(u, NoEntry)
      BY <2>4
    <3> QED
      BY <1>0, <2>1, <2>2, <3>1, ConditionKeeps DEF EvaluateRules, NextUser
  <2>5. \/ pc' = "get" /\ UNCHANGED <<objVars, todo, copy, copyFresh, held, entries>>
        \/ \E r \in Reasons : SetUserCondition(u, r) /\ NextUser(u, NoEntry)
    BY <2>1 DEF EvaluateRules, Reasons
  <2> QED
    BY <2>3, <2>4, <2>5
<1>3. CASE GetSecret
  BY <1>0, <1>3, EndReconcileIs DEF GetSecret, SecretFound, Abort
<1>4. CASE UpdateSecret
  <2>1. cur \in todo /\ cur \in Users /\ copy[cur] \in User /\ copy[cur].uid # 0
    BY <1>0, <1>4 DEF UpdateSecret, CurInv, InWork, LoopInv
  <2> DEFINE t == UpdatedSecret(held, copy[cur])
  <2>2. ~(Draws \subseteq InUse) => t.key = held.key /\ t.owner = held.owner
    BY <1>0, <2>1, UpdatedSecretIs
  <2>3. heldFresh => held = secret[cur] /\ held.key # None
    BY <1>0, <1>4 DEF HeldInv, KeyedInv, HasHeld, UpdateSecret
  <2> HIDE DEF t
  <2>4. CASE Abort /\ (UNCHANGED secret \/ (heldFresh /\ StoreSecret(cur, t)))
    BY <1>0, <1>4, <2>1, <2>2, <2>3, <2>4, EndReconcileIs, NoneIs DEF UpdateSecret, StoreSecret, Abort
  <2>5. CASE /\ heldFresh /\ StoreSecret(cur, t)
             /\ held' = t /\ pc' = "key"
             /\ UNCHANGED <<objVars, config, todo, cur, copy, heldFresh, entries>>
    BY <1>0, <1>4, <2>1, <2>2, <2>3, <2>5, NoneIs DEF UpdateSecret, StoreSecret
  <2> QED
    BY <1>4, <2>4, <2>5 DEF UpdateSecret, t
<1>5. CASE CreateSecret
  <2>1. cur \in todo /\ cur \in Users /\ copy[cur] \in User /\ copy[cur].uid # 0
    BY <1>0, <1>5 DEF CreateSecret, CurInv, InWork, LoopInv
  <2> DEFINE t == NewSecret(copy[cur])
  <2>2. ~(Draws \subseteq InUse) => t.key # None /\ t.owner = copy[cur].uid
    BY <2>1, NewSecretIs
  <2> HIDE DEF t
  <2>3. CASE Abort /\ (UNCHANGED secret \/ (secret[cur] = NoSecret /\ StoreSecret(cur, t)))
    BY <1>0, <1>5, <2>1, <2>2, <2>3, EndReconcileIs, NoneIs DEF CreateSecret, StoreSecret, Abort
  <2>4. CASE /\ secret[cur] = NoSecret /\ StoreSecret(cur, t)
             /\ held' = t /\ heldFresh' = TRUE /\ pc' = "key"
             /\ UNCHANGED <<objVars, config, todo, cur, copy, entries>>
    BY <1>0, <1>5, <2>1, <2>2, <2>4, NoneIs DEF CreateSecret, StoreSecret
  <2> QED
    BY <1>5, <2>3, <2>4 DEF CreateSecret, t
<1>6. CASE RecordKey
  <2>1. cur \in todo /\ cur \in Users /\ copy[cur] \in User /\ copy[cur].uid # 0
    BY <1>0, <1>6 DEF RecordKey, CurInv, InWork, LoopInv
  <2> DEFINE c == [copy[cur] EXCEPT !.nkeyPublicKey = held.key]
  <2>2. c.uid = copy[cur].uid /\ c.nkeyPublicKey = held.key
    BY <2>1 DEF User
  <2> HIDE DEF c
  <2>3. copyFresh[cur] => /\ user[cur] = copy[cur] /\ user[cur].uid # 0
                          /\ held = secret[cur]
    BY <1>0, <1>6, <2>1 DEF RecordKey, HeldInv, HasHeld, FreshInv
  <2>4. CASE Abort /\ (UNCHANGED objVars \/ StoreUser(cur, c))
    <3>1. secret' = secret
      BY <1>6 DEF RecordKey
    <3>2. CASE UNCHANGED objVars
      BY <1>0, <2>4, <3>1, <3>2, EndReconcileIs DEF Abort
    <3>3. CASE StoreUser(cur, c)
      BY <1>0, <2>1, <2>2, <2>3, <2>4, <3>1, <3>3, EndReconcileIs DEF StoreUser, Abort
    <3> QED
      BY <2>4, <3>2, <3>3
  <2>5. CASE pc' = "ready" /\ UNCHANGED <<todo, cur, held, heldFresh, entries, config>> /\ WriteUser(cur, c)
    BY <1>0, <1>6, <2>1, <2>2, <2>3, <2>5 DEF WriteUser, StoreUser, RecordKey
  <2>6. CASE pc' = "ready" /\ UNCHANGED <<objVars, localVars, config>>
    BY <1>0, <1>6, <2>6 DEF RecordKey
  <2> QED
    BY <1>6, <2>4, <2>5, <2>6 DEF RecordKey, c
<1>7. CASE SetReady
  <2>1. cur \in todo /\ cur \in Users /\ copy[cur] \in User /\ copy[cur].uid # 0
    BY <1>0, <1>7 DEF SetReady, CurInv, InWork, LoopInv
  <2>2. /\ held.key # None /\ incarnations[cur] = 1
        /\ user[cur].uid # 0 => secret[cur].key = held.key
    BY <1>0, <1>7, <2>1 DEF SetReady, HeldInv, KeyedInv, HasHeld, OnceInv
  <2> QED
    BY <1>0, <1>7, <2>1, <2>2, ConditionKeeps DEF SetReady, NextUser, Reasons
<1>8. CASE Publish
  BY <1>0, <1>8, EndReconcileIs DEF Publish
<1>9. CASE \E u \in Users : UserEvent(u)
  BY <1>0, <1>9 DEF UserEvent
<1>10. CASE ConfigMapEvent
  BY <1>0, <1>10 DEF ConfigMapEvent
<1>11. CASE TimerFires
  BY <1>0, <1>11 DEF TimerFires
<1>12. CASE OtherEvent
  BY <1>0, <1>12 DEF OtherEvent
<1>13. CASE RestartOperator
  BY <1>0, <1>13, EndReconcileIs DEF RestartOperator
<1>14. CASE \E u \in Users, o \in Overrides \cup {None}, i \in BOOLEAN : CreateUser(u, o, i)
  <2>1. PICK u \in Users, o \in Overrides \cup {None}, i \in BOOLEAN : CreateUser(u, o, i)
    BY <1>14
  <2> DEFINE c == [NoUser EXCEPT !.uid = incarnations[u] + 1,
                                 !.inboxPrefix = o, !.insecure = i]
  <2>2. incarnations[u] = 0 /\ c.uid = 1 /\ c.nkeyPublicKey = None
    BY <1>0, <2>1 DEF CreateUser, KeysKept, NoUser
  <2> HIDE DEF c
  <2>3. ChangeUser(u, c) /\ incarnations' = [incarnations EXCEPT ![u] = 1]
    BY <1>0, <2>1, <2>2 DEF CreateUser, c
  <2> QED
    BY <1>0, <2>2, <2>3 DEF ChangeUser, CurInv, InWork, LoopInv
<1>15. CASE \E u \in Users, o \in Overrides \cup {None}, i \in BOOLEAN : EditUser(u, o, i)
  <2>1. PICK u \in Users, o \in Overrides \cup {None}, i \in BOOLEAN : EditUser(u, o, i)
    BY <1>15
  <2> DEFINE c == [user[u] EXCEPT !.inboxPrefix = o, !.insecure = i]
  <2>2. user[u] \in User
    BY <1>0
  <2>3. c.uid = user[u].uid /\ c.nkeyPublicKey = user[u].nkeyPublicKey
    BY <2>2 DEF User
  <2> HIDE DEF c
  <2>4. ChangeUser(u, c) /\ incarnations' = incarnations
    BY <2>1 DEF EditUser, c
  <2> QED
    BY <1>0, <2>3, <2>4 DEF ChangeUser, CurInv, InWork
<1>16. CASE \E u \in Users : DeleteUser(u)
  BY <1>0, <1>16, NoneIs DEF DeleteUser, ChangeUser, CurInv, InWork
<1>17. CASE \E u \in Users : ChangePermission(u)
  BY <1>0, <1>17 DEF ChangePermission
<1>18. CASE \E u \in Users : CollectSecret(u)
  <2>1. PICK u \in Users : CollectSecret(u)
    BY <1>18
  <2>2. user[u].uid = 0
    BY <1>0, <2>1 DEF CollectSecret, DropSecret
  <2>3. CASE cur = u
    BY <1>0, <2>1, <2>2, <2>3 DEF CollectSecret, DropSecret
  <2>4. CASE cur # u
    BY <1>0, <2>1, <2>4 DEF CollectSecret, DropSecret, CurInv, InWork
  <2> QED
    BY <2>3, <2>4
<1>19. CASE \E u \in Users : DeleteSecret(u)
  BY <1>0, <1>19 DEF DeleteSecret, KeysKept
<1>20. CASE UNCHANGED vars
  BY <1>0, <1>20 DEF vars
<1> QED
  BY <1>1, <1>2, <1>3, <1>4, <1>5, <1>6, <1>7, <1>8, <1>9, <1>10, <1>11, <1>12, <1>13, <1>14, <1>15, <1>16, <1>17, <1>18, <1>19, <1>20 DEF Next, Worker, UserStep

\* The key of a Secret and the key of a status stay while the user exists.
LEMMA OnceGenerated == KeysKept /\ StatusInv /\ KeyInv /\ [Next]_vars => 
          \A u \in Users : user'[u].uid = user[u].uid =>
             /\ user[u].nkeyPublicKey # None =>
                    user'[u].nkeyPublicKey = user[u].nkeyPublicKey
             /\ secret[u] # NoSecret /\ secret[u].owner = user[u].uid =>
                    secret'[u].key = secret[u].key
<1> SUFFICES ASSUME KeysKept, StatusInv, KeyInv, [Next]_vars, NEW v \in Users
             PROVE  user'[v].uid = user[v].uid =>
                       /\ user[v].nkeyPublicKey # None =>
                              user'[v].nkeyPublicKey = user[v].nkeyPublicKey
                       /\ secret[v] # NoSecret /\ secret[v].owner = user[v].uid =>
                              secret'[v].key = secret[v].key
  OBVIOUS
<1>0. /\ TypeOK /\ CurInv /\ FreshInv /\ KeyedInv /\ LoopInv
      /\ OnceInv /\ StatusKeyInv /\ HeldInv /\ EntryInv
  BY DEF StatusInv, KeyInv
<1> USE DEF TypeOK, objVars, queueVars, localVars, OnceInv, StatusKeyInv
<1>1. CASE ListUsers
  BY <1>0, <1>1, EndReconcileIs DEF ListUsers
<1>2. CASE \E u \in Users : EvaluateRules(u)
  <2>1. PICK u \in Users : EvaluateRules(u)
    BY <1>2
  <2>2. u \in todo /\ copy[u] \in User /\ pc = "users"
    BY <2>1, <1>0 DEF EvaluateRules
  <2>3. CASE pc' = "get" /\ UNCHANGED <<objVars, todo, copy, copyFresh, held, entries>>
    BY <1>0, <2>1, <2>3 DEF EvaluateRules
  <2>4. CASE \E r \in Reasons : SetUserCondition(u, r) /\ NextUser(u, NoEntry)
    <3>1. PICK r \in Reasons : SetUserCondition(u, r) /\ NextUser(u, NoEntry)
      BY <2>4
    <3> QED
      BY <1>0, <2>1, <2>2, <3>1, ConditionKeeps DEF EvaluateRules, NextUser
  <2>5. \/ pc' = "get" /\ UNCHANGED <<objVars, todo, copy, copyFresh, held, entries>>
        \/ \E r \in Reasons : SetUserCondition(u, r) /\ NextUser(u, NoEntry)
    BY <2>1 DEF EvaluateRules, Reasons
  <2> QED
    BY <2>3, <2>4, <2>5
<1>3. CASE GetSecret
  BY <1>0, <1>3, EndReconcileIs DEF GetSecret, SecretFound, Abort
<1>4. CASE UpdateSecret
  <2>1. cur \in todo /\ cur \in Users /\ copy[cur] \in User /\ copy[cur].uid # 0
    BY <1>0, <1>4 DEF UpdateSecret, CurInv, InWork, LoopInv
  <2> DEFINE t == UpdatedSecret(held, copy[cur])
  <2>2. ~(Draws \subseteq InUse) => t.key = held.key /\ t.owner = held.owner
    BY <1>0, <2>1, UpdatedSecretIs
  <2>3. heldFresh => held = secret[cur] /\ held.key # None
    BY <1>0, <1>4 DEF HeldInv, KeyedInv, HasHeld, UpdateSecret
  <2> HIDE DEF t
  <2>4. CASE Abort /\ (UNCHANGED secret \/ (heldFresh /\ StoreSecret(cur, t)))
    BY <1>0, <1>4, <2>1, <2>2, <2>3, <2>4, EndReconcileIs, NoneIs DEF UpdateSecret, StoreSecret, Abort
  <2>5. CASE /\ heldFresh /\ StoreSecret(cur, t)
             /\ held' = t /\ pc' = "key"
             /\ UNCHANGED <<objVars, config, todo, cur, copy, heldFresh, entries>>
    BY <1>0, <1>4, <2>1, <2>2, <2>3, <2>5, NoneIs DEF UpdateSecret, StoreSecret
  <2> QED
    BY <1>4, <2>4, <2>5 DEF UpdateSecret, t
<1>5. CASE CreateSecret
  <2>1. cur \in todo /\ cur \in Users /\ copy[cur] \in User /\ copy[cur].uid # 0
    BY <1>0, <1>5 DEF CreateSecret, CurInv, InWork, LoopInv
  <2> DEFINE t == NewSecret(copy[cur])
  <2>2. ~(Draws \subseteq InUse) => t.key # None /\ t.owner = copy[cur].uid
    BY <2>1, NewSecretIs
  <2> HIDE DEF t
  <2>3. CASE Abort /\ (UNCHANGED secret \/ (secret[cur] = NoSecret /\ StoreSecret(cur, t)))
    BY <1>0, <1>5, <2>1, <2>2, <2>3, EndReconcileIs, NoneIs DEF CreateSecret, StoreSecret, Abort
  <2>4. CASE /\ secret[cur] = NoSecret /\ StoreSecret(cur, t)
             /\ held' = t /\ heldFresh' = TRUE /\ pc' = "key"
             /\ UNCHANGED <<objVars, config, todo, cur, copy, entries>>
    BY <1>0, <1>5, <2>1, <2>2, <2>4, NoneIs DEF CreateSecret, StoreSecret
  <2> QED
    BY <1>5, <2>3, <2>4 DEF CreateSecret, t
<1>6. CASE RecordKey
  <2>1. cur \in todo /\ cur \in Users /\ copy[cur] \in User /\ copy[cur].uid # 0
    BY <1>0, <1>6 DEF RecordKey, CurInv, InWork, LoopInv
  <2> DEFINE c == [copy[cur] EXCEPT !.nkeyPublicKey = held.key]
  <2>2. c.uid = copy[cur].uid /\ c.nkeyPublicKey = held.key
    BY <2>1 DEF User
  <2> HIDE DEF c
  <2>3. copyFresh[cur] => /\ user[cur] = copy[cur] /\ user[cur].uid # 0
                          /\ held = secret[cur]
    BY <1>0, <1>6, <2>1 DEF RecordKey, HeldInv, HasHeld, FreshInv
  <2>4. CASE Abort /\ (UNCHANGED objVars \/ StoreUser(cur, c))
    <3>1. secret' = secret
      BY <1>6 DEF RecordKey
    <3>2. CASE UNCHANGED objVars
      BY <1>0, <2>4, <3>1, <3>2, EndReconcileIs DEF Abort
    <3>3. CASE StoreUser(cur, c)
      BY <1>0, <2>1, <2>2, <2>3, <2>4, <3>1, <3>3, EndReconcileIs DEF StoreUser, Abort
    <3> QED
      BY <2>4, <3>2, <3>3
  <2>5. CASE pc' = "ready" /\ UNCHANGED <<todo, cur, held, heldFresh, entries, config>> /\ WriteUser(cur, c)
    BY <1>0, <1>6, <2>1, <2>2, <2>3, <2>5 DEF WriteUser, StoreUser, RecordKey
  <2>6. CASE pc' = "ready" /\ UNCHANGED <<objVars, localVars, config>>
    BY <1>0, <1>6, <2>6 DEF RecordKey
  <2> QED
    BY <1>6, <2>4, <2>5, <2>6 DEF RecordKey, c
<1>7. CASE SetReady
  <2>1. cur \in todo /\ cur \in Users /\ copy[cur] \in User /\ copy[cur].uid # 0
    BY <1>0, <1>7 DEF SetReady, CurInv, InWork, LoopInv
  <2>2. /\ held.key # None /\ incarnations[cur] = 1
        /\ user[cur].uid # 0 => secret[cur].key = held.key
    BY <1>0, <1>7, <2>1 DEF SetReady, HeldInv, KeyedInv, HasHeld, OnceInv
  <2> QED
    BY <1>0, <1>7, <2>1, <2>2, ConditionKeeps DEF SetReady, NextUser, Reasons
<1>8. CASE Publish
  BY <1>0, <1>8, EndReconcileIs DEF Publish
<1>9. CASE \E u \in Users : UserEvent(u)
  BY <1>0, <1>9 DEF UserEvent
<1>10. CASE ConfigMapEvent
  BY <1>0, <1>10 DEF ConfigMapEvent
<1>11. CASE TimerFires
  BY <1>0, <1>11 DEF TimerFires
<1>12. CASE OtherEvent
  BY <1>0, <1>12 DEF OtherEvent
<1>13. CASE RestartOperator
  BY <1>0, <1>13, EndReconcileIs DEF RestartOperator
<1>14. CASE \E u \in Users, o \in Overrides \cup {None}, i \in BOOLEAN : CreateUser(u, o, i)
  <2>1. PICK u \in Users, o \in Overrides \cup {None}, i \in BOOLEAN : CreateUser(u, o, i)
    BY <1>14
  <2> DEFINE c == [NoUser EXCEPT !.uid = incarnations[u] + 1,
                                 !.inboxPrefix = o, !.insecure = i]
  <2>2. incarnations[u] = 0 /\ c.uid = 1 /\ c.nkeyPublicKey = None
    BY <1>0, <2>1 DEF CreateUser, KeysKept, NoUser
  <2> HIDE DEF c
  <2>3. ChangeUser(u, c) /\ incarnations' = [incarnations EXCEPT ![u] = 1]
    BY <1>0, <2>1, <2>2 DEF CreateUser, c
  <2> QED
    BY <1>0, <2>2, <2>3 DEF ChangeUser
<1>15. CASE \E u \in Users, o \in Overrides \cup {None}, i \in BOOLEAN : EditUser(u, o, i)
  <2>1. PICK u \in Users, o \in Overrides \cup {None}, i \in BOOLEAN : EditUser(u, o, i)
    BY <1>15
  <2> DEFINE c == [user[u] EXCEPT !.inboxPrefix = o, !.insecure = i]
  <2>2. user[u] \in User
    BY <1>0
  <2>3. c.uid = user[u].uid /\ c.nkeyPublicKey = user[u].nkeyPublicKey
    BY <2>2 DEF User
  <2> HIDE DEF c
  <2>4. ChangeUser(u, c) /\ incarnations' = incarnations
    BY <2>1 DEF EditUser, c
  <2> QED
    BY <1>0, <2>3, <2>4 DEF ChangeUser
<1>16. CASE \E u \in Users : DeleteUser(u)
  BY <1>0, <1>16, NoneIs DEF DeleteUser, ChangeUser
<1>17. CASE \E u \in Users : ChangePermission(u)
  BY <1>0, <1>17 DEF ChangePermission
<1>18. CASE \E u \in Users : CollectSecret(u)
  BY <1>0, <1>18 DEF CollectSecret, DropSecret
<1>19. CASE \E u \in Users : DeleteSecret(u)
  BY <1>0, <1>19 DEF DeleteSecret, KeysKept
<1>20. CASE UNCHANGED vars
  BY <1>0, <1>20 DEF vars
<1> QED
  BY <1>1, <1>2, <1>3, <1>4, <1>5, <1>6, <1>7, <1>8, <1>9, <1>10, <1>11, <1>12, <1>13, <1>14, <1>15, <1>16, <1>17, <1>18, <1>19, <1>20 DEF Next, Worker, UserStep

\* The keys of the old operator are in their Secrets.
LEMMA KeyInit == Init => KeyInv
<1> SUFFICES ASSUME Init, NEW u \in Users
             PROVE  /\ /\ incarnations[u] \in {0, 1}
                       /\ user[u].uid \in {0, incarnations[u]}
                       /\ cached[u].uid \in {0, incarnations[u]}
                       /\ copy[u].uid \in {0, incarnations[u]}
                       /\ secret[u] # NoSecret => secret[u].owner = 1
                    /\ user[u].nkeyPublicKey # None =>
                          user[u].uid # 0 /\ secret[u].key = user[u].nkeyPublicKey
                    /\ pc \notin HasHeld
                    /\ EntryOf(u, config[u]) /\ EntryOf(u, entries[u])
  BY DEF KeyInv, OnceInv, StatusKeyInv, HeldInv, EntryInv, HasHeld, Init
<1>1. OldKeys[u] # None
  BY OldKeysIs, ConstantsAssumption
<1>2. cached[u] = user[u] /\ copy[u] = NoUser /\ entries[u] = NoEntry /\ pc = "idle"
  BY DEF Init
<1>3. CASE /\ user[u] = [NoUser EXCEPT !.uid = 1, !.nkeyPublicKey = OldKeys[u],
                                      !.ready = "Reconciled"]
           /\ secret[u] = [NoSecret EXCEPT !.key = OldKeys[u], !.owner = 1]
           /\ config[u] = [NoEntry EXCEPT !.key = OldKeys[u]]
           /\ incarnations[u] = 1
  <2>1. user[u].uid = 1 /\ user[u].nkeyPublicKey = OldKeys[u]
    BY <1>3 DEF NoUser
  <2>2. secret[u].key = OldKeys[u] /\ secret[u].owner = 1 /\ config[u].key = OldKeys[u]
    BY <1>3 DEF NoSecret, NoEntry
  <2> QED
    BY <1>1, <1>2, <1>3, <2>1, <2>2, NoneIs DEF HasHeld, EntryOf
<1>4. CASE user[u] = NoUser /\ secret[u] = NoSecret /\ config[u] = NoEntry /\ incarnations[u] = 0
  BY <1>2, <1>4, NoneIs DEF HasHeld, EntryOf
<1> QED
  BY <1>3, <1>4 DEF Init

\* KeyInv is an invariant where users keep their keys.
LEMMA KeyInvariant == KeysKept => (Spec => [](StatusInv /\ KeyInv))
<1> SUFFICES ASSUME KeysKept PROVE Spec => [](StatusInv /\ KeyInv)
  OBVIOUS
<1>1. Init => StatusInv /\ KeyInv
  BY StatusInit, KeyInit
<1>2. StatusInv /\ KeyInv /\ [Next]_vars => (StatusInv /\ KeyInv)'
  <2>1. StatusInv /\ [Next]_vars => StatusInv'
    BY TypeStep, FreshStep, KeyedStep, LoopStep, TruthStep DEF StatusInv
  <2>2. StatusInv /\ KeyInv /\ [Next]_vars => KeyInv'
    BY OnceStep, StatusKeyStep, HeldStep, EntryStep DEF KeyInv
  <2> QED
    BY <2>1, <2>2
<1> QED
  BY <1>1, <1>2, PTL DEF Spec

\* The seed of an existing user is generated once, wherever the operator dies or
\* a call fails between CreateSecret, RecordKey and Publish, for any number of
\* users, faults and edits: neither the key in its Secret nor the key in its
\* status is ever replaced.
THEOREM KeysGeneratedOnce == KeysKept => (Spec => KeyGeneratedOnce)
<1> SUFFICES ASSUME KeysKept PROVE Spec => KeyGeneratedOnce
  OBVIOUS
<1>1. StatusInv /\ KeyInv /\ [Next]_vars =>
         [\A u \in Users : user'[u].uid = user[u].uid =>
             /\ user[u].nkeyPublicKey # None =>
                    user'[u].nkeyPublicKey = user[u].nkeyPublicKey
             /\ secret[u] # NoSecret /\ secret[u].owner = user[u].uid =>
                    secret'[u].key = secret[u].key]_vars
  BY OnceGenerated
<1> QED
  BY <1>1, KeyInvariant, PTL DEF Spec, KeyGeneratedOnce

\* Every key in the published configuration whose user exists is the one of the
\* user's Secret, although the entry was collected from a copy of the Secret that
\* another step may have outdated.
THEOREM PublishedKeysAreHeld == KeysKept => (Spec => []PublishedKeyHeld)
<1> SUFFICES ASSUME KeysKept PROVE Spec => []PublishedKeyHeld
  OBVIOUS
<1>1. StatusInv /\ KeyInv => PublishedKeyHeld
  BY DEF KeyInv, EntryInv, EntryOf, PublishedKeyHeld
<1> QED
  BY <1>1, KeyInvariant, PTL



-----------------------------------------------------------------------------
(* Every user is served at rest, in the undisturbed environment.           *)

\* A prefix is in place before the entry is made.
LEMMA PreparedStep ==
    ASSUME TypeOK, CurInv, [Next]_vars,
           pc \in Prepared => (held.prefix = None) = copy[cur].insecure
    PROVE  (pc \in Prepared => (held.prefix = None) = copy[cur].insecure)'
<1> USE DEF TypeOK, Prepared, objVars, queueVars, localVars
<1>1. CASE ListUsers \/ Publish \/ RestartOperator
  BY <1>1, EndReconcileIs DEF ListUsers, Publish, RestartOperator
<1>2. CASE \E u \in Users : EvaluateRules(u)
  BY <1>2 DEF EvaluateRules, NextUser
<1>3. CASE GetSecret
  <2>1. cur \in Users /\ secret[cur] \in Secret /\ copy[cur].insecure \in BOOLEAN
    BY <1>3 DEF GetSecret, CurInv, InWork, User
  <2> QED
    BY <1>3, <2>1, EndReconcileIs DEF GetSecret, NeedsUpdate, Abort
<1>4. CASE UpdateSecret
  <2>1. held \in Secret /\ copy[cur] \in User
    BY <1>4 DEF UpdateSecret, CurInv, InWork
  <2>2. ~(Draws \subseteq InUse) =>
           (UpdatedSecret(held, copy[cur]).prefix = None) = copy[cur].insecure
    BY <2>1, UpdatedSecretIs
  <2> QED
    BY <1>4, <2>2, EndReconcileIs DEF UpdateSecret, StoreSecret, Abort
<1>5. CASE CreateSecret
  <2>1. copy[cur] \in User
    BY <1>5 DEF CreateSecret, CurInv, InWork
  <2>2. ~(Draws \subseteq InUse) =>
           (NewSecret(copy[cur]).prefix = None) = copy[cur].insecure
    BY <2>1, NewSecretIs
  <2> QED
    BY <1>5, <2>2, EndReconcileIs DEF CreateSecret, StoreSecret, Abort
<1>6. CASE RecordKey
  <2>1. cur \in Users /\ copy[cur] \in User
    BY <1>6 DEF RecordKey, CurInv, InWork
  <2> DEFINE c == [copy[cur] EXCEPT !.nkeyPublicKey = held.key]
  <2>2. c.insecure = copy[cur].insecure
    BY <2>1 DEF User
  <2> HIDE DEF c
  <2>3. CASE Abort
    BY <2>3, EndReconcileIs DEF Abort
  <2>4. CASE UNCHANGED <<cur, held>> /\ WriteUser(cur, c)
    BY <1>6, <2>1, <2>2, <2>4 DEF WriteUser, RecordKey
  <2>5. CASE UNCHANGED localVars
    BY <1>6, <2>5 DEF RecordKey
  <2> QED
    BY <1>6, <2>3, <2>4, <2>5 DEF RecordKey, c
<1>7. CASE SetReady
  BY <1>7 DEF SetReady, NextUser
<1>8. CASE \E u \in Users : UserEvent(u) \/ ChangePermission(u)
  BY <1>8 DEF UserEvent, ChangePermission
<1>9. CASE ConfigMapEvent \/ TimerFires \/ OtherEvent
  BY <1>9 DEF ConfigMapEvent, TimerFires, OtherEvent
<1>10. CASE \E u \in Users, o \in Overrides \cup {None}, i \in BOOLEAN :
              CreateUser(u, o, i) \/ EditUser(u, o, i)
  BY <1>10 DEF CreateUser, EditUser, ChangeUser
<1>11. CASE \E u \in Users : DeleteUser(u)
  BY <1>11 DEF DeleteUser, ChangeUser
<1>12. CASE \E u \in Users : CollectSecret(u) \/ DeleteSecret(u)
  BY <1>12 DEF CollectSecret, DeleteSecret, DropSecret
<1>13. CASE UNCHANGED vars
  BY <1>13 DEF vars
<1> QED
  BY <1>1, <1>2, <1>3, <1>4, <1>5, <1>6, <1>7, <1>8, <1>9, <1>10, <1>11, <1>12, <1>13
  DEF Next, Worker, UserStep

\* The environment of the runs on RestServed: users are edited and deleted and
\* rules change, calls fail and the operator restarts.
Undisturbed == Environment = {}

\* A user that leaves the loop is served by its entry, unless the reconcile
\* comes back.
LEMMA ServedStep ==
    Undisturbed /\ StatusInv /\ KeyInv /\ ServedInv /\ [Next]_vars => ServedInv'
<1> SUFFICES ASSUME Undisturbed, StatusInv, KeyInv, ServedInv, [Next]_vars
             PROVE  ServedInv'
  OBVIOUS
<1>1. /\ TypeOK /\ CurInv /\ FreshInv /\ KeyedInv /\ LoopInv
      /\ OnceInv /\ StatusKeyInv /\ HeldInv /\ ServedInv
  BY DEF StatusInv, KeyInv
<1> USE DEF TypeOK, objVars, queueVars, localVars
<1>2. (pc \in Prepared => (held.prefix = None) = copy[cur].insecure)'
  BY <1>1, PreparedStep DEF ServedInv
<1> DEFINE Rest == /\ pc \in InWork => permitted[cur]
                   /\ pc = "idle" => \A u \in Users : ServedBy(u, config[u])
                   /\ pc # "idle" => \/ statusUpdateFailed
                                     \/ \A u \in Users \ todo : ServedBy(u, entries[u])
<1>3. SUFFICES ASSUME ~Due' PROVE Rest'
  BY <1>2 DEF ServedInv
<1>4. ~ListUsers => Rest
  BY <1>1, <1>3, DueStays DEF ServedInv
<1>5. CASE ListUsers
  <2>1. /\ pc = "idle" /\ pc' = "users" /\ todo' = {u \in Users : cached[u].uid # 0}
        /\ UNCHANGED <<permitted, secret, entries, user>>
    BY <1>3, <1>5 DEF Due, ListUsers
  <2>2. \A u \in Users : cached[u] = user[u] /\ entries[u] = NoEntry
    BY <1>1, <1>3, <1>5, <2>1 DEF Due, ListUsers, FreshInv, LoopInv
  <2> QED
    BY <2>1, <2>2 DEF ServedBy, Entitled, InWork
<1>6. CASE /\ ~ListUsers
           /\ UNCHANGED <<permitted, user, config, pc, cur, todo, entries, statusUpdateFailed>>
           /\ \A u \in Users : secret'[u] = secret[u] \/ user[u].uid = 0
  BY <1>4, <1>6 DEF ServedBy, Entitled
<1>7. CASE Abort
  BY <1>3, <1>7 DEF Abort, Due
<1>8. ASSUME NEW u \in Users, NEW r \in Reasons, NEW e, pc # "idle", ~ListUsers,
             UNCHANGED <<permitted, secret>>,
             SetUserCondition(u, r), NextUser(u, e),
             \/ statusUpdateFailed'
             \/ IF user'[u].uid # 0 /\ permitted[u]
                THEN /\ secret[u] # NoSecret
                     /\ user'[u].nkeyPublicKey = secret[u].key
                     /\ user'[u].ready = "Reconciled"
                     /\ e = [key |-> secret[u].key, prefix |-> secret[u].prefix]
                     /\ (secret[u].prefix = None) = user'[u].insecure
                ELSE e = NoEntry
      PROVE  Rest'
  <2>1. \A v \in Users : v # u => user'[v] = user[v] /\ entries'[v] = entries[v]
    BY <1>1, <1>8, ConditionEffect DEF NextUser
  <2>2. statusUpdateFailed => statusUpdateFailed'
    BY <1>1, <1>8, ConditionEffect
  <2>3. pc' = "users" /\ todo' = todo \ {u} /\ entries'[u] = e
    BY <1>1, <1>8 DEF NextUser
  <2>4. ASSUME NEW v \in Users \ todo', ~statusUpdateFailed'
        PROVE  ServedBy(v, entries[v])'
    <3>1. CASE v = u
      BY <1>8, <2>3, <2>4, <3>1 DEF ServedBy, Entitled
    <3>2. CASE v # u
      <4>1. ServedBy(v, entries[v])
        BY <1>4, <1>8, <2>2, <2>3, <2>4, <3>2
      <4> QED
        BY <1>8, <2>1, <2>4, <3>2, <4>1 DEF ServedBy, Entitled
    <3> QED
      BY <3>1, <3>2
  <2> QED
    BY <2>3, <2>4 DEF InWork
<1>9. CASE \E u \in Users : EvaluateRules(u)
  <2>1. PICK u \in Users : EvaluateRules(u)
    BY <1>9
  <2>2. /\ pc = "users" /\ u \in todo /\ ~ListUsers
        /\ UNCHANGED <<permitted, secret, config>>
    BY <2>1 DEF EvaluateRules, ListUsers
  <2>3. CASE /\ permitted[u] /\ pc' = "get" /\ cur' = u
             /\ UNCHANGED <<objVars, todo, entries, statusUpdateFailed>>
    BY <1>4, <2>2, <2>3 DEF ServedBy, Entitled
  <2>4. CASE /\ ~permitted[u]
             /\ SetUserCondition(u, "NamespaceNotAllowed") /\ NextUser(u, NoEntry)
    BY <1>8, <2>2, <2>4 DEF Reasons
  <2> QED
    BY <2>1, <2>3, <2>4 DEF EvaluateRules, Undisturbed
<1>10. CASE GetSecret \/ UpdateSecret \/ CreateSecret
  <2>1. pc # "idle" /\ ~ListUsers /\ cur \in todo /\ pc \in InWork
    BY <1>1, <1>10 DEF GetSecret, UpdateSecret, CreateSecret, ListUsers, CurInv, InWork
  <2>2. CASE /\ pc' \in InWork
             /\ UNCHANGED <<permitted, user, config, todo, cur, entries, statusUpdateFailed>>
             /\ \A v \in Users \ {cur} : secret'[v] = secret[v]
    BY <1>4, <2>1, <2>2 DEF ServedBy, Entitled, InWork
  <2> QED
    BY <1>1, <1>7, <1>10, <2>2 DEF GetSecret, UpdateSecret, CreateSecret, StoreSecret, InWork
<1>11. CASE RecordKey
  <2>1. pc # "idle" /\ ~ListUsers /\ cur \in todo /\ pc \in InWork
    BY <1>1, <1>11 DEF RecordKey, ListUsers, CurInv, InWork
  <2>2. CASE /\ pc' = "ready"
             /\ UNCHANGED <<permitted, secret, config, todo, cur, entries, statusUpdateFailed>>
             /\ \A v \in Users \ {cur} : user'[v] = user[v]
    BY <1>4, <2>1, <2>2 DEF ServedBy, Entitled
  <2> QED
    BY <1>1, <1>7, <1>11, <2>2 DEF RecordKey, WriteUser, StoreUser
<1>12. CASE SetReady
  <2> DEFINE e == [key |-> held.key, prefix |-> held.prefix]
             c == [copy[cur] EXCEPT !.ready = "Reconciled"]
  <2>1. /\ pc = "ready" /\ cur \in todo /\ cur \in Users /\ ~ListUsers
        /\ SetUserCondition(cur, "Reconciled") /\ NextUser(cur, e)
        /\ UNCHANGED <<permitted, secret>>
    BY <1>1, <1>12 DEF SetReady, ListUsers, CurInv, InWork
  <2>2. statusUpdateFailed' \/ (copyFresh[cur] /\ user'[cur] = c)
    BY <1>1, <2>1, ConditionEffect DEF Reasons
  <2>3. /\ copy[cur] \in User /\ copy[cur].nkeyPublicKey = held.key /\ copy[cur].uid # 0
        /\ (held.prefix = None) = copy[cur].insecure /\ held.key # None
    BY <1>1, <2>1 DEF LoopInv, KeyedInv, HasHeld, ServedInv, Prepared
  <2>4. /\ c.uid = copy[cur].uid /\ c.nkeyPublicKey = copy[cur].nkeyPublicKey
        /\ c.insecure = copy[cur].insecure /\ c.ready = "Reconciled"
    BY <2>3 DEF User
  <2>5. permitted[cur]
    BY <1>4, <2>1 DEF InWork
  <2>6. copyFresh[cur] => held = secret[cur]
    BY <1>1, <2>1, <2>3 DEF FreshInv, HeldInv, HasHeld
  <2> HIDE DEF c
  <2>7. \/ statusUpdateFailed'
        \/ /\ secret[cur] # NoSecret
           /\ user'[cur].nkeyPublicKey = secret[cur].key
           /\ user'[cur].ready = "Reconciled" /\ user'[cur].uid # 0
           /\ e = [key |-> secret[cur].key, prefix |-> secret[cur].prefix]
           /\ (secret[cur].prefix = None) = user'[cur].insecure
    BY <2>2, <2>3, <2>4, <2>6, NoneIs
  <2> HIDE DEF e
  <2> QED
    BY <1>8, <2>1, <2>5, <2>7 DEF Reasons
<1>13. CASE Publish
  <2>1. /\ pc = "users" /\ todo = {} /\ pc' = "idle" /\ ~ListUsers
        /\ UNCHANGED <<user, permitted, secret>>
    BY <1>13 DEF Publish, EndReconcile, ListUsers
  <2>2. ~statusUpdateFailed /\ config' = entries
    BY <1>3, <1>13 DEF Publish, Due, RequeueAfter
  <2> QED
    BY <1>4, <2>1, <2>2 DEF ServedBy, Entitled, InWork
<1>14. CASE \E u \in Users : ChangePermission(u)
  BY <1>3, <1>14 DEF ChangePermission, Undisturbed, Due
<1>15. CASE \E u \in Users : CollectSecret(u)
  <2>1. PICK u \in Users : CollectSecret(u)
    BY <1>15
  <2>2. user[u].uid = 0
    BY <1>1, <2>1 DEF CollectSecret, DropSecret, OnceInv
  <2>3. ~ListUsers
    BY <2>1 DEF CollectSecret, DropSecret, ListUsers
  <2>4. /\ UNCHANGED <<permitted, user, config, pc, cur, todo, entries, statusUpdateFailed>>
        /\ \A v \in Users : secret'[v] = secret[v] \/ v = u
    BY <1>1, <2>1 DEF CollectSecret, DropSecret
  <2> QED
    BY <1>6, <2>2, <2>3, <2>4
<1>16. CASE \E u \in Users : DeleteSecret(u)
  BY <1>16 DEF DeleteSecret, Undisturbed
<1>17. CASE UNCHANGED vars
  BY <1>6, <1>17 DEF vars, ListUsers
<1> QED
  BY <1>1, <1>3, <1>5, <1>9, <1>10, <1>11, <1>12, <1>13, <1>14, <1>15, <1>16, <1>17,
     DueRaised
  DEF Next, Worker, UserStep

\* When the operator has come to rest every existing, permitted user has a Secret,
\* its key in the status, the condition Ready and an entry with the key and the
\* prefix of the Secret, with some prefix unless the spec shares the inbox, and
\* nobody else has an entry: for any number of users, edits, failed calls and restarts.
THEOREM RestIsServed == Undisturbed => (Spec => []RestServed)
<1> SUFFICES ASSUME Undisturbed PROVE Spec => []RestServed
  OBVIOUS
<1>1. KeysKept
  BY DEF Undisturbed, KeysKept
<1>2. Spec => [](StatusInv /\ KeyInv)
  BY <1>1, KeyInvariant
<1>3. Init => ServedInv
  BY DEF Init, ServedInv, InWork, Prepared, Due
<1>4. StatusInv /\ KeyInv /\ ServedInv /\ [Next]_vars => ServedInv'
  BY ServedStep
<1>5. ServedInv => RestServed
  BY DEF ServedInv, RestServed, Quiescent, Due, Served
<1> QED
  BY <1>2, <1>3, <1>4, <1>5, PTL DEF Spec
=============================================================================
