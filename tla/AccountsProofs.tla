---------------------------- MODULE AccountsProofs ----------------------------
(***************************************************************************)
(* Theorems about Accounts, for any clusters, accounts and users, any      *)
(* specs and initial objects and any bounds: the type invariant, what the  *)
(* configurations (RestRendered) and the status (RestTold) say when the    *)
(* operator has come to rest, and that configurations only change for a    *)
(* reason (Deterministic).                                                 *)
(***************************************************************************)
EXTENDS Accounts, FiniteSetTheorems, WellFoundedInduction, TLAPS

InWork(c) == pc # "idle" /\ cur = c

\* Copies in the caches marked current are the current object.
FreshInv ==
    /\ \A a \in Accounts : acctFresh[a] => acctCached[a] = account[a]
    /\ \A u \in Users : userFresh[u] => userCached[u] = user[u]

\* What a reconcile knows, whatever happened since it listed the accounts.
LoopInv ==
    /\ pc \in {"idle", "list"} => accountsWithUsers = NoSections
    /\ pc # "idle" => cur \in clusters
    /\ pc \in {"convert", "publish"} => todo = {}

\* What the caches say: the accounts of a cluster and the users of an account.
CachedAt(c) == {a \in Accounts : acctCached[a].cluster = c}
CachedUsers(a) == {u \in Users : userCached[u] = a}

\* f is what is to be rendered of the accounts as.
SectionsOf(f, as) ==
    /\ DOMAIN f = {a \in as : acctCached[a].validRegex}
    /\ \A a \in DOMAIN f : f[a] \in SortedByName(CachedUsers(a))

\* Unless the cluster is queued again, the lists of the reconcile in work are
\* what the caches say now, and so are the sections made from them.
ListInv ==
    pc # "idle" /\ cur \notin queue =>
        /\ \A a \in CachedAt(cur) : acctCopy[a] = acctCached[a]
        /\ todo \subseteq CachedAt(cur)
        /\ pc = "list" => todo = CachedAt(cur)
        /\ pc # "list" => \A a \in CachedAt(cur) : UsersOf(a) = CachedUsers(a)
        /\ SectionsOf(accountsWithUsers, CachedAt(cur) \ todo)

\* The configuration of a cluster that is neither queued nor in work is what the
\* caches say.
ConfigInv ==
    \A c \in clusters \ queue : InWork(c) \/ SectionsOf(config[c], CachedAt(c))

\* The account and its users know what was rendered of them.
AccountTold(a) ==
    IF acctCached[a].validRegex
    THEN /\ status[a] = [ready |-> "Reconciled", userCount |-> Cardinality(CachedUsers(a))]
         /\ \A u \in CachedUsers(a) : userFresh[u] => userReady[u]
    ELSE status[a].ready = "InvalidRegex"

\* Unless the cluster is queued or will be, each account that was processed knows.
ToldInv ==
    \A c \in clusters \ queue :
        \/ InWork(c) /\ statusUpdateFailed
        \/ \A a \in CachedAt(c) : \/ InWork(c) /\ a \in todo
                                  \/ acctFresh[a] => AccountTold(a)

\* Sections are functions to sorted sequences.
SectionsSorted(f) ==
    /\ f = [a \in DOMAIN f |-> f[a]]
    /\ \A a \in DOMAIN f : \E S \in SUBSET Users : f[a] \in SortedByName(S)

SortedInv == SectionsSorted(accountsWithUsers) /\ \A c \in Clusters : SectionsSorted(config[c])

-----------------------------------------------------------------------------
(* What the operators yield.                                               *)

\* Sets of users can be counted.
LEMMA CountIs ==
    ASSUME NEW S, S \subseteq Users
    PROVE  IsFiniteSet(S) /\ Cardinality(S) \in 0..Cardinality(Users)
BY ConstantsAssumption, FS_Subset, FS_CardinalityType

\* Sorting users yields a sequence of users in which each occurs once.
LEMMA SortedIs ==
    ASSUME NEW S, S \subseteq Users, NEW s \in SortedByName(S)
    PROVE  /\ s \in Seq(Users) /\ s \in [1..Cardinality(S) -> S]
           /\ Cardinality(S) \in Nat
           /\ \A i, j \in 1..Cardinality(S) : i # j => s[i] # s[j]
           /\ \A i, j \in 1..Cardinality(S) : i < j => Name[s[i]] <= Name[s[j]]
<1>1. Cardinality(S) \in Nat
  BY CountIs, ConstantsAssumption, FS_CardinalityType
<1>2. /\ s \in [1..Cardinality(S) -> S]
      /\ \A i, j \in 1..Cardinality(S) : i # j => s[i] # s[j]
      /\ \A i, j \in DOMAIN s : i < j => Name[s[i]] <= Name[s[j]]
  BY DEF SortedByName, SetToSeqs
<1>3. s \in Seq(Users)
  BY <1>1, <1>2
<1> QED
  BY <1>1, <1>2, <1>3

\* And every user occurs.
LEMMA SortedRange ==
    ASSUME NEW S, S \subseteq Users, NEW s \in SortedByName(S)
    PROVE  \A u \in S : \E i \in 1..Cardinality(S) : s[i] = u
<1> DEFINE n == Cardinality(S)
<1>1. /\ s \in [1..n -> S] /\ n \in Nat
      /\ \A i, j \in 1..n : i # j => s[i] # s[j]
  BY SortedIs
<1>2. s \in Injection(1..n, S)
  BY <1>1 DEF Injection, IsInjective
<1>3. IsFiniteSet(S) /\ IsFiniteSet(1..n) /\ Cardinality(1..n) = n
  BY <1>1, CountIs, FS_Interval
<1>4. s \in Surjection(1..n, S)
  BY <1>2, <1>3, FS_Injection
<1> QED
  BY <1>4 DEF Surjection

\* A set of numbers that is not empty has a least one.
LEMMA LeastNumber ==
    ASSUME NEW T, T \subseteq Nat, T # {}
    PROVE  \E m \in T : \A k \in T : m <= k
<1>1. \E m \in T : \A k \in T : ~(<<k, m>> \in OpToRel(<, Nat))
  BY WFMin, NatLessThanWellFounded
<1>2. PICK m \in T : \A k \in T : ~(<<k, m>> \in OpToRel(<, Nat))
  BY <1>1
<1>3. \A k \in T : ~(k < m)
  <2> TAKE k \in T
  <2>1. <<k, m>> \in Nat \X Nat /\ <<k, m>>[1] = k /\ <<k, m>>[2] = m
    OBVIOUS
  <2>2. k < m => <<k, m>> \in OpToRel(<, Nat)
    BY <2>1 DEF OpToRel
  <2> QED
    BY <1>2, <2>2
<1> QED
  BY <1>3

\* With unique names there is only one way to sort.
LEMMA SortedUnique ==
    ASSUME UniqueNames, NEW S, S \subseteq Users,
           NEW s \in SortedByName(S), NEW t \in SortedByName(S)
    PROVE  s = t
<1> DEFINE n == Cardinality(S)
           D == {i \in 1..n : s[i] # t[i]}
<1>1. /\ s \in [1..n -> S] /\ t \in [1..n -> S] /\ n \in Nat
      /\ \A i, j \in 1..n : i # j => s[i] # s[j] /\ t[i] # t[j]
      /\ \A i, j \in 1..n : i < j => Name[s[i]] <= Name[s[j]] /\ Name[t[i]] <= Name[t[j]]
  BY SortedIs
<1>2. \A u \in S : /\ \E i \in 1..n : s[i] = u
                   /\ \E i \in 1..n : t[i] = u
  BY SortedRange
<1> HIDE DEF n
<1>3. SUFFICES ASSUME D # {} PROVE FALSE
  BY <1>1
<1>4. PICK m \in D : \A k \in D : m <= k
  <2>1. D \subseteq Nat
    BY <1>1
  <2> HIDE DEF D
  <2> QED
    BY <1>3, <2>1, LeastNumber
<1>5. \A x, y \in S : Name[x] \in Nat /\ (Name[x] = Name[y] => x = y)
  BY ConstantsAssumption DEF UniqueNames
<1>6. PICK k \in 1..n : t[k] = s[m]
  BY <1>1, <1>2, <1>4
<1>7. PICK l \in 1..n : s[l] = t[m]
  BY <1>1, <1>2, <1>4
<1>8. m < k /\ m < l
  BY <1>1, <1>4, <1>6, <1>7
<1>9. Name[t[m]] <= Name[s[m]] /\ Name[s[m]] <= Name[t[m]]
  BY <1>1, <1>6, <1>7, <1>8
<1> QED
  BY <1>1, <1>4, <1>5, <1>9

\* Nothing is of its type.
LEMMA NoTypes == NoAccount \in Account /\ NoStatus \in Status /\ IsSections(NoSections)
<1>1. 0 \in 0..Cardinality(Users)
  BY CountIs
<1> QED
  BY <1>1 DEF NoAccount, NoStatus, Account, Status, IsSections, NoSections

\* Bounds are respected.
LEMMA FaultIs == ASSUME TypeOK, Fault PROVE faults' \in 0..MaxFaults
BY ConstantsAssumption DEF TypeOK, Fault

\* Edits are bounded as well.
LEMMA UpsetIs == ASSUME TypeOK, Upset PROVE upsets' \in 0..MaxUpsets
BY ConstantsAssumption DEF TypeOK, Upset

\* A failed call counts as a fault, within the bound.
LEMMA FailuresIs == ASSUME TypeOK, NEW F, Failures(F) PROVE faults' \in 0..MaxFaults
BY FaultIs DEF Failures, TypeOK

\* The local variables are reset.
LEMMA EndReconcileIs ==
    ASSUME EndReconcile
    PROVE  /\ pc' = "idle" /\ cur' \in Clusters \cup {None}
           /\ acctCopy' \in [Accounts -> Account] /\ userCopy' \in [Users -> Accounts \cup {None}]
           /\ acctHeld' \in [Accounts -> BOOLEAN] /\ userHeld' \in [Users -> BOOLEAN]
           /\ \A a \in Accounts : ~acctHeld'[a]
           /\ todo' = {} /\ accountsWithUsers' = NoSections /\ IsSections(accountsWithUsers')
           /\ DOMAIN accountsWithUsers' = {}
           /\ statusUpdateFailed' = FALSE
BY NoTypes DEF EndReconcile, NoSections

\* What a write of conditions does to each account.
LEMMA AccountEffect ==
    ASSUME TypeOK, NEW written, NEW failed, NEW done,
           SetAccountConditions(written, failed, done)
    PROVE  /\ DOMAIN status' = Accounts
           /\ acctFresh' \in [Accounts -> BOOLEAN] /\ acctHeld' \in [Accounts -> BOOLEAN]
           /\ \A a \in Accounts :
                 /\ \/ status'[a] = status[a]
                    \/ a \in DOMAIN written /\ acctHeld[a] /\ status'[a] = written[a]
                 /\ a \in DOMAIN written /\ acctHeld[a] /\ a \notin failed =>
                       status'[a] = written[a]
                 /\ acctFresh'[a] => acctFresh[a] /\ status'[a] = status[a]
                 /\ acctHeld'[a] => acctHeld[a]
           /\ status' = [a \in Accounts |-> status'[a]]
BY DEF SetAccountConditions, TypeOK

\* And to each user.
LEMMA UserEffect ==
    ASSUME TypeOK, NEW us, NEW failed, NEW done, SetUserConditions(us, failed, done)
    PROVE  /\ userReady' \in [Users -> BOOLEAN] /\ userFresh' \in [Users -> BOOLEAN]
           /\ \A u \in Users :
                 /\ userReady[u] => userReady'[u]
                 /\ u \in us /\ userHeld[u] /\ u \notin failed => userReady'[u]
                 /\ userFresh'[u] => userFresh[u]
BY DEF SetUserConditions, TypeOK

\* The status of an account is a status.
LEMMA AccountStatusIs ==
    ASSUME TypeOK, NEW a \in Accounts
    PROVE  AccountStatus(a) \in Status
<1>1. Cardinality(UsersOf(a)) \in 0..Cardinality(Users)
  BY CountIs DEF UsersOf
<1>2. status[a] \in Status
  BY DEF TypeOK
<1> QED
  BY <1>1, <1>2 DEF AccountStatus, Status

-----------------------------------------------------------------------------
(* Types.                                                                  *)

\* Sections stay sections when an account is added.
LEMMA AddedSections ==
    ASSUME NEW f, IsSections(f), NEW a \in Accounts, NEW D, D \subseteq DOMAIN f \cup {a},
           NEW us, us \subseteq Users, NEW s \in SortedByName(us)
    PROVE  IsSections([b \in D |-> IF b = a THEN s ELSE f[b]])
BY SortedIs DEF IsSections

\* Every step keeps the types.
LEMMA TypeStep == TypeOK /\ LoopInv /\ [Next]_vars => TypeOK'
<1> SUFFICES ASSUME TypeOK, LoopInv, [Next]_vars PROVE TypeOK'
  OBVIOUS
<1> USE DEF TypeOK, objVars, cacheVars, localVars
<1>1. CASE \E c \in Clusters : ListMatchingAccounts(c)
  <2>1. PICK c \in Clusters : ListMatchingAccounts(c)
    BY <1>1
  <2>2. CASE UNCHANGED <<pc, localVars>>
    BY <2>1, <2>2, FaultIs DEF ListMatchingAccounts
  <2>3. CASE /\ queue' = queue \ {c}
             /\ pc' = "list" /\ cur' = c
             /\ todo' = {a \in Accounts : acctCached[a].cluster = c}
             /\ acctCopy' = [a \in Accounts |-> IF a \in todo' THEN acctCached[a] ELSE NoAccount]
             /\ acctHeld' = [a \in Accounts |-> a \in todo' /\ acctFresh[a]]
             /\ UNCHANGED <<userCopy, userHeld, accountsWithUsers, statusUpdateFailed, faults>>
    <3>1. /\ acctCopy' \in [Accounts -> Account] /\ acctHeld' \in [Accounts -> BOOLEAN]
          /\ todo' \subseteq Accounts
      BY <2>3, NoTypes
    <3> QED
      BY <2>1, <2>3, <3>1 DEF ListMatchingAccounts
  <2> QED
    BY <2>1, <2>2, <2>3 DEF ListMatchingAccounts
<1>2. CASE ListAllUsers
  BY <1>2, EndReconcileIs, FaultIs DEF ListAllUsers, LoopInv
<1>3. CASE \E a \in Accounts : ProcessAccount(a)
  <2>1. PICK a \in Accounts : ProcessAccount(a)
    BY <1>3
  <2>2. CASE acctCopy[a].validRegex /\ EnsureNKeySecretFails(a)
    <3>1. PICK u \in UsersOf(a), S \in SUBSET UsersOf(a) :
             /\ Fault \/ (~userHeld[u] /\ UNCHANGED faults)
             /\ SetUserConditions(S, {}, {})
             /\ EndReconcile /\ queue' = queue \cup {cur}
             /\ UNCHANGED <<status, acctFresh>>
      BY <2>2 DEF EnsureNKeySecretFails
    <3>2. userReady' \in [Users -> BOOLEAN] /\ userFresh' \in [Users -> BOOLEAN]
      BY <3>1, UserEffect
    <3>3. faults' \in 0..MaxFaults
      BY <3>1, FaultIs
    <3>4. pc # "idle"
      BY <2>1 DEF ProcessAccount
    <3> QED
      BY <2>1, <3>1, <3>2, <3>3, <3>4, EndReconcileIs DEF ProcessAccount, LoopInv
  <2>3. CASE ~(acctCopy[a].validRegex /\ EnsureNKeySecretFails(a))
    <3> DEFINE us == IF acctCopy[a].validRegex THEN UsersOf(a) ELSE {}
    <3>1. us \subseteq Users
      BY DEF UsersOf
    <3>2. PICK failed \in SUBSET (us \cup {a}) : \E done \in SUBSET failed :
                /\ SetUserConditions(us, failed, done)
                /\ SetAccountConditions([b \in {a} |-> AccountStatus(b)], failed, done)
                /\ Failures(failed)
                /\ statusUpdateFailed' = (statusUpdateFailed \/ failed # {} \/ ~acctHeld[a]
                                             \/ \E u \in us : ~userHeld[u])
      BY <2>1, <2>3 DEF ProcessAccount
    <3>3. PICK done \in SUBSET failed :
                /\ SetUserConditions(us, failed, done)
                /\ SetAccountConditions([b \in {a} |-> AccountStatus(b)], failed, done)
      BY <3>2
    <3>4. PICK s \in SortedByName(us) :
                accountsWithUsers' =
                    [b \in DOMAIN accountsWithUsers \cup {d \in {a} : acctCopy[d].validRegex} |->
                        IF b = a THEN s ELSE accountsWithUsers[b]]
      BY <2>1, <2>3 DEF ProcessAccount
    <3>5. /\ todo' = todo \ {a} /\ pc' \in {"convert", pc}
          /\ UNCHANGED <<queue, cur, acctCopy, userCopy, userHeld>>
          /\ UNCHANGED <<clusters, account, user, acctCached, userCached, config, upsets>>
      BY <2>1, <2>3 DEF ProcessAccount
    <3> HIDE DEF us
    <3>6. IsSections(accountsWithUsers')
      <4> DEFINE D == DOMAIN accountsWithUsers \cup {d \in {a} : acctCopy[d].validRegex}
      <4>1. D \subseteq DOMAIN accountsWithUsers \cup {a}
        OBVIOUS
      <4> HIDE DEF D
      <4>2. accountsWithUsers' = [b \in D |-> IF b = a THEN s ELSE accountsWithUsers[b]]
        BY <3>4 DEF D
      <4>3. IsSections([b \in D |-> IF b = a THEN s ELSE accountsWithUsers[b]])
        BY <3>1, <3>4, <4>1, AddedSections
      <4> QED
        BY <4>2, <4>3
    <3>7. userReady' \in [Users -> BOOLEAN] /\ userFresh' \in [Users -> BOOLEAN]
      BY <3>3, UserEffect
    <3>8. /\ status' \in [Accounts -> Status]
          /\ acctFresh' \in [Accounts -> BOOLEAN] /\ acctHeld' \in [Accounts -> BOOLEAN]
      <4>1. AccountStatus(a) \in Status
        BY AccountStatusIs
      <4> DEFINE w == [b \in {a} |-> AccountStatus(b)]
      <4>2. DOMAIN w = {a} /\ w[a] = AccountStatus(a)
        OBVIOUS
      <4> HIDE DEF w
      <4>3. SetAccountConditions(w, failed, done)
        BY <3>3 DEF w
      <4>4. \A b \in Accounts : status'[b] \in Status
        BY <4>1, <4>2, <4>3, AccountEffect
      <4> QED
        BY <4>3, <4>4, AccountEffect
    <3>9. faults' \in 0..MaxFaults
      BY <3>2, FailuresIs
    <3>10. statusUpdateFailed' \in BOOLEAN
      BY <3>2
    <3> QED
      BY <3>5, <3>6, <3>7, <3>8, <3>9, <3>10
  <2> QED
    BY <2>2, <2>3
<1>4. CASE ReportConflicts
  <2>1. PICK failed \in SUBSET SystemAccountConflicts : \E done \in SUBSET failed :
          /\ SetAccountConditions(
                [a \in SystemAccountConflicts |-> ConflictStatus(a)], failed, done)
          /\ Failures(failed)
          /\ statusUpdateFailed' = (statusUpdateFailed \/ failed # {}
                                       \/ \E a \in SystemAccountConflicts : ~acctHeld[a])
    BY <1>4 DEF ReportConflicts
  <2> DEFINE w == [a \in SystemAccountConflicts |-> ConflictStatus(a)]
  <2>2. PICK done \in SUBSET failed : SetAccountConditions(w, failed, done)
    BY <2>1
  <2>3. SystemAccountConflicts \subseteq Accounts
    BY DEF SystemAccountConflicts, IsSections
  <2>4. \A a \in DOMAIN w : w[a] \in Status
    <3>1. \A a : Cardinality(UsersOf(a)) \in 0..Cardinality(Users)
      BY CountIs DEF UsersOf
    <3> QED
      BY <3>1 DEF ConflictStatus, Status
  <2> HIDE DEF w
  <2>5. \A b \in Accounts : status'[b] \in Status
    BY <2>2, <2>4, AccountEffect
  <2>6. /\ status' \in [Accounts -> Status]
        /\ acctFresh' \in [Accounts -> BOOLEAN] /\ acctHeld' \in [Accounts -> BOOLEAN]
    BY <2>2, <2>5, AccountEffect
  <2>7. faults' \in 0..MaxFaults /\ statusUpdateFailed' \in BOOLEAN
    BY <2>1, FailuresIs
  <2> QED
    BY <1>4, <2>6, <2>7 DEF ReportConflicts
<1>5. CASE Publish
  BY <1>5, EndReconcileIs, FaultIs DEF Publish, LoopInv
<1>6. CASE \E c \in Clusters : CreateCluster(c)
  BY <1>6, UpsetIs DEF CreateCluster
<1>7. CASE \E a \in Accounts, s \in Specs : EditAccount(a, s)
  BY <1>7, UpsetIs, NoTypes, StartAssumption DEF EditAccount
<1>8. CASE \E u \in Users, a \in Accounts \cup {None} : EditUser(u, a)
  BY <1>8, UpsetIs DEF EditUser
<1>9. CASE RestartOperator
  BY <1>9, EndReconcileIs, FaultIs DEF RestartOperator
<1>10. CASE \E a \in Accounts : AccountEvent(a)
  BY <1>10 DEF AccountEvent, MapAccountToCluster, Account
<1>11. CASE \E u \in Users : UserEvent(u)
  BY <1>11, FaultIs DEF UserEvent, MapUserToCluster, AllClustersInNamespace, Account
<1>12. CASE UNCHANGED vars
  BY <1>12 DEF vars
<1> QED
  BY <1>1, <1>2, <1>3, <1>4, <1>5, <1>6, <1>7, <1>8, <1>9, <1>10, <1>11, <1>12
  DEF Next, Worker, Edits

\* What an account without a status and an operator at its start have.
LEMMA TypeInit == Init => TypeOK /\ FreshInv /\ LoopInv
<1> SUFFICES ASSUME Init PROVE TypeOK /\ FreshInv /\ LoopInv
  OBVIOUS
<1>1. PICK s \in Start : clusters = s.clusters /\ account = s.account /\ user = s.user
  BY DEF Init
<1>2. /\ clusters \subseteq Clusters /\ account \in [Accounts -> Account]
      /\ user \in [Users -> Accounts \cup {None}]
  BY <1>1, StartAssumption
<1>3. upsets = 0 /\ faults = 0
  BY DEF Init
<1>4. upsets \in 0..MaxUpsets /\ faults \in 0..MaxFaults
  BY <1>3, ConstantsAssumption
<1> QED
  BY <1>2, <1>4, NoTypes DEF Init, TypeOK, FreshInv, LoopInv

-----------------------------------------------------------------------------
(* What the steps of a reconcile do.                                       *)

\* One turn of the account loop ends the reconcile and puts the cluster into the
\* queue again, or adds the account and tells it, or is going to come back.
LEMMA ProcessIs ==
    ASSUME TypeOK, NEW a \in Accounts, ProcessAccount(a)
    PROVE  /\ pc = "accounts" /\ a \in todo
           /\ UNCHANGED <<clusters, account, user, acctCached, userCached, config>>
           /\ \A u \in Users : /\ userReady[u] => userReady'[u]
                               /\ userFresh'[u] => userFresh[u]
           /\ \A b \in Accounts : acctFresh'[b] => acctFresh[b] /\ status'[b] = status[b]
           /\ \/ EndReconcile /\ queue' = queue \cup {cur}
              \/ /\ todo' = todo \ {a} /\ pc' = IF todo' = {} THEN "convert" ELSE "accounts"
                 /\ UNCHANGED <<queue, cur, acctCopy, userCopy>>
                 /\ statusUpdateFailed => statusUpdateFailed'
                 /\ \/ statusUpdateFailed'
                    \/ /\ status'[a] = AccountStatus(a)
                       /\ acctCopy[a].validRegex => \A u \in UsersOf(a) : userReady'[u]
                 /\ \E s \in SortedByName(IF acctCopy[a].validRegex THEN UsersOf(a) ELSE {}) :
                      accountsWithUsers' =
                       [b \in DOMAIN accountsWithUsers \cup {d \in {a} : acctCopy[d].validRegex} |->
                           IF b = a THEN s ELSE accountsWithUsers[b]]
<1>1. /\ pc = "accounts" /\ a \in todo
      /\ UNCHANGED <<clusters, account, user, acctCached, userCached, config>>
  BY DEF ProcessAccount
<1>2. CASE acctCopy[a].validRegex /\ EnsureNKeySecretFails(a)
  <2>1. PICK S \in SUBSET UsersOf(a) :
             /\ SetUserConditions(S, {}, {})
             /\ EndReconcile /\ queue' = queue \cup {cur}
             /\ UNCHANGED <<status, acctFresh>>
    BY <1>2 DEF EnsureNKeySecretFails
  <2> QED
    BY <1>1, <2>1, UserEffect
<1>3. CASE ~(acctCopy[a].validRegex /\ EnsureNKeySecretFails(a))
  <2> DEFINE us == IF acctCopy[a].validRegex THEN UsersOf(a) ELSE {}
             w == [b \in {a} |-> AccountStatus(b)]
  <2>1. PICK failed \in SUBSET (us \cup {a}) : \E done \in SUBSET failed :
                /\ SetUserConditions(us, failed, done)
                /\ SetAccountConditions(w, failed, done)
                /\ Failures(failed)
                /\ statusUpdateFailed' = (statusUpdateFailed \/ failed # {} \/ ~acctHeld[a]
                                             \/ \E u \in us : ~userHeld[u])
    BY <1>3 DEF ProcessAccount
  <2>2. PICK done \in SUBSET failed :
                SetUserConditions(us, failed, done) /\ SetAccountConditions(w, failed, done)
    BY <2>1
  <2>3. statusUpdateFailed' = (statusUpdateFailed \/ failed # {} \/ ~acctHeld[a]
                                             \/ \E u \in us : ~userHeld[u])
    BY <2>1
  <2>4. /\ todo' = todo \ {a} /\ pc' = IF todo' = {} THEN "convert" ELSE "accounts"
        /\ UNCHANGED <<queue, cur, acctCopy, userCopy>>
    BY <1>1, <1>3 DEF ProcessAccount
  <2>5. \E s \in SortedByName(us) :
                accountsWithUsers' =
                    [b \in DOMAIN accountsWithUsers \cup {d \in {a} : acctCopy[d].validRegex} |->
                        IF b = a THEN s ELSE accountsWithUsers[b]]
    BY <1>3 DEF ProcessAccount
  <2>6. us \subseteq Users /\ (acctCopy[a].validRegex => us = UsersOf(a))
    BY DEF UsersOf
  <2>7. a \in DOMAIN w /\ w[a] = AccountStatus(a)
    OBVIOUS
  <2> HIDE DEF us, w
  <2>8. /\ \A u \in Users : /\ userReady[u] => userReady'[u]
                            /\ userFresh'[u] => userFresh[u]
        /\ statusUpdateFailed' \/ \A u \in us : userReady'[u]
    BY <2>2, <2>3, <2>6, UserEffect
  <2>9. /\ \A b \in Accounts : acctFresh'[b] => acctFresh[b] /\ status'[b] = status[b]
        /\ statusUpdateFailed' \/ status'[a] = AccountStatus(a)
    <3>1. ~statusUpdateFailed' => failed = {} /\ acctHeld[a]
      BY <2>3
    <3>2. /\ \A b \in Accounts : acctFresh'[b] => acctFresh[b] /\ status'[b] = status[b]
          /\ failed = {} /\ acctHeld[a] => status'[a] = w[a]
      BY <2>2, <2>7, AccountEffect
    <3> QED
      BY <2>7, <3>1, <3>2
  <2>10. statusUpdateFailed => statusUpdateFailed'
    BY <2>3
  <2>11. statusUpdateFailed' \/ (acctCopy[a].validRegex => \A u \in UsersOf(a) : userReady'[u])
    BY <2>6, <2>8
  <2> QED
    BY <1>1, <2>4, <2>5, <2>8, <2>9, <2>10, <2>11 DEF us
<1> QED
  BY <1>2, <1>3

\* Telling accounts of a conflict changes nothing else.
LEMMA ReportIs ==
    ASSUME TypeOK, ReportConflicts
    PROVE  /\ pc = "convert" /\ pc' = "publish"
           /\ UNCHANGED <<clusters, account, user, userReady, acctCached, userCached, userFresh,
                          config, queue, cur, acctCopy, userCopy, todo, accountsWithUsers>>
           /\ statusUpdateFailed => statusUpdateFailed'
           /\ \A b \in Accounts : acctFresh'[b] => acctFresh[b] /\ status'[b] = status[b]
<1> DEFINE w == [a \in SystemAccountConflicts |-> ConflictStatus(a)]
<1>1. PICK failed, done : SetAccountConditions(w, failed, done)
  BY DEF ReportConflicts
<1> HIDE DEF w
<1>2. \A b \in Accounts : acctFresh'[b] => acctFresh[b] /\ status'[b] = status[b]
  BY <1>1, AccountEffect
<1> QED
  BY <1>2 DEF ReportConflicts

\* Copies marked current stay current.
LEMMA FreshStep == TypeOK /\ FreshInv /\ [Next]_vars => FreshInv'
<1> SUFFICES ASSUME TypeOK, FreshInv, [Next]_vars PROVE FreshInv'
  OBVIOUS
<1> USE DEF TypeOK, FreshInv, objVars, cacheVars, localVars
<1>1. CASE \E c \in Clusters : ListMatchingAccounts(c)
  BY <1>1 DEF ListMatchingAccounts
<1>2. CASE ListAllUsers \/ Publish
  BY <1>2 DEF ListAllUsers, Publish
<1>3. CASE \E a \in Accounts : ProcessAccount(a)
  BY <1>3, ProcessIs
<1>4. CASE ReportConflicts
  BY <1>4, ReportIs
<1>5. CASE \E c \in Clusters : CreateCluster(c)
  BY <1>5 DEF CreateCluster
<1>6. CASE \E a \in Accounts, s \in Specs : EditAccount(a, s)
  BY <1>6 DEF EditAccount
<1>7. CASE \E u \in Users, a \in Accounts \cup {None} : EditUser(u, a)
  BY <1>7 DEF EditUser
<1>8. CASE RestartOperator
  BY <1>8 DEF RestartOperator
<1>9. CASE \E a \in Accounts : AccountEvent(a)
  BY <1>9 DEF AccountEvent
<1>10. CASE \E u \in Users : UserEvent(u)
  BY <1>10 DEF UserEvent
<1>11. CASE UNCHANGED vars
  BY <1>11 DEF vars
<1> QED
  BY <1>1, <1>2, <1>3, <1>4, <1>5, <1>6, <1>7, <1>8, <1>9, <1>10, <1>11
  DEF Next, Worker, Edits

\* The list of accounts is worked off before sections are published.
LEMMA LoopStep == TypeOK /\ LoopInv /\ [Next]_vars => LoopInv'
<1> SUFFICES ASSUME TypeOK, LoopInv, [Next]_vars PROVE LoopInv'
  OBVIOUS
<1> USE DEF TypeOK, LoopInv, objVars, cacheVars, localVars
<1>1. CASE \E c \in Clusters : ListMatchingAccounts(c)
  BY <1>1 DEF ListMatchingAccounts
<1>2. CASE ListAllUsers \/ Publish \/ RestartOperator
  BY <1>2, EndReconcileIs DEF ListAllUsers, Publish, RestartOperator
<1>3. CASE \E a \in Accounts : ProcessAccount(a)
  <2>1. PICK a \in Accounts : ProcessAccount(a)
    BY <1>3
  <2>2. pc = "accounts" /\ clusters' = clusters
    BY <2>1, ProcessIs
  <2>3. CASE EndReconcile
    BY <2>3, EndReconcileIs
  <2>4. CASE pc' = (IF todo' = {} THEN "convert" ELSE "accounts") /\ cur' = cur
    BY <2>2, <2>4
  <2> QED
    BY <2>1, <2>3, <2>4, ProcessIs
<1>4. CASE ReportConflicts
  BY <1>4, ReportIs
<1>5. CASE \E c \in Clusters : CreateCluster(c)
  BY <1>5 DEF CreateCluster
<1>6. CASE \E a \in Accounts, s \in Specs : EditAccount(a, s)
  BY <1>6 DEF EditAccount
<1>7. CASE \E u \in Users, a \in Accounts \cup {None} : EditUser(u, a)
  BY <1>7 DEF EditUser
<1>8. CASE \E a \in Accounts : AccountEvent(a)
  BY <1>8 DEF AccountEvent
<1>9. CASE \E u \in Users : UserEvent(u)
  BY <1>9 DEF UserEvent
<1>10. CASE UNCHANGED vars
  BY <1>10 DEF vars
<1> QED
  BY <1>1, <1>2, <1>3, <1>4, <1>5, <1>6, <1>7, <1>8, <1>9, <1>10
  DEF Next, Worker, Edits

\* Objects, copies, configurations and local variables stay within their types.
THEOREM TypeCorrect == Spec => []TypeOK
<1>1. Init => TypeOK /\ LoopInv
  BY TypeInit
<1>2. TypeOK /\ LoopInv /\ [Next]_vars => (TypeOK /\ LoopInv)'
  BY TypeStep, LoopStep
<1> QED
  BY <1>1, <1>2, PTL DEF Spec

-----------------------------------------------------------------------------
(* The configurations follow the caches.                                   *)

\* An event that changes what the caches say of a cluster enqueues it, also when
\* the look-up of a user's account fails.
LEMMA CacheStep ==
    ASSUME TypeOK, [Next]_vars, NEW c \in clusters, c \notin queue'
    PROVE  /\ CachedAt(c)' = CachedAt(c)
           /\ \A a \in CachedAt(c) :
                 acctCached'[a] = acctCached[a] /\ CachedUsers(a)' = CachedUsers(a)
<1> USE DEF TypeOK, CachedAt, CachedUsers, objVars, cacheVars, localVars
<1>1. CASE UNCHANGED <<acctCached, userCached>>
  BY <1>1
<1>2. CASE \E a \in Accounts : AccountEvent(a)
  <2>1. PICK a \in Accounts : AccountEvent(a)
    BY <1>2
  <2>2. acctCached[a].cluster # c /\ account[a].cluster # c
    BY <2>1, ConstantsAssumption DEF AccountEvent, MapAccountToCluster
  <2> QED
    BY <2>1, <2>2 DEF AccountEvent
<1>3. CASE \E u \in Users : UserEvent(u)
  <2>1. PICK u \in Users : UserEvent(u)
    BY <1>3
  <2>2. queue' = queue \cup MapUserToCluster(userCached[u]) \cup MapUserToCluster(user[u])
    BY <2>1 DEF UserEvent, AllClustersInNamespace
  <2>3. ASSUME NEW a \in CachedAt(c) PROVE userCached[u] # a /\ user[u] # a
    <3>1. a # None /\ c # None
      BY ConstantsAssumption
    <3>2. MapUserToCluster(a) = {c}
      BY <3>1 DEF MapUserToCluster
    <3> QED
      BY <2>2, <3>2
  <2>4. /\ acctCached' = acctCached
        /\ userCached' = [userCached EXCEPT ![u] = user[u]]
    BY <2>1 DEF UserEvent
  <2> QED
    BY <2>3, <2>4
<1>4. CASE RestartOperator
  BY <1>4 DEF RestartOperator
<1>5. CASE \E a \in Accounts : ProcessAccount(a)
  BY <1>1, <1>5, ProcessIs
<1>6. CASE ReportConflicts
  BY <1>1, <1>6, ReportIs
<1>7. CASE \E d \in Clusters : ListMatchingAccounts(d) \/ CreateCluster(d)
  BY <1>1, <1>7 DEF ListMatchingAccounts, CreateCluster
<1>8. CASE ListAllUsers \/ Publish
  BY <1>1, <1>8 DEF ListAllUsers, Publish
<1>9. CASE \E a \in Accounts, s \in Specs : EditAccount(a, s)
  BY <1>1, <1>9 DEF EditAccount
<1>10. CASE \E u \in Users, a \in Accounts \cup {None} : EditUser(u, a)
  BY <1>1, <1>10 DEF EditUser
<1>11. CASE UNCHANGED vars
  BY <1>1, <1>11 DEF vars
<1> QED
  BY <1>2, <1>3, <1>4, <1>5, <1>6, <1>7, <1>8, <1>9, <1>10, <1>11 DEF Next, Worker, Edits


\* A cluster leaves the queue when the worker takes it; a new one is in it.
LEMMA QueueStep ==
    ASSUME TypeOK, [Next]_vars, NEW c \in clusters \cup clusters', c \notin queue'
    PROVE  c \in clusters /\ (c \notin queue \/ ListMatchingAccounts(c))
<1> USE DEF TypeOK, objVars, cacheVars, localVars
<1>1. CASE \E d \in Clusters : ListMatchingAccounts(d)
  BY <1>1 DEF ListMatchingAccounts
<1>2. CASE ListAllUsers
  BY <1>2 DEF ListAllUsers
<1>3. CASE \E a \in Accounts : ProcessAccount(a)
  BY <1>3, ProcessIs
<1>4. CASE ReportConflicts
  BY <1>4, ReportIs
<1>5. CASE Publish
  BY <1>5 DEF Publish
<1>6. CASE \E d \in Clusters : CreateCluster(d)
  BY <1>6 DEF CreateCluster
<1>7. CASE \E a \in Accounts, s \in Specs : EditAccount(a, s)
  BY <1>7 DEF EditAccount
<1>8. CASE \E u \in Users, a \in Accounts \cup {None} : EditUser(u, a)
  BY <1>8 DEF EditUser
<1>9. CASE RestartOperator
  BY <1>9 DEF RestartOperator
<1>10. CASE \E a \in Accounts : AccountEvent(a)
  BY <1>10 DEF AccountEvent
<1>11. CASE \E u \in Users : UserEvent(u)
  BY <1>11 DEF UserEvent
<1>12. CASE UNCHANGED vars
  BY <1>12 DEF vars
<1> QED
  BY <1>1, <1>2, <1>3, <1>4, <1>5, <1>6, <1>7, <1>8, <1>9, <1>10, <1>11, <1>12
  DEF Next, Worker, Edits

\* A reconcile that does not come back goes on, or publishes.
LEMMA WorkStep ==
    ASSUME TypeOK, LoopInv, [Next]_vars, NEW c \in clusters, InWork(c), c \notin queue', ~Publish
    PROVE  /\ InWork(c)'
           /\ statusUpdateFailed => statusUpdateFailed'
           /\ \/ todo' = todo
              \/ \E b \in Accounts : ProcessAccount(b) /\ todo' = todo \ {b}
<1> USE DEF TypeOK, InWork, objVars, cacheVars, localVars
<1>1. CASE \E d \in Clusters : ListMatchingAccounts(d)
  BY <1>1 DEF ListMatchingAccounts
<1>2. CASE ListAllUsers
  BY <1>2 DEF ListAllUsers
<1>3. CASE \E a \in Accounts : ProcessAccount(a)
  <2>1. PICK a \in Accounts : ProcessAccount(a)
    BY <1>3
  <2>2. /\ todo' = todo \ {a} /\ pc' = IF todo' = {} THEN "convert" ELSE "accounts"
        /\ cur' = cur /\ (statusUpdateFailed => statusUpdateFailed')
    BY <2>1, ProcessIs
  <2> QED
    BY <2>1, <2>2
<1>4. CASE ReportConflicts
  BY <1>4, ReportIs
<1>5. CASE \E d \in Clusters : CreateCluster(d)
  BY <1>5 DEF CreateCluster
<1>6. CASE \E a \in Accounts, s \in Specs : EditAccount(a, s)
  BY <1>6 DEF EditAccount
<1>7. CASE \E u \in Users, a \in Accounts \cup {None} : EditUser(u, a)
  BY <1>7 DEF EditUser
<1>8. CASE RestartOperator
  BY <1>8 DEF RestartOperator
<1>9. CASE \E a \in Accounts : AccountEvent(a)
  BY <1>9 DEF AccountEvent
<1>10. CASE \E u \in Users : UserEvent(u)
  BY <1>10 DEF UserEvent
<1>11. CASE UNCHANGED vars
  BY <1>11 DEF vars
<1> QED
  BY <1>1, <1>2, <1>3, <1>4, <1>5, <1>6, <1>7, <1>8, <1>9, <1>10, <1>11
  DEF Next, Worker, Edits

\* Configurations are only written at the end of a reconcile.
LEMMA ConfigKept == ASSUME TypeOK, [Next]_vars, ~Publish PROVE config' = config
<1> USE DEF objVars, cacheVars, localVars
<1>1. CASE \E a \in Accounts : ProcessAccount(a)
  BY <1>1, ProcessIs
<1>2. CASE ReportConflicts
  BY <1>2, ReportIs
<1>3. CASE UNCHANGED vars
  BY <1>3 DEF vars
<1> QED
  BY <1>1, <1>2, <1>3 DEF Next, Worker, Edits, ListMatchingAccounts, ListAllUsers, CreateCluster,
     EditAccount, EditUser, RestartOperator, AccountEvent, UserEvent

\* Sections stay what the caches say as long as those say the same.
LEMMA SectionsKept ==
    ASSUME NEW f, NEW as, SectionsOf(f, as),
           \A a \in as : acctCached'[a] = acctCached[a] /\ CachedUsers(a)' = CachedUsers(a)
    PROVE  /\ DOMAIN f = {a \in as : acctCached'[a].validRegex}
           /\ \A a \in DOMAIN f : f[a] \in SortedByName(CachedUsers(a)')
BY DEF SectionsOf

\* What a reconcile listed stays what the caches say, unless an event for the
\* cluster follows.
LEMMA ListStep == TypeOK /\ LoopInv /\ ListInv /\ [Next]_vars => ListInv'
<1> SUFFICES ASSUME TypeOK, LoopInv, ListInv, [Next]_vars, pc' # "idle", cur' \notin queue'
             PROVE  /\ \A a \in CachedAt(cur)' : acctCopy'[a] = acctCached'[a]
                    /\ todo' \subseteq CachedAt(cur)'
                    /\ pc' = "list" => todo' = CachedAt(cur)'
                    /\ pc' # "list" => \A a \in CachedAt(cur)' : UsersOf(a)' = CachedUsers(a)'
                    /\ SectionsOf(accountsWithUsers, CachedAt(cur) \ todo)'
  BY DEF ListInv
<1> USE DEF TypeOK, objVars, cacheVars, localVars
<1>1. CASE \E c \in Clusters : ListMatchingAccounts(c)
  <2>1. PICK c \in Clusters : ListMatchingAccounts(c)
    BY <1>1
  <2>2. /\ pc = "idle" /\ pc' = "list" /\ cur' = c /\ todo' = CachedAt(c)
        /\ acctCopy' = [a \in Accounts |-> IF a \in todo' THEN acctCached[a] ELSE NoAccount]
        /\ accountsWithUsers' = accountsWithUsers
        /\ acctCached' = acctCached /\ userCached' = userCached
    BY <2>1 DEF ListMatchingAccounts, CachedAt
  <2>3. accountsWithUsers = NoSections
    BY <2>2 DEF LoopInv
  <2> QED
    BY <2>2, <2>3 DEF CachedAt, SectionsOf, NoSections
<1>2. CASE ListAllUsers
  <2>1. /\ pc = "list" /\ pc' # "list" /\ userCopy' = userCached
        /\ UNCHANGED <<queue, cur, acctCopy, todo, accountsWithUsers, acctCached, userCached>>
    BY <1>2 DEF ListAllUsers, EndReconcile
  <2> QED
    BY <2>1 DEF ListInv, CachedAt, UsersOf, CachedUsers, SectionsOf
<1>3. CASE \E a \in Accounts : ProcessAccount(a)
  <2>1. PICK a \in Accounts : ProcessAccount(a)
    BY <1>3
  <2>2. /\ pc = "accounts" /\ a \in todo /\ UNCHANGED <<acctCached, userCached>>
        /\ ~EndReconcile
    BY <2>1, ProcessIs DEF EndReconcile
  <2>3. /\ todo' = todo \ {a} /\ pc' \in {"convert", "accounts"}
        /\ UNCHANGED <<queue, cur, acctCopy, userCopy>>
    BY <2>1, <2>2, ProcessIs
  <2>4. PICK s \in SortedByName(IF acctCopy[a].validRegex THEN UsersOf(a) ELSE {}) :
                accountsWithUsers' =
                  [b \in DOMAIN accountsWithUsers \cup {d \in {a} : acctCopy[d].validRegex} |->
                      IF b = a THEN s ELSE accountsWithUsers[b]]
    BY <2>1, <2>2, ProcessIs
  <2>5. /\ \A b \in CachedAt(cur) : acctCopy[b] = acctCached[b]
        /\ todo \subseteq CachedAt(cur)
        /\ \A b \in CachedAt(cur) : UsersOf(b) = CachedUsers(b)
        /\ SectionsOf(accountsWithUsers, CachedAt(cur) \ todo)
    BY <2>2, <2>3 DEF ListInv
  <2>6. CachedAt(cur)' = CachedAt(cur) /\ \A b : CachedUsers(b)' = CachedUsers(b) /\ UsersOf(b)' = UsersOf(b)
    BY <2>2, <2>3 DEF CachedAt, CachedUsers, UsersOf
  <2>7. DOMAIN accountsWithUsers' = {b \in CachedAt(cur) \ todo' : acctCached[b].validRegex}
    BY <2>2, <2>3, <2>4, <2>5 DEF SectionsOf
  <2>8. \A b \in DOMAIN accountsWithUsers' : accountsWithUsers'[b] \in SortedByName(CachedUsers(b))
    BY <2>2, <2>3, <2>4, <2>5 DEF SectionsOf
  <2>9. SectionsOf(accountsWithUsers, CachedAt(cur) \ todo)'
    BY <2>2, <2>6, <2>7, <2>8 DEF SectionsOf
  <2> QED
    BY <2>2, <2>3, <2>5, <2>6, <2>9
<1>4. CASE Publish \/ RestartOperator
  BY <1>4 DEF Publish, RestartOperator, EndReconcile
<1>5. ASSUME pc # "idle", pc = "list" <=> pc' = "list",
             UNCHANGED <<cur, acctCopy, userCopy, todo, accountsWithUsers>>
      PROVE  ListInv'
  <2>1. PICK c \in clusters : c = cur /\ c \notin queue'
    BY <1>5 DEF LoopInv
  <2>2. c \notin queue
    BY <1>5, <2>1, QueueStep DEF ListMatchingAccounts
  <2>3. /\ CachedAt(c)' = CachedAt(c)
        /\ \A a \in CachedAt(c) :
              acctCached'[a] = acctCached[a] /\ CachedUsers(a)' = CachedUsers(a)
    BY <2>1, CacheStep
  <2>4. /\ \A a \in CachedAt(c) : acctCopy[a] = acctCached[a]
        /\ todo \subseteq CachedAt(c)
        /\ pc = "list" => todo = CachedAt(c)
        /\ pc # "list" => \A a \in CachedAt(c) : UsersOf(a) = CachedUsers(a)
        /\ SectionsOf(accountsWithUsers, CachedAt(c) \ todo)
    BY <1>5, <2>1, <2>2 DEF ListInv
  <2>5. \A a : UsersOf(a)' = UsersOf(a)
    BY <1>5 DEF UsersOf
  <2>6. CachedAt(cur)' = CachedAt(c)
    BY <1>5, <2>1, <2>3 DEF CachedAt
  <2>7. SectionsOf(accountsWithUsers, CachedAt(cur) \ todo)'
    BY <1>5, <2>3, <2>4, <2>6, SectionsKept DEF SectionsOf
  <2> QED
    BY <1>5, <2>3, <2>4, <2>5, <2>6, <2>7 DEF ListInv
<1>6. ListInv' => /\ \A a \in CachedAt(cur)' : acctCopy'[a] = acctCached'[a]
                  /\ todo' \subseteq CachedAt(cur)'
                  /\ pc' = "list" => todo' = CachedAt(cur)'
                  /\ pc' # "list" => \A a \in CachedAt(cur)' : UsersOf(a)' = CachedUsers(a)'
                  /\ SectionsOf(accountsWithUsers, CachedAt(cur) \ todo)'
  BY DEF ListInv
<1>7. CASE ReportConflicts
  BY <1>5, <1>6, <1>7, ReportIs
<1>8. CASE \E c \in Clusters : CreateCluster(c)
  BY <1>5, <1>6, <1>8 DEF CreateCluster
<1>9. CASE \E a \in Accounts, s \in Specs : EditAccount(a, s)
  BY <1>5, <1>6, <1>9 DEF EditAccount
<1>10. CASE \E u \in Users, a \in Accounts \cup {None} : EditUser(u, a)
  BY <1>5, <1>6, <1>10 DEF EditUser
<1>11. CASE \E a \in Accounts : AccountEvent(a)
  BY <1>5, <1>6, <1>11 DEF AccountEvent
<1>12. CASE \E u \in Users : UserEvent(u)
  BY <1>5, <1>6, <1>12 DEF UserEvent
<1>13. CASE UNCHANGED vars
  BY <1>5, <1>6, <1>13 DEF vars
<1> QED
  BY <1>1, <1>2, <1>3, <1>4, <1>7, <1>8, <1>9, <1>10, <1>11, <1>12, <1>13
  DEF Next, Worker, Edits

\* What is rendered stays what the caches say, unless another reconcile is due.
LEMMA ConfigStep == TypeOK /\ LoopInv /\ ListInv /\ ConfigInv /\ [Next]_vars => ConfigInv'
<1> SUFFICES ASSUME TypeOK, LoopInv, ListInv, ConfigInv, [Next]_vars,
                    NEW c \in clusters', c \notin queue', ~InWork(c)'
             PROVE  SectionsOf(config[c], CachedAt(c))'
  BY DEF ConfigInv
<1>1. c \in clusters /\ (c \notin queue \/ ListMatchingAccounts(c))
  BY QueueStep
<1>2. c \notin queue
  BY <1>1 DEF ListMatchingAccounts, InWork
<1>3. /\ CachedAt(c)' = CachedAt(c)
      /\ \A a \in CachedAt(c) :
            acctCached'[a] = acctCached[a] /\ CachedUsers(a)' = CachedUsers(a)
  BY <1>1, CacheStep
<1>4. \E f : f = config'[c] /\ SectionsOf(f, CachedAt(c))
  <2>1. CASE InWork(c)
    <3>1. Publish
      BY <1>1, <2>1, WorkStep
    <3>2. config' = [config EXCEPT ![cur] = accountsWithUsers] /\ cur = c
      BY <2>1, <3>1 DEF Publish, InWork
    <3>3. config'[c] = accountsWithUsers
      BY <1>1, <3>2 DEF TypeOK
    <3>4. todo = {} /\ pc # "idle"
      BY <3>1 DEF Publish, LoopInv
    <3>5. SectionsOf(accountsWithUsers, CachedAt(c) \ todo)
      BY <1>2, <3>2, <3>4 DEF ListInv
    <3>6. CachedAt(c) \ todo = CachedAt(c)
      BY <3>4
    <3> QED
      BY <3>3, <3>5, <3>6
  <2>2. CASE ~InWork(c)
    <3>1. SectionsOf(config[c], CachedAt(c))
      BY <1>1, <1>2, <2>2 DEF ConfigInv
    <3>2. CASE Publish
      <4>1. cur # c
        BY <2>2, <3>2 DEF Publish, InWork
      <4>2. config' = config \/ config' = [config EXCEPT ![cur] = accountsWithUsers]
        BY <3>2 DEF Publish
      <4> QED
        BY <1>1, <3>1, <4>1, <4>2 DEF TypeOK
    <3>3. CASE ~Publish
      BY <3>1, <3>3, ConfigKept
    <3> QED
      BY <3>2, <3>3
  <2> QED
    BY <2>1, <2>2
<1>5. PICK f : f = config'[c] /\ SectionsOf(f, CachedAt(c))
  BY <1>4
<1> QED
  BY <1>3, <1>5, SectionsKept DEF SectionsOf

\* When the operator has come to rest each configuration has the accounts of its
\* cluster and their users and no others.
THEOREM RestIsRendered == Spec => []RestRendered
<1> DEFINE I == TypeOK /\ FreshInv /\ LoopInv /\ ListInv /\ ConfigInv
<1>1. Init => I
  <2>1. Init => ListInv /\ ConfigInv
    BY DEF Init, ListInv, ConfigInv
  <2> QED
    BY <2>1, TypeInit
<1>2. I /\ [Next]_vars => I'
  BY TypeStep, FreshStep, LoopStep, ListStep, ConfigStep
<1>3. I => RestRendered
  <2> SUFFICES ASSUME I, Quiescent, NEW c \in clusters
               PROVE  /\ DOMAIN config[c] = {a \in Accounts : Attached(a, c)}
                      /\ \A a \in DOMAIN config[c] : config[c][a] \in SortedByName(Members(a))
    BY DEF RestRendered
  <2>1. SectionsOf(config[c], CachedAt(c))
    BY DEF ConfigInv, Quiescent, InWork
  <2>2. /\ \A a \in Accounts : acctCached[a] = account[a]
        /\ \A u \in Users : userCached[u] = user[u]
    BY DEF FreshInv, Quiescent
  <2>3. CachedAt(c) = {a \in Accounts : account[a].cluster = c}
    BY <2>2 DEF CachedAt
  <2>4. \A a : CachedUsers(a) = Members(a)
    BY <2>2 DEF CachedUsers, Members
  <2> QED
    BY <2>1, <2>2, <2>3, <2>4 DEF SectionsOf, Attached
<1> QED
  BY <1>1, <1>2, <1>3, PTL DEF Spec

-----------------------------------------------------------------------------
(* Accounts and users are told.                                            *)

\* What an account was told stays true as long as the caches say the same: a write
\* makes its copy outdated, and the event of a user enqueues the cluster.
LEMMA ToldKept ==
    ASSUME TypeOK, [Next]_vars, NEW c \in clusters, c \notin queue', NEW a \in CachedAt(c)
    PROVE  /\ acctFresh'[a] => acctFresh[a] /\ status'[a] = status[a]
           /\ \A u \in CachedUsers(a) :
                 userFresh'[u] => userFresh[u] /\ (userReady[u] => userReady'[u])
<1> USE DEF TypeOK, CachedAt, CachedUsers, objVars, cacheVars, localVars
<1>1. CASE \E d \in Clusters : ListMatchingAccounts(d) \/ CreateCluster(d)
  BY <1>1 DEF ListMatchingAccounts, CreateCluster
<1>2. CASE ListAllUsers \/ Publish
  BY <1>2 DEF ListAllUsers, Publish
<1>3. CASE \E b \in Accounts : ProcessAccount(b)
  BY <1>3, ProcessIs
<1>4. CASE ReportConflicts
  BY <1>4, ReportIs
<1>5. CASE \E b \in Accounts, s \in Specs : EditAccount(b, s)
  BY <1>5 DEF EditAccount
<1>6. CASE \E u \in Users, b \in Accounts \cup {None} : EditUser(u, b)
  BY <1>6 DEF EditUser
<1>7. CASE RestartOperator
  BY <1>7 DEF RestartOperator
<1>8. CASE \E b \in Accounts : AccountEvent(b)
  <2>1. PICK b \in Accounts : AccountEvent(b)
    BY <1>8
  <2>2. acctCached[b].cluster # c
    BY <2>1, ConstantsAssumption DEF AccountEvent, MapAccountToCluster
  <2> QED
    BY <2>1, <2>2 DEF AccountEvent
<1>9. CASE \E u \in Users : UserEvent(u)
  <2>1. PICK u \in Users : UserEvent(u)
    BY <1>9
  <2>2. a # None /\ c # None
    BY ConstantsAssumption
  <2>3. MapUserToCluster(a) = {c}
    BY <2>2 DEF MapUserToCluster
  <2>4. userCached[u] # a
    BY <2>1, <2>3 DEF UserEvent, AllClustersInNamespace
  <2> QED
    BY <2>1, <2>4 DEF UserEvent
<1>10. CASE UNCHANGED vars
  BY <1>10 DEF vars
<1> QED
  BY <1>1, <1>2, <1>3, <1>4, <1>5, <1>6, <1>7, <1>8, <1>9, <1>10 DEF Next, Worker, Edits

\* What accounts are told stays true, unless another reconcile is due.
LEMMA ToldStep == TypeOK /\ LoopInv /\ ListInv /\ ToldInv /\ [Next]_vars => ToldInv'
<1> SUFFICES ASSUME TypeOK, LoopInv, ListInv, ToldInv, [Next]_vars,
                    NEW c \in clusters', c \notin queue', ~(InWork(c)' /\ statusUpdateFailed'),
                    NEW a \in CachedAt(c)', acctFresh'[a], ~(InWork(c)' /\ a \in todo')
             PROVE  AccountTold(a)'
  BY DEF ToldInv
<1>1. c \in clusters /\ (c \notin queue \/ ListMatchingAccounts(c))
  BY QueueStep
<1>2. /\ CachedAt(c)' = CachedAt(c)
      /\ acctCached'[a] = acctCached[a] /\ CachedUsers(a)' = CachedUsers(a)
  BY <1>1, CacheStep
<1>3. c \notin queue
  <2>1. ASSUME ListMatchingAccounts(c) PROVE FALSE
    <3>1. InWork(c)' /\ todo' = CachedAt(c)
      BY <1>1, <2>1 DEF ListMatchingAccounts, InWork, CachedAt
    <3> QED
      BY <1>2, <3>1
  <2> QED
    BY <1>1, <2>1
<1>4. /\ acctFresh[a] /\ status'[a] = status[a]
      /\ \A u \in CachedUsers(a) :
            userFresh'[u] => userFresh[u] /\ (userReady[u] => userReady'[u])
  BY <1>1, <1>2, ToldKept
<1>5. ~(InWork(c) /\ statusUpdateFailed)
  <2>1. ASSUME InWork(c), statusUpdateFailed PROVE ~Publish
    BY <2>1 DEF Publish, RequeueAfter, InWork
  <2> QED
    BY <1>1, <2>1, WorkStep
<1>6. CASE ~(InWork(c) /\ a \in todo)
  <2>1. AccountTold(a)
    BY <1>1, <1>2, <1>3, <1>4, <1>5, <1>6 DEF ToldInv
  <2> QED
    BY <1>2, <1>4, <2>1 DEF AccountTold
<1>7. CASE InWork(c) /\ a \in todo
  <2>1. ~Publish
    BY <1>7 DEF Publish, LoopInv
  <2>2. PICK b \in Accounts : ProcessAccount(b) /\ todo' = todo \ {b}
    BY <1>1, <1>7, <2>1, WorkStep
  <2>3. a = b /\ InWork(c)' /\ ~statusUpdateFailed'
    BY <1>1, <1>7, <2>1, <2>2, WorkStep
  <2>4. ~EndReconcile
    BY <2>3 DEF EndReconcile, InWork
  <2>5. /\ status'[a] = AccountStatus(a)
        /\ acctCopy[a].validRegex => \A u \in UsersOf(a) : userReady'[u]
    BY <2>2, <2>3, <2>4, ProcessIs
  <2>6. pc = "accounts" /\ cur = c
    BY <1>7, <2>2 DEF ProcessAccount, InWork
  <2>7. acctCopy[a] = acctCached[a] /\ UsersOf(a) = CachedUsers(a)
    BY <1>2, <1>3, <2>6 DEF ListInv
  <2>8. status[a] = [status[a] EXCEPT !.ready = "InvalidRegex"]
            => status[a].ready = "InvalidRegex"
    <3>1. status[a] \in Status
      BY <1>2 DEF TypeOK, CachedAt
    <3> QED
      BY <3>1 DEF Status
  <2> QED
    BY <1>2, <1>4, <2>5, <2>7, <2>8 DEF AccountTold, AccountStatus
<1> QED
  BY <1>6, <1>7

\* When the operator has come to rest each account has the condition and the
\* count of what was rendered of it, and each rendered user is Ready.
THEOREM RestIsTold == Spec => []RestTold
<1> DEFINE I == TypeOK /\ FreshInv /\ LoopInv /\ ListInv /\ ToldInv
<1>1. Init => I
  <2>1. Init => ListInv /\ ToldInv
    BY DEF Init, ListInv, ToldInv
  <2> QED
    BY <2>1, TypeInit
<1>2. I /\ [Next]_vars => I'
  BY TypeStep, FreshStep, LoopStep, ListStep, ToldStep
<1>3. I => RestTold
  <2> SUFFICES ASSUME I, Quiescent, NEW c \in clusters, NEW a \in Accounts,
                      account[a].cluster = c
               PROVE  IF account[a].validRegex
                      THEN /\ status[a] = [ready |-> "Reconciled",
                                           userCount |-> Cardinality(Members(a))]
                           /\ \A u \in Members(a) : userReady[u]
                      ELSE status[a].ready = "InvalidRegex"
    BY DEF RestTold, Attached
  <2>1. /\ acctCached[a] = account[a] /\ acctFresh[a]
        /\ \A u \in Users : userCached[u] = user[u] /\ userFresh[u]
    BY DEF FreshInv, Quiescent
  <2>2. AccountTold(a)
    BY <2>1 DEF ToldInv, Quiescent, InWork, CachedAt
  <2>3. CachedUsers(a) = Members(a)
    BY <2>1 DEF CachedUsers, Members
  <2> QED
    BY <2>1, <2>2, <2>3 DEF AccountTold, Members
<1> QED
  BY <1>1, <1>2, <1>3, PTL DEF Spec

-----------------------------------------------------------------------------
(* Configurations change for a reason.                                     *)

\* Entries are collected and rendered in the order of names.
LEMMA SortedStep == TypeOK /\ LoopInv /\ SortedInv /\ [Next]_vars => SortedInv'
<1> SUFFICES ASSUME TypeOK, LoopInv, SortedInv, [Next]_vars PROVE SortedInv'
  OBVIOUS
<1>0. SectionsSorted(NoSections)
  BY DEF SectionsSorted, NoSections
<1>1. SectionsSorted(accountsWithUsers')
  <2> USE DEF objVars, cacheVars, localVars
  <2>1. CASE accountsWithUsers' = accountsWithUsers \/ EndReconcile
    BY <1>0, <2>1 DEF SortedInv, EndReconcile
  <2>2. CASE \E a \in Accounts : ProcessAccount(a)
    <3>1. PICK a \in Accounts : ProcessAccount(a)
      BY <2>2
    <3>2. CASE EndReconcile
      BY <2>1, <3>2
    <3>3. CASE ~EndReconcile
      <4> DEFINE us == IF acctCopy[a].validRegex THEN UsersOf(a) ELSE {}
      <4>1. PICK s \in SortedByName(us) : accountsWithUsers' =
                  [b \in DOMAIN accountsWithUsers \cup {d \in {a} : acctCopy[d].validRegex} |->
                      IF b = a THEN s ELSE accountsWithUsers[b]]
        BY <3>1, <3>3, ProcessIs
      <4>2. us \in SUBSET Users
        BY DEF UsersOf
      <4> HIDE DEF us
      <4> QED
        BY <4>1, <4>2 DEF SortedInv, SectionsSorted
    <3> QED
      BY <3>2, <3>3
  <2>3. CASE ReportConflicts
    BY <2>1, <2>3, ReportIs
  <2>4. CASE ListAllUsers \/ Publish \/ RestartOperator
    BY <2>1, <2>4 DEF ListAllUsers, Publish, RestartOperator
  <2>5. CASE UNCHANGED vars
    BY <2>1, <2>5 DEF vars
  <2> QED
    BY <2>1, <2>2, <2>3, <2>4, <2>5 DEF Next, Worker, Edits, ListMatchingAccounts,
       CreateCluster, EditAccount, EditUser, AccountEvent, UserEvent
<1>2. ASSUME NEW c \in Clusters PROVE SectionsSorted(config'[c])
  <2>1. CASE Publish
    <3>1. config' = config \/ config' = [config EXCEPT ![cur] = accountsWithUsers]
      BY <2>1 DEF Publish
    <3>2. config'[c] = config[c] \/ config'[c] = accountsWithUsers
      BY <3>1 DEF TypeOK
    <3> QED
      BY <3>2 DEF SortedInv
  <2>2. CASE ~Publish
    BY <2>2, ConfigKept DEF SortedInv
  <2> QED
    BY <2>1, <2>2
<1> QED
  BY <1>1, <1>2 DEF SortedInv, SectionsSorted

\* Sections of the same accounts with the same users are the same.
LEMMA SectionsUnique ==
    ASSUME UniqueNames, NEW f, NEW g, SectionsSorted(f), SectionsSorted(g), DOMAIN f = DOMAIN g,
           \A a \in DOMAIN f : Range(f[a]) = Range(g[a])
    PROVE  f = g
<1>1. ASSUME NEW a \in DOMAIN f PROVE f[a] = g[a]
  <2>1. PICK S \in SUBSET Users : f[a] \in SortedByName(S)
    BY DEF SectionsSorted
  <2>2. PICK T \in SUBSET Users : g[a] \in SortedByName(T)
    BY DEF SectionsSorted
  <2>3. ASSUME NEW R \in SUBSET Users, NEW s \in SortedByName(R) PROVE Range(s) = R
    <3>1. s \in [1..Cardinality(R) -> R]
      BY SortedIs
    <3>2. \A u \in R : \E i \in 1..Cardinality(R) : s[i] = u
      BY SortedRange
    <3> QED
      BY <3>1, <3>2 DEF Range
  <2>4. S = T
    BY <2>1, <2>2, <2>3
  <2> QED
    BY <2>1, <2>2, <2>4, SortedUnique
<1>2. f = [a \in DOMAIN f |-> f[a]] /\ g = [a \in DOMAIN g |-> g[a]]
  BY DEF SectionsSorted
<1> QED
  BY <1>1, <1>2

\* A configuration only changes when there are other accounts or users, unless
\* users of one name exist.
THEOREM ConfigIsDeterministic == Spec => Deterministic
<1> DEFINE I == TypeOK /\ LoopInv /\ SortedInv
<1>1. Init => I
  <2>1. Init => SortedInv
    BY DEF Init, SortedInv, SectionsSorted, NoSections
  <2> QED
    BY <2>1, TypeInit
<1>2. I /\ [Next]_vars => I'
  BY TypeStep, LoopStep, SortedStep
<1>3. I /\ I' => [\A c \in Clusters : UniqueNames /\ config'[c] # config[c] =>
                     \/ DOMAIN config'[c] # DOMAIN config[c]
                     \/ \E a \in DOMAIN config[c] :
                           Range(config'[c][a]) # Range(config[c][a])]_vars
  <2> SUFFICES ASSUME SortedInv, SortedInv', UniqueNames, NEW c \in Clusters,
                      DOMAIN config[c] = DOMAIN config'[c],
                      \A a \in DOMAIN config[c] : Range(config[c][a]) = Range(config'[c][a])
               PROVE  config[c] = config'[c]
    OBVIOUS
  <2>1. SectionsSorted(config[c]) /\ SectionsSorted(config'[c])
    BY DEF SortedInv, SectionsSorted
  <2> HIDE DEF SectionsSorted
  <2> QED
    BY <2>1, SectionsUnique
<1> QED
  BY <1>1, <1>2, <1>3, PTL DEF Spec, Deterministic
=============================================================================
