--------------------------- MODULE AccountsProofs ---------------------------
(* For every set of users, keys and slots, and whatever requests overlap: the  *)
(* types of Accounts, that there is one super administrator, who stays, and     *)
(* what holds of second factors and temporary passwords.                        *)
EXTENDS Accounts, TLAPS

\* A request writes to users that exist, and the key it has taken leads to one.
SafeRequest(r, users, keys) ==
    /\ \A u \in Targets(r) : users[u] # NoUser
    /\ r.op = "complete" =>
         /\ keys[r.key] # NoKey
         /\ r.pc # "delete" => users[keys[r.key].user] # NoUser

\* A key that can be presented leads to a user that exists.
SafeKey(k, users) == k # NoKey /\ k.live => users[k.user] # NoUser

IInv ==
    /\ user \in [Users -> UserRows \cup {NoUser}]
    /\ key \in [Keys -> KeyRows \cup {NoKey}]
    /\ signedIn \subseteq {u \in Users : user[u] # NoUser}
    /\ req \in [Slots -> Requests]
    /\ \A s \in Slots : SafeRequest(req[s], user, key)
    /\ \A k \in Keys : SafeKey(key[k], user)
    /\ OneSuperAdmin

-----------------------------------------------------------------------------
(* Requests *)

\* What is in a request, by its operation.
LEMMA Fields ==
    ASSUME NEW r \in Requests
    PROVE  /\ r.op \in {"register", "generate", "change", "profile"} =>
                r.user \in Users /\ r.metadata \in Metadata /\ Targets(r) = {r.user}
           /\ r.op \in {"login", "delete"} => r.user \in Users /\ Targets(r) = {r.user}
           /\ r.op = "validate" =>
                r.user \in Users /\ r.verified \in BOOLEAN /\ Targets(r) = {r.user}
           /\ r.op = "complete" =>
                r.key \in Keys /\ r.pc \in {"read", "write", "delete"} /\ Targets(r) = {}
           /\ r.op = "complete" /\ r.pc = "write" => r.metadata \in Metadata
           /\ r.op = "role" => /\ r.user \in Users /\ r.role \in Roles /\ r.read \in Roles
                               /\ Targets(r) = {r.user}
           /\ r.op = "create" => r.user \in Users /\ r.role \in Roles
           /\ r.op = "create" /\ r.pc = "activate" => Targets(r) = {r.user}
           /\ r.op = "bootstrap" /\ r.pc = "reconcile" =>
                r.matches \in BOOLEAN /\ Targets(r) = {Admin}
           /\ Targets(r) \subseteq Users
  BY AccountsAssumption DEF Requests, Idle, Targets

LEMMA IdleIsSafe ==
    ASSUME NEW users, NEW keys
    PROVE  Idle \in Requests /\ SafeRequest(Idle, users, keys)
  BY DEF Requests, Idle, SafeRequest, Targets

\* What was safe is safe as long as no user goes and no key changes hands.
LEMMA StaysSafe ==
    ASSUME NEW r \in Requests, NEW users, NEW keys, NEW usersNew, NEW keysNew,
           SafeRequest(r, users, keys),
           keys \in [Keys -> KeyRows \cup {NoKey}],
           \A u \in Users : users[u] # NoUser => usersNew[u] # NoUser,
           \A k \in Keys : keys[k] # NoKey =>
               keysNew[k] # NoKey /\ keysNew[k].user = keys[k].user
    PROVE  SafeRequest(r, usersNew, keysNew)
<1>1. \A u \in Targets(r) : usersNew[u] # NoUser
  BY Fields DEF SafeRequest
<1>2. ASSUME r.op = "complete"
      PROVE  keysNew[r.key] # NoKey /\ keysNew[r.key].user = keys[r.key].user
  BY <1>2, Fields DEF SafeRequest
<1>3. ASSUME r.op = "complete", r.pc # "delete"
      PROVE  usersNew[keysNew[r.key].user] # NoUser
  <2>1. keys[r.key] \in KeyRows
    BY <1>3, Fields DEF SafeRequest
  <2>2. keys[r.key].user \in Users
    BY <2>1 DEF KeyRows
  <2>. QED
    BY <1>2, <1>3, <2>2 DEF SafeRequest
<1>. QED
  BY <1>1, <1>2, <1>3 DEF SafeRequest

-----------------------------------------------------------------------------
(* What the steps have in common *)

\* A step that leaves users and keys, and puts a safe request, or none, in a slot.
LEMMA SlotStep ==
    ASSUME IInv, NEW s \in Slots, NEW r \in Requests,
           SafeRequest(r, user, key),
           req' = [req EXCEPT ![s] = r],
           user' = user, key' = key,
           signedIn' \subseteq {u \in Users : user[u] # NoUser}
    PROVE  IInv'
<1>1. \A t \in Slots : req'[t] \in Requests /\ SafeRequest(req'[t], user', key')
  BY DEF IInv
<1>2. OneSuperAdmin'
  BY DEF IInv, OneSuperAdmin, IsSuper
<1>. QED
  BY <1>1, <1>2 DEF IInv

\* A row is written, which is that of the only super administrator or of none, and a
\* request goes on or ends.
LEMMA RowStep ==
    ASSUME IInv, NEW u \in Users, NEW row \in UserRows, NEW s \in Slots, NEW r \in Requests,
           SafeRequest(r, [user EXCEPT ![u] = row], key),
           row.role = "super_admin" => \A v \in Users \ {u} : ~IsSuper(v),
           user' = [user EXCEPT ![u] = row], req' = [req EXCEPT ![s] = r], key' = key,
           signedIn' \subseteq signedIn \cup {u}
    PROVE  IInv'
<1>1. /\ user' \in [Users -> UserRows \cup {NoUser}]
      /\ \A v \in Users : user[v] # NoUser => user'[v] # NoUser
      /\ user'[u] = row /\ row # NoUser
      /\ \A v \in Users \ {u} : user'[v] = user[v]
  BY AccountsAssumption DEF IInv
<1>2. \A t \in Slots : SafeRequest(req'[t], user', key')
  <2>. TAKE t \in Slots
  <2>1. CASE t = s
    BY <2>1 DEF IInv
  <2>2. CASE t # s
    <3>1. req'[t] = req[t] /\ req[t] \in Requests /\ SafeRequest(req[t], user, key)
      BY <2>2 DEF IInv
    <3>2. key \in [Keys -> KeyRows \cup {NoKey}]
      BY DEF IInv
    <3>3. SafeRequest(req[t], user', key')
      BY <3>1, <3>2, <1>1, StaysSafe
    <3>. QED
      BY <3>1, <3>3
  <2>. QED
    BY <2>1, <2>2
<1>3. \A k \in Keys : SafeKey(key'[k], user')
  <2>. TAKE k \in Keys
  <2>1. key[k] # NoKey => key[k].user \in Users
    BY DEF IInv, KeyRows
  <2>. QED
    BY <1>1, <2>1 DEF IInv, SafeKey
<1>4. OneSuperAdmin'
  <2>. SUFFICES ASSUME NEW v \in Users, NEW w \in Users, IsSuper(v)', IsSuper(w)', v # w
                PROVE  FALSE
    BY DEF OneSuperAdmin
  <2>1. CASE v # u /\ w # u
    BY <2>1, <1>1 DEF IInv, OneSuperAdmin, IsSuper
  <2>2. CASE v = u
    BY <2>2, <1>1 DEF IsSuper
  <2>3. CASE w = u
    BY <2>3, <1>1 DEF IsSuper
  <2>. QED
    BY <2>1, <2>2, <2>3
<1>5. signedIn' \subseteq {v \in Users : user'[v] # NoUser}
  BY <1>1 DEF IInv
<1>6. req' \in [Slots -> Requests] /\ key' \in [Keys -> KeyRows \cup {NoKey}]
  BY DEF IInv
<1>. QED
  BY <1>1, <1>2, <1>3, <1>4, <1>5, <1>6 DEF IInv

\* The same for a row that keeps its role, at the end of a request.
LEMMA KeptRole ==
    ASSUME IInv, NEW u \in Users, user[u] # NoUser, NEW row \in UserRows,
           row.role = user[u].role, NEW s \in Slots, Write(s, u, row), key' = key,
           signedIn' \subseteq signedIn
    PROVE  IInv'
<1>1. row.role = "super_admin" => \A v \in Users \ {u} : ~IsSuper(v)
  BY DEF IInv, OneSuperAdmin, IsSuper
<1>2. signedIn' \subseteq signedIn \cup {u}
  OBVIOUS
<1>. QED
  BY <1>1, <1>2, IdleIsSafe, RowStep DEF Write, Return

\* Keys change, and lead to the users they led to; a request may end.
LEMMA KeysStep ==
    ASSUME IInv, user' = user, signedIn' = signedIn,
           key' \in [Keys -> KeyRows \cup {NoKey}],
           req' = req \/ \E s \in Slots : req' = [req EXCEPT ![s] = Idle],
           \A k \in Keys : /\ key[k] # NoKey => key'[k] # NoKey /\ key'[k].user = key[k].user
                           /\ SafeKey(key'[k], user')
    PROVE  IInv'
<1>1. \A t \in Slots : req'[t] \in Requests /\ SafeRequest(req'[t], user', key')
  <2>. TAKE t \in Slots
  <2>1. req'[t] = req[t] \/ req'[t] = Idle
    BY DEF IInv
  <2>2. CASE req'[t] = req[t]
    <3>1. req[t] \in Requests /\ SafeRequest(req[t], user, key)
          /\ key \in [Keys -> KeyRows \cup {NoKey}]
      BY DEF IInv
    <3>2. SafeRequest(req[t], user', key')
      BY <3>1, StaysSafe
    <3>. QED
      BY <2>2, <3>1, <3>2
  <2>3. CASE req'[t] = Idle
    BY <2>3, IdleIsSafe
  <2>. QED
    BY <2>1, <2>2, <2>3
<1>2. req' \in [Slots -> Requests]
  BY <1>1, IdleIsSafe DEF IInv
<1>3. OneSuperAdmin'
  BY DEF IInv, OneSuperAdmin, IsSuper
<1>. QED
  BY <1>1, <1>2, <1>3 DEF IInv

LEMMA Keeps ==
    ASSUME IInv, NEW s \in Slots
    PROVE  /\ req[s] \in Requests
           /\ SafeRequest(req[s], user, key)
           /\ \A u \in Targets(req[s]) : user[u] # NoUser /\ user[u] \in UserRows
<1>1. req[s] \in Requests /\ SafeRequest(req[s], user, key)
  BY DEF IInv
<1>2. Targets(req[s]) \subseteq Users
  BY <1>1, Fields
<1>. QED
  BY <1>1, <1>2 DEF IInv, SafeRequest

-----------------------------------------------------------------------------
(* The start of requests *)

LEMMA InitIInv == Init => IInv
<1>. SUFFICES ASSUME Init PROVE IInv
  OBVIOUS
<1>1. \A role \in Roles : /\ Row(role, "ACTIVE", "chosen") \in UserRows
                           /\ Row(role, "ACTIVE", "chosen").role = role
  BY DEF Row, UserRows, Roles, Metadata
<1>2. \A u \in Users : /\ Present[u] = NoUser => user[u] = NoUser
                       /\ Present[u] # NoUser => /\ user[u] = Row(Present[u], "ACTIVE", "chosen")
                                                 /\ Present[u] \in Roles
  BY AccountsAssumption DEF Init
<1>3. user \in [Users -> UserRows \cup {NoUser}]
  BY <1>1, <1>2 DEF Init
<1>4. OneSuperAdmin
  <2>1. \A u \in Users : IsSuper(u) => Present[u] = "super_admin"
    BY <1>1, <1>2 DEF IsSuper
  <2>. QED
    BY <2>1, AccountsAssumption DEF OneSuperAdmin
<1>5. \A s \in Slots : req[s] \in Requests /\ SafeRequest(req[s], user, key)
  BY IdleIsSafe DEF Init
<1>. QED
  BY <1>3, <1>4, <1>5 DEF Init, IInv, SafeKey

\* Accepting a safe request, with nothing else changed.
LEMMA AcceptStep ==
    ASSUME IInv, NEW s \in Slots, NEW u, NEW r \in Requests, SafeRequest(r, user, key),
           Accept(s, u, r), UNCHANGED <<user, key, signedIn>>
    PROVE  IInv'
<1>1. signedIn' \subseteq {v \in Users : user[v] # NoUser}
  BY DEF IInv
<1>. QED
  BY <1>1, SlotStep DEF Accept

LEMMA ReconcilingIsSafe ==
    ASSUME IInv, user[Admin] # NoUser, NEW r \in Reconciling
    PROVE  r \in Requests /\ SafeRequest(r, user, key)
<1>1. PICK m \in BOOLEAN : r = [op |-> "bootstrap", pc |-> "reconcile", matches |-> m]
  BY DEF Reconciling
<1>2. r \in Requests /\ Targets(r) = {Admin}
  BY <1>1 DEF Requests, Targets
<1>. QED
  BY <1>1, <1>2 DEF SafeRequest

LEMMA StartStep == IInv /\ Start => IInv'
<1>. SUFFICES ASSUME IInv, Start PROVE IInv'
  OBVIOUS
<1>. PICK s \in Slots :
       \/ StartBootstrap(s)
       \/ \E k \in Keys : StartComplete(s, k)
       \/ \E u \in Users :
            \/ StartLogin(s, u) \/ StartValidate(s, u) \/ StartDelete(s, u)
            \/ \E op \in AllOps : StartRead(s, op, u)
            \/ \E role \in Roles : StartRole(s, u, role) \/ StartCreate(s, u, role)
  BY DEF Start
<1>1. CASE StartBootstrap(s)
  <2>1. CASE user[Admin] = NoUser
    <3>. DEFINE r == [op |-> "bootstrap", pc |-> "create"]
    <3>1. r \in Requests /\ SafeRequest(r, user, key)
      BY DEF Requests, SafeRequest, Targets
    <3>2. Accept(s, Admin, r) /\ UNCHANGED <<user, key, signedIn>>
      BY <1>1, <2>1 DEF StartBootstrap
    <3>. QED
      BY <3>1, <3>2, AcceptStep
  <2>2. CASE user[Admin] # NoUser
    <3>1. PICK r \in Reconciling : Accept(s, Admin, r)
      BY <1>1, <2>2 DEF StartBootstrap
    <3>2. r \in Requests /\ SafeRequest(r, user, key)
      BY <2>2, ReconcilingIsSafe
    <3>3. UNCHANGED <<user, key, signedIn>>
      BY <1>1 DEF StartBootstrap
    <3>. QED
      BY <3>1, <3>2, <3>3, AcceptStep
  <2>. QED
    BY <2>1, <2>2
<1>2. ASSUME NEW k \in Keys, StartComplete(s, k)
      PROVE  IInv'
  <2>. DEFINE r == [op |-> "complete", pc |-> "read", key |-> k]
  <2>1. r \in Requests
    BY DEF Requests
  <2>2. key[k] # NoKey /\ user[key[k].user] # NoUser
    BY <1>2 DEF StartComplete, IInv, SafeKey
  <2>3. SafeRequest(r, user, key)
    BY <2>2 DEF SafeRequest, Targets
  <2>4. Accept(s, key[k].user, r) /\ UNCHANGED <<user, key, signedIn>>
    BY <1>2 DEF StartComplete
  <2>. QED
    BY <2>1, <2>3, <2>4, AcceptStep
<1>3. ASSUME NEW u \in Users, StartLogin(s, u) \/ StartDelete(s, u)
      PROVE  IInv'
  <2>1. PICK op \in {"login", "delete"} :
          /\ Accept(s, u, [op |-> op, user |-> u])
          /\ UNCHANGED <<user, key, signedIn>>
          /\ user[u] # NoUser
    BY <1>3 DEF StartLogin, StartDelete, isManagementUser
  <2>. DEFINE r == [op |-> op, user |-> u]
  <2>2. r \in Requests
    BY DEF Requests
  <2>3. SafeRequest(r, user, key)
    BY <2>1 DEF SafeRequest, Targets
  <2>. QED
    BY <2>1, <2>2, <2>3, AcceptStep
<1>4. ASSUME NEW u \in Users, StartValidate(s, u)
      PROVE  IInv'
  <2>1. PICK verified \in BOOLEAN :
          Accept(s, u, [op |-> "validate", user |-> u, verified |-> verified])
    BY <1>4 DEF StartValidate
  <2>. DEFINE r == [op |-> "validate", user |-> u, verified |-> verified]
  <2>2. r \in Requests
    BY DEF Requests
  <2>3. SafeRequest(r, user, key)
    BY <1>4 DEF SafeRequest, Targets, StartValidate
  <2>4. UNCHANGED <<user, key, signedIn>>
    BY <1>4 DEF StartValidate
  <2>. QED
    BY <2>1, <2>2, <2>3, <2>4, AcceptStep
<1>5. ASSUME NEW u \in Users, NEW op \in AllOps, StartRead(s, op, u)
      PROVE  IInv'
  <2>. DEFINE r == [op |-> op, user |-> u, metadata |-> user[u].metadata]
  <2>1. op \in {"register", "generate", "change", "profile"} /\ user[u] # NoUser
    BY <1>5 DEF StartRead
  <2>2. user[u] \in UserRows
    BY <2>1 DEF IInv
  <2>3. r \in Requests
    BY <2>1, <2>2 DEF Requests, UserRows
  <2>4. SafeRequest(r, user, key)
    BY <2>1 DEF SafeRequest, Targets
  <2>5. Accept(s, u, r) /\ UNCHANGED <<user, key, signedIn>>
    BY <1>5 DEF StartRead
  <2>. QED
    BY <2>3, <2>4, <2>5, AcceptStep
<1>6. ASSUME NEW u \in Users, NEW role \in Roles, StartRole(s, u, role)
      PROVE  IInv'
  <2>. DEFINE r == [op |-> "role", user |-> u, read |-> user[u].role, role |-> role]
  <2>0. user[u].role \in Roles
    BY <1>6 DEF StartRole, IInv, UserRows
  <2>1. r \in Requests
    BY <2>0 DEF Requests
  <2>2. SafeRequest(r, user, key)
    BY <1>6 DEF SafeRequest, Targets, StartRole
  <2>3. Accept(s, u, r) /\ UNCHANGED <<user, key, signedIn>>
    BY <1>6 DEF StartRole
  <2>. QED
    BY <2>1, <2>2, <2>3, AcceptStep
<1>7. ASSUME NEW u \in Users, NEW role \in Roles, StartCreate(s, u, role)
      PROVE  IInv'
  <2>. DEFINE r == [op |-> "create", pc |-> "insert", user |-> u, role |-> role]
  <2>1. r \in Requests
    BY DEF Requests
  <2>2. SafeRequest(r, user, key)
    BY DEF SafeRequest, Targets
  <2>3. Accept(s, u, r) /\ UNCHANGED <<user, key, signedIn>>
    BY <1>7 DEF StartCreate
  <2>. QED
    BY <2>1, <2>2, <2>3, AcceptStep
<1>. QED
  BY <1>1, <1>2, <1>3, <1>4, <1>5, <1>6, <1>7

-----------------------------------------------------------------------------
(* The writes of requests *)

\* The user that a request writes to, with the row it has.
LEMMA Writes ==
    ASSUME IInv, NEW s \in Slots,
           \/ req[s].op \in {"login", "register", "validate", "generate", "change",
                             "profile", "role", "delete"}
           \/ req[s].op = "create" /\ req[s].pc = "activate"
    PROVE  /\ req[s].user \in Users
           /\ user[req[s].user] # NoUser /\ user[req[s].user] \in UserRows
<1>1. req[s] \in Requests
  BY Keeps
<1>2. req[s].user \in Users /\ req[s].user \in Targets(req[s])
  BY <1>1, Fields
<1>. QED
  BY <1>2, Keeps

\* The row that a request writes, which keeps its role.
LEMMA MetadataRow ==
    ASSUME IInv, NEW s \in Slots,
           \/ registerTwoFactor(s) \/ generateTemporaryPassword(s)
           \/ changeTemporaryPassword(s) \/ updateProfile(s)
    PROVE  /\ req[s].user \in Users /\ user[req[s].user] # NoUser
           /\ \E row \in UserRows : /\ Write(s, req[s].user, row)
                                 /\ row.role = user[req[s].user].role
<1>. DEFINE u == req[s].user
<1>1. req[s].op \in {"register", "generate", "change", "profile"}
  BY DEF registerTwoFactor, generateTemporaryPassword, changeTemporaryPassword,
         updateProfile
<1>2. u \in Users /\ user[u] # NoUser /\ user[u] \in UserRows
  BY <1>1, Writes
<1>3. req[s].metadata \in Metadata
  BY <1>1, Fields, Keeps
<1>4. \E row \in UserRows : Write(s, u, row) /\ row.role = user[u].role
  <2>. DEFINE old == req[s].metadata
  <2>1. CASE registerTwoFactor(s)
    <3>. DEFINE meta == [old EXCEPT !.mfaSecret = TRUE]
    <3>1. meta \in Metadata
      BY <1>3 DEF Metadata
    <3>. HIDE DEF meta
    <3>. DEFINE row == [user[u] EXCEPT !.mfaEnabled = FALSE, !.metadata = meta]
    <3>2. row \in UserRows /\ row.role = user[u].role
      BY <3>1, <1>2 DEF UserRows
    <3>3. Write(s, u, row)
      BY <2>1 DEF registerTwoFactor, meta
    <3>. QED
      BY <3>2, <3>3
  <2>2. CASE generateTemporaryPassword(s)
    <3>. DEFINE meta == [old EXCEPT !.passwordChangeRequired = TRUE]
    <3>1. meta \in Metadata
      BY <1>3 DEF Metadata
    <3>. HIDE DEF meta
    <3>. DEFINE row == [user[u] EXCEPT !.password = "temporary", !.status = "ACTIVE",
                                       !.metadata = meta]
    <3>2. row \in UserRows /\ row.role = user[u].role
      BY <3>1, <1>2 DEF UserRows
    <3>3. Write(s, u, row)
      BY <2>2 DEF generateTemporaryPassword, meta
    <3>. QED
      BY <3>2, <3>3
  <2>3. CASE changeTemporaryPassword(s)
    <3>. DEFINE meta == [old EXCEPT !.passwordChangeRequired = FALSE]
    <3>1. meta \in Metadata
      BY <1>3 DEF Metadata
    <3>. HIDE DEF meta
    <3>. DEFINE row == [user[u] EXCEPT !.password = "chosen", !.metadata = meta]
    <3>2. row \in UserRows /\ row.role = user[u].role
      BY <3>1, <1>2 DEF UserRows
    <3>3. Write(s, u, row)
      BY <2>3 DEF changeTemporaryPassword, meta
    <3>. QED
      BY <3>2, <3>3
  <2>4. CASE updateProfile(s)
    BY <2>4, <1>2, <1>3 DEF updateProfile, UserRows, Metadata
  <2>. QED
    BY <2>1, <2>2, <2>3, <2>4
<1>. QED
  BY <1>2, <1>4

LEMMA MetadataStep ==
    ASSUME IInv, NEW s \in Slots,
           \/ registerTwoFactor(s) \/ generateTemporaryPassword(s)
           \/ changeTemporaryPassword(s) \/ updateProfile(s)
    PROVE  IInv'
<1>1. key' = key /\ signedIn' \subseteq signedIn
  BY DEF registerTwoFactor, generateTemporaryPassword, changeTemporaryPassword,
         updateProfile
<1>. QED
  BY <1>1, MetadataRow, KeptRole

LEMMA FlagRow ==
    ASSUME IInv, NEW s \in Slots,
           validateTwoFactor(s) \/ deleteUser(s) \/ ActivateUser(s)
    PROVE  /\ req[s].user \in Users /\ user[req[s].user] # NoUser
           /\ \E row \in UserRows : /\ Write(s, req[s].user, row)
                                 /\ row.role = user[req[s].user].role
<1>. DEFINE u == req[s].user
<1>1. \/ req[s].op \in {"validate", "delete"}
      \/ req[s].op = "create" /\ req[s].pc = "activate"
  BY DEF validateTwoFactor, deleteUser, ActivateUser
<1>2. u \in Users /\ user[u] # NoUser /\ user[u] \in UserRows
  BY <1>1, Writes
<1>3. \E row \in UserRows : Write(s, u, row) /\ row.role = user[u].role
  <2>1. CASE validateTwoFactor(s)
    <3>1. req[s].verified \in BOOLEAN
      BY <2>1, Fields, Keeps DEF validateTwoFactor
    <3>. QED
      BY <2>1, <3>1, <1>2 DEF validateTwoFactor, UserRows
  <2>2. CASE deleteUser(s)
    BY <2>2, <1>2 DEF deleteUser, UserRows
  <2>3. CASE ActivateUser(s)
    BY <2>3, <1>2 DEF ActivateUser, UserRows
  <2>. QED
    BY <2>1, <2>2, <2>3
<1>. QED
  BY <1>2, <1>3

LEMMA FlagStep ==
    ASSUME IInv, NEW s \in Slots,
           validateTwoFactor(s) \/ deleteUser(s) \/ ActivateUser(s)
    PROVE  IInv'
<1>1. key' = key /\ signedIn' \subseteq signedIn
  BY DEF validateTwoFactor, deleteUser, ActivateUser
<1>. QED
  BY <1>1, FlagRow, KeptRole

-----------------------------------------------------------------------------
(* Recovery keys *)

LEMMA CompleteStep ==
    ASSUME IInv, NEW s \in Slots,
           ReadForReplace(s) \/ replacePassword(s) \/ DeleteKey(s)
    PROVE  IInv'
<1>. DEFINE k == req[s].key
            u == key[k].user
<1>1. req[s] \in Requests /\ SafeRequest(req[s], user, key) /\ req[s].op = "complete"
  BY Keeps DEF ReadForReplace, replacePassword, DeleteKey
<1>2. k \in Keys /\ key[k] # NoKey
  BY <1>1, Fields DEF SafeRequest
<1>3. key[k] \in KeyRows /\ u \in Users
  BY <1>2 DEF IInv, KeyRows
<1>4. req[s].pc # "delete" => user[u] # NoUser /\ user[u] \in UserRows
  BY <1>1, <1>3 DEF IInv, SafeRequest
<1>5. CASE ReadForReplace(s)
  <2>1. user[u] # NoUser /\ user[u] \in UserRows
    BY <1>4, <1>5 DEF ReadForReplace
  <2>2. user[u].metadata \in Metadata
    BY <2>1 DEF UserRows
  <2>. DEFINE r == [op |-> "complete", pc |-> "write", key |-> k,
                    metadata |-> user[u].metadata]
  <2>3. r \in Requests
    BY <1>2, <2>2 DEF Requests
  <2>4. SafeRequest(r, user, key)
    BY <1>2, <2>1 DEF SafeRequest, Targets
  <2>5. req' = [req EXCEPT ![s] = r] /\ UNCHANGED <<user, key, signedIn>>
    BY <1>5 DEF ReadForReplace
  <2>6. signedIn' \subseteq {v \in Users : user[v] # NoUser}
    BY <2>5 DEF IInv
  <2>. QED
    BY <2>3, <2>4, <2>5, <2>6, SlotStep
<1>6. CASE replacePassword(s)
  <2>1. user[u] # NoUser /\ user[u] \in UserRows /\ req[s].metadata \in Metadata
    BY <1>1, <1>4, <1>6, Fields DEF replacePassword
  <2>. DEFINE meta == [req[s].metadata EXCEPT !.passwordChangeRequired = FALSE]
  <2>2. meta \in Metadata
    BY <2>1 DEF Metadata
  <2>. HIDE DEF meta
  <2>. DEFINE row == [user[u] EXCEPT !.password = "chosen", !.status = "ACTIVE",
                                     !.metadata = meta]
              r == [op |-> "complete", pc |-> "delete", key |-> k]
  <2>3. row \in UserRows /\ row.role = user[u].role
    BY <2>1, <2>2 DEF UserRows
  <2>4. user' = [user EXCEPT ![u].password = "chosen", ![u].status = "ACTIVE",
                             ![u].metadata = meta]
    BY <1>6 DEF replacePassword, meta
  <2>5. user' = [user EXCEPT ![u] = row]
    BY <2>4, <2>1, <1>3 DEF IInv, UserRows
  <2>6. r \in Requests
    BY <1>2 DEF Requests
  <2>7. SafeRequest(r, [user EXCEPT ![u] = row], key)
    BY <1>2 DEF SafeRequest, Targets
  <2>8. row.role = "super_admin" => \A v \in Users \ {u} : ~IsSuper(v)
    BY <2>1, <2>3, <1>3 DEF IInv, OneSuperAdmin, IsSuper
  <2>9. /\ req' = [req EXCEPT ![s] = r] /\ key' = key
        /\ signedIn' \subseteq signedIn \cup {u}
    BY <1>6 DEF replacePassword
  <2>. HIDE DEF row, r, u
  <2>. QED
    BY <1>3, <2>3, <2>5, <2>6, <2>7, <2>8, <2>9, RowStep DEF u
<1>7. CASE DeleteKey(s)
  <2>1. /\ key' = [key EXCEPT ![k].live = FALSE] /\ req' = [req EXCEPT ![s] = Idle]
        /\ user' = user /\ signedIn' = signedIn
    BY <1>7 DEF DeleteKey, Return
  <2>2. key' \in [Keys -> KeyRows \cup {NoKey}]
    BY <2>1, <1>2, <1>3 DEF IInv, KeyRows
  <2>3. \A j \in Keys : /\ key[j] # NoKey => key'[j] # NoKey /\ key'[j].user = key[j].user
                        /\ SafeKey(key'[j], user')
    <3>. TAKE j \in Keys
    <3>1. CASE j = k
      <4>1. key'[k] \in KeyRows /\ key'[k].user = u /\ ~key'[k].live
        BY <2>1, <1>2, <1>3 DEF IInv, KeyRows
      <4>. QED
        BY <3>1, <4>1, AccountsAssumption DEF SafeKey
    <3>2. CASE j # k
      BY <3>2, <2>1 DEF IInv, SafeKey
    <3>. QED
      BY <3>1, <3>2
  <2>. QED
    BY <2>1, <2>2, <2>3, KeysStep
<1>. QED
  BY <1>5, <1>6, <1>7

-----------------------------------------------------------------------------
(* Roles and creations *)

Passwords == {"chosen", "generated"}

LEMMA RowOf == ASSUME NEW role \in Roles, NEW status \in {"INVITED", "ACTIVE"},
                      NEW password \in Passwords
               PROVE  /\ Row(role, status, password) \in UserRows
                      /\ Row(role, status, password).role = role
  BY DEF Row, UserRows, Metadata, Passwords

\* A creation comes to nothing, or inserts a row where there was none.
LEMMA Inserts ==
    ASSUME NEW s \in Slots, InsertUser(s)
    PROVE  \/ Return(s) /\ UNCHANGED user
           \/ /\ user[req[s].user] = NoUser /\ TriggerAllows(req[s].user, req[s].role)
              /\ \E password \in Passwords :
                   \/ Write(s, req[s].user, Row(req[s].role, "ACTIVE", password))
                   \/ /\ user' = [user EXCEPT ![req[s].user] =
                                     Row(req[s].role, "INVITED", password)]
                      /\ req' = [req EXCEPT ![s].pc = "activate"]
<1>. DEFINE u == req[s].user
            role == req[s].role
<1>. HIDE DEF u, role
<1>1. CASE user[u] # NoUser \/ ~TriggerAllows(u, role)
  <2>1. Return(s) /\ UNCHANGED user
    BY <1>1 DEF InsertUser, TriggerAllows, u, role
  <2>. QED
    BY <2>1
<1>2. CASE ~(user[u] # NoUser \/ ~TriggerAllows(u, role)) /\ role = "client"
  <2>1. \E password \in Passwords : Write(s, u, Row(role, "ACTIVE", password))
    BY <1>2, Zenon DEF InsertUser, u, role, Passwords
  <2>. QED
    BY <1>2, <2>1 DEF u, role
<1>3. CASE ~(user[u] # NoUser \/ ~TriggerAllows(u, role)) /\ role # "client"
  <2>1. \E password \in Passwords :
          /\ user' = [user EXCEPT ![u] = Row(role, "INVITED", password)]
          /\ req' = [req EXCEPT ![s].pc = "activate"]
    BY <1>3, Zenon DEF InsertUser, u, role, Passwords
  <2>. QED
    BY <1>3, <2>1 DEF u, role
<1>. QED
  BY <1>1, <1>2, <1>3

\* A request that ends, or goes on safely, without a write.
LEMMA MovesOn ==
    ASSUME IInv, NEW s \in Slots, NEW r \in Requests, SafeRequest(r, user, key),
           req' = [req EXCEPT ![s] = r], UNCHANGED <<user, key, signedIn>>
    PROVE  IInv'
<1>1. signedIn' \subseteq {u \in Users : user[u] # NoUser}
  BY DEF IInv
<1>. QED
  BY <1>1, SlotStep

LEMMA Ends ==
    ASSUME IInv, NEW s \in Slots, Return(s), UNCHANGED <<user, key, signedIn>>
    PROVE  IInv'
  BY MovesOn, IdleIsSafe DEF Return

\* What the trigger lets through is the only super administrator.
LEMMA TriggerStep ==
    ASSUME IInv, NEW u \in Users, NEW role \in Roles, TriggerAllows(u, role),
           NEW row \in UserRows, row.role = role,
           NEW s \in Slots, Write(s, u, row), key' = key, signedIn' \subseteq signedIn
    PROVE  IInv'
<1>1. row.role = "super_admin" => \A v \in Users \ {u} : ~IsSuper(v)
  BY DEF TriggerAllows
<1>2. signedIn' \subseteq signedIn \cup {u}
  OBVIOUS
<1>. QED
  BY <1>1, <1>2, IdleIsSafe, RowStep DEF Write, Return

LEMMA RoleStep == ASSUME IInv, NEW s \in Slots, updateRole(s) PROVE IInv'
<1>. DEFINE u == req[s].user
<1>1. req[s].op = "role" /\ UNCHANGED <<key, signedIn>>
  BY DEF updateRole
<1>2. u \in Users /\ user[u] # NoUser /\ user[u] \in UserRows /\ req[s].role \in Roles
  BY <1>1, Writes, Fields, Keeps
<1>3. CASE TriggerAllows(u, req[s].role)
  <2>. DEFINE row == [user[u] EXCEPT !.role = req[s].role]
  <2>1. row \in UserRows /\ row.role = req[s].role
    BY <1>2 DEF UserRows
  <2>2. Write(s, u, row)
    BY <1>3 DEF updateRole
  <2>. HIDE DEF row
  <2>. QED
    BY <1>1, <1>2, <1>3, <2>1, <2>2, TriggerStep
<1>4. CASE ~TriggerAllows(u, req[s].role)
  BY <1>1, <1>4, Ends DEF updateRole
<1>. QED
  BY <1>3, <1>4

LEMMA InsertStep == ASSUME IInv, NEW s \in Slots, InsertUser(s) PROVE IInv'
<1>. DEFINE u == req[s].user
            role == req[s].role
<1>1. req[s].op = "create" /\ req[s].pc = "insert" /\ UNCHANGED <<key, signedIn>>
  BY DEF InsertUser
<1>2. u \in Users /\ role \in Roles /\ req[s] \in Requests
  BY <1>1, Fields, Keeps
<1>3. CASE Return(s) /\ UNCHANGED user
  BY <1>1, <1>3, Ends
<1>4. ASSUME user[u] = NoUser, TriggerAllows(u, role), NEW password \in Passwords,
             Write(s, u, Row(role, "ACTIVE", password))
      PROVE  IInv'
  <2>. DEFINE row == Row(role, "ACTIVE", password)
  <2>1. row \in UserRows /\ row.role = role
    BY <1>2, RowOf
  <2>2. Write(s, u, row)
    BY <1>4
  <2>. HIDE DEF row, u, role
  <2>. QED
    BY <1>1, <1>2, <1>4, <2>1, <2>2, TriggerStep
<1>5. ASSUME user[u] = NoUser, TriggerAllows(u, role), NEW password \in Passwords,
             user' = [user EXCEPT ![u] = Row(role, "INVITED", password)],
             req' = [req EXCEPT ![s].pc = "activate"]
      PROVE  IInv'
  <2>. DEFINE row == Row(role, "INVITED", password)
              r == [op |-> "create", pc |-> "activate", user |-> u, role |-> role]
  <2>1. user' = [user EXCEPT ![u] = row] /\ req' = [req EXCEPT ![s].pc = "activate"]
    BY <1>5
  <2>2. req[s] = [op |-> "create", pc |-> "insert", user |-> u, role |-> role]
    BY <1>1, <1>2 DEF Requests, Idle
  <2>3. req' = [req EXCEPT ![s] = r]
    <3>1. req' = [req EXCEPT ![s] = [req[s] EXCEPT !.pc = "activate"]]
      BY <2>1
    <3>2. [req[s] EXCEPT !.pc = "activate"] = r
      BY <2>2
    <3>. QED
      BY <3>1, <3>2
  <2>4. r \in Requests
    BY <1>2 DEF Requests
  <2>5. row \in UserRows /\ row.role = role
    BY <1>2, RowOf
  <2>. HIDE DEF row
  <2>6. SafeRequest(r, [user EXCEPT ![u] = row], key)
    <3>1. Targets(r) = {u}
      BY DEF Targets
    <3>2. [user EXCEPT ![u] = row][u] = row /\ row # NoUser
      BY <1>2, <2>5, AccountsAssumption DEF IInv
    <3>. QED
      BY <3>1, <3>2 DEF SafeRequest
  <2>7. row.role = "super_admin" => \A v \in Users \ {u} : ~IsSuper(v)
    BY <1>5, <2>5 DEF TriggerAllows
  <2>8. key' = key /\ signedIn' \subseteq signedIn \cup {u}
    BY <1>1
  <2>. HIDE DEF r, u
  <2>. QED
    BY <1>2, <2>1, <2>3, <2>4, <2>5, <2>6, <2>7, <2>8, RowStep DEF u
<1>. QED
  BY <1>3, <1>4, <1>5, Inserts

LEMMA BootstrapStep ==
    ASSUME IInv, NEW s \in Slots,
           BootstrapCreate(s) \/ BootstrapFind(s) \/ reconcileBootstrapUser(s)
    PROVE  IInv'
<1>1. Admin \in Users /\ "super_admin" \in Roles
  BY AccountsAssumption DEF Roles
<1>2. CASE BootstrapCreate(s)
  <2>0. req[s] = [op |-> "bootstrap", pc |-> "create"] /\ UNCHANGED <<key, signedIn>>
    BY <1>2, Keeps DEF BootstrapCreate, Requests, Idle
  <2>1. CASE ~TriggerAllows(Admin, "super_admin")
    BY <1>2, <2>1, Ends DEF BootstrapCreate
  <2>2. CASE TriggerAllows(Admin, "super_admin") /\ user[Admin] # NoUser
    <3>. DEFINE r == [op |-> "bootstrap", pc |-> "find"]
    <3>1. req' = [req EXCEPT ![s].pc = "find"] /\ UNCHANGED user
      BY <1>2, <2>2 DEF BootstrapCreate
    <3>2. req' = [req EXCEPT ![s] = r]
      <4>1. req' = [req EXCEPT ![s] = [req[s] EXCEPT !.pc = "find"]]
        BY <3>1
      <4>2. [req[s] EXCEPT !.pc = "find"] = r
        BY <2>0
      <4>. QED
        BY <4>1, <4>2
    <3>3. r \in Requests /\ SafeRequest(r, user, key)
      BY DEF Requests, SafeRequest, Targets
    <3>. QED
      BY <2>0, <3>1, <3>2, <3>3, MovesOn
  <2>3. CASE TriggerAllows(Admin, "super_admin") /\ user[Admin] = NoUser
    <3>. DEFINE row == Row("super_admin", "ACTIVE", "chosen")
    <3>1. Write(s, Admin, row)
      BY <1>2, <2>3 DEF BootstrapCreate
    <3>2. row \in UserRows /\ row.role = "super_admin"
      BY <1>1, RowOf DEF Passwords
    <3>. HIDE DEF row
    <3>. QED
      BY <1>1, <2>0, <2>3, <3>1, <3>2, TriggerStep
  <2>. QED
    BY <2>1, <2>2, <2>3
<1>3. CASE BootstrapFind(s)
  <2>1. CASE user[Admin] = NoUser
    BY <1>3, <2>1, Ends DEF BootstrapFind
  <2>2. CASE user[Admin] # NoUser
    <3>1. PICK r \in Reconciling : req' = [req EXCEPT ![s] = r]
      BY <1>3, <2>2 DEF BootstrapFind
    <3>2. r \in Requests /\ SafeRequest(r, user, key)
      BY <2>2, ReconcilingIsSafe
    <3>3. UNCHANGED <<user, key, signedIn>>
      BY <1>3 DEF BootstrapFind
    <3>. QED
      BY <3>1, <3>2, <3>3, MovesOn
  <2>. QED
    BY <2>1, <2>2
<1>4. CASE reconcileBootstrapUser(s)
  <2>0. req[s].op = "bootstrap" /\ req[s].pc = "reconcile" /\ key' = key
    BY <1>4 DEF reconcileBootstrapUser
  <2>1. req[s].matches \in BOOLEAN /\ user[Admin] # NoUser /\ user[Admin] \in UserRows
    BY <2>0, Fields, Keeps
  <2>2. CASE TriggerAllows(Admin, "super_admin")
    <3>. DEFINE password == IF req[s].matches THEN user[Admin].password ELSE "chosen"
                row == [user[Admin] EXCEPT !.status = "ACTIVE", !.role = "super_admin",
                                           !.password = password]
    <3>1. password \in {"chosen", "temporary", "generated"}
      BY <2>1 DEF UserRows
    <3>2. Write(s, Admin, row)
      BY <1>4, <2>2, <2>1 DEF reconcileBootstrapUser, UserRows
    <3>. HIDE DEF password
    <3>3. row \in UserRows /\ row.role = "super_admin"
      BY <2>1, <3>1, <1>1 DEF UserRows
    <3>4. signedIn' \subseteq signedIn
      BY <1>4, <2>2 DEF reconcileBootstrapUser
    <3>. HIDE DEF row
    <3>. QED
      BY <1>1, <2>0, <2>2, <3>2, <3>3, <3>4, TriggerStep
  <2>3. CASE ~TriggerAllows(Admin, "super_admin")
    BY <1>4, <2>3, Ends DEF reconcileBootstrapUser
  <2>. QED
    BY <2>2, <2>3
<1>. QED
  BY <1>2, <1>3, <1>4

LEMMA ContinueStep == ASSUME IInv, NEW s \in Slots, Continue(s) PROVE IInv'
<1>1. CASE FinishLogin(s)
  <2>1. req[s].user \in Users /\ user[req[s].user] # NoUser
    BY <1>1, Writes DEF FinishLogin
  <2>2. signedIn' \subseteq {u \in Users : user[u] # NoUser}
    BY <1>1, <2>1 DEF FinishLogin, IInv
  <2>. QED
    BY <1>1, <2>2, IdleIsSafe, SlotStep DEF FinishLogin, Return
<1>2. CASE Fail(s)
  BY <1>2, Ends DEF Fail
<1>. QED
  BY <1>1, <1>2, MetadataStep, FlagStep, CompleteStep, RoleStep, InsertStep, BootstrapStep
  DEF Continue

-----------------------------------------------------------------------------
(* Steps that are a statement *)

LEMMA RestoreStep == ASSUME IInv, NEW u \in Users, restore(u) PROVE IInv'
<1>1. user[u] # NoUser /\ user[u] \in UserRows
  BY DEF restore, IInv
<1>. DEFINE row == [user[u] EXCEPT !.status = "ACTIVE"]
<1>2. row \in UserRows /\ row # NoUser /\ row.role = user[u].role
  BY <1>1, AccountsAssumption DEF UserRows
<1>3. user' = [user EXCEPT ![u] = row] /\ UNCHANGED <<key, signedIn, req>>
  BY DEF restore, IInv
<1>. HIDE DEF row
<1>4. /\ user' \in [Users -> UserRows \cup {NoUser}]
      /\ \A v \in Users : user[v] # NoUser => user'[v] # NoUser
      /\ \A v \in Users : user'[v] # NoUser => user[v] # NoUser /\ user'[v].role = user[v].role
  BY <1>1, <1>2, <1>3 DEF IInv
<1>5. \A s \in Slots : SafeRequest(req'[s], user', key')
  <2>. TAKE s \in Slots
  <2>1. req[s] \in Requests /\ SafeRequest(req[s], user, key)
    BY Keeps
  <2>2. key \in [Keys -> KeyRows \cup {NoKey}]
    BY DEF IInv
  <2>3. SafeRequest(req[s], user', key')
    BY <1>3, <1>4, <2>1, <2>2, StaysSafe
  <2>. QED
    BY <1>3, <2>3
<1>6. \A k \in Keys : SafeKey(key'[k], user')
  <2>1. \A k \in Keys : key[k] # NoKey => key[k].user \in Users
    BY DEF IInv, KeyRows
  <2>. QED
    BY <1>3, <1>4, <2>1 DEF IInv, SafeKey
<1>7. OneSuperAdmin'
  BY <1>4 DEF IInv, OneSuperAdmin, IsSuper
<1>. QED
  BY <1>3, <1>4, <1>5, <1>6, <1>7 DEF IInv

LEMMA KeyStep ==
    ASSUME IInv, NEW k \in Keys,
           \/ ExpireKey(k)
           \/ \E u \in Users, namespace \in {"admin-reset", "forgot-password"} :
                requestReset(k, namespace, u)
    PROVE  IInv'
<1>1. CASE ExpireKey(k)
  <2>1. key[k] \in KeyRows /\ key[k] # NoKey
    BY <1>1 DEF ExpireKey, IInv
  <2>2. key' = [key EXCEPT ![k].live = FALSE] /\ UNCHANGED <<user, signedIn, req>>
    BY <1>1 DEF ExpireKey
  <2>3. /\ key'[k] \in KeyRows /\ key'[k].user = key[k].user /\ ~key'[k].live
        /\ \A j \in Keys \ {k} : key'[j] = key[j]
        /\ key' \in [Keys -> KeyRows \cup {NoKey}]
    BY <2>1, <2>2 DEF IInv, KeyRows
  <2>4. \A j \in Keys : /\ key[j] # NoKey => key'[j] # NoKey /\ key'[j].user = key[j].user
                        /\ SafeKey(key'[j], user')
    BY <2>2, <2>3, AccountsAssumption DEF IInv, SafeKey
  <2>. QED
    BY <2>2, <2>3, <2>4, KeysStep
<1>2. ASSUME NEW u \in Users, NEW namespace \in {"admin-reset", "forgot-password"},
             requestReset(k, namespace, u)
      PROVE  IInv'
  <2>1. /\ key[k] = NoKey /\ user[u] # NoUser
        /\ key' = [key EXCEPT ![k] = [user |-> u, live |-> TRUE]]
        /\ UNCHANGED <<user, signedIn, req>>
    BY <1>2 DEF requestReset
  <2>2. /\ key'[k] \in KeyRows /\ key'[k].user = u
        /\ \A j \in Keys \ {k} : key'[j] = key[j]
        /\ key' \in [Keys -> KeyRows \cup {NoKey}]
    BY <2>1 DEF IInv, KeyRows
  <2>3. \A j \in Keys : /\ key[j] # NoKey => key'[j] # NoKey /\ key'[j].user = key[j].user
                        /\ SafeKey(key'[j], user')
    BY <2>1, <2>2 DEF IInv, SafeKey
  <2>. QED
    BY <2>1, <2>2, <2>3, KeysStep
<1>. QED
  BY <1>1, <1>2

\* What is under way about the removed users comes to nothing, and so do their keys.
LEMMA RemoveStep ==
    ASSUME IInv, NEW selected \in SUBSET Users, hardRemoveDisabledUsers(selected)
    PROVE  IInv'
<1>1. user' = [u \in Users |-> IF u \in selected THEN NoUser ELSE user[u]]
  BY DEF hardRemoveDisabledUsers
<1>2. user' \in [Users -> UserRows \cup {NoUser}]
  BY <1>1 DEF IInv
<1>3. \A k \in Keys :
        /\ key'[k] \in KeyRows \cup {NoKey}
        /\ key[k] # NoKey => key'[k] # NoKey /\ key'[k].user = key[k].user
        /\ SafeKey(key'[k], user')
  <2>. TAKE k \in Keys
  <2>1. key'[k] = IF key[k] # NoKey /\ key[k].user \in selected
                    THEN [key[k] EXCEPT !.live = FALSE] ELSE key[k]
    BY DEF hardRemoveDisabledUsers
  <2>2. CASE key[k] = NoKey
    BY <2>1, <2>2 DEF SafeKey
  <2>3. CASE key[k] # NoKey /\ key[k].user \in selected
    <3>1. key[k] \in KeyRows
      BY <2>3 DEF IInv
    <3>2. key'[k] \in KeyRows /\ key'[k].user = key[k].user /\ ~key'[k].live
      BY <2>1, <2>3, <3>1 DEF KeyRows
    <3>. QED
      BY <3>2, AccountsAssumption DEF SafeKey
  <2>4. CASE key[k] # NoKey /\ key[k].user \notin selected
    <3>1. key[k] \in KeyRows /\ key'[k] = key[k] /\ key[k].user \in Users
      BY <2>1, <2>4 DEF IInv, KeyRows
    <3>2. user'[key[k].user] = user[key[k].user]
      BY <1>1, <2>4, <3>1
    <3>. QED
      BY <2>4, <3>1, <3>2 DEF IInv, SafeKey
  <2>. QED
    BY <2>2, <2>3, <2>4
<1>4. \A s \in Slots : req'[s] \in Requests /\ SafeRequest(req'[s], user', key')
  <2>. TAKE s \in Slots
  <2>1. req'[s] = IF (Targets(req[s]) \cup Completing(req[s])) \cap selected # {}
                    THEN Idle ELSE req[s]
    BY DEF hardRemoveDisabledUsers
  <2>2. CASE (Targets(req[s]) \cup Completing(req[s])) \cap selected # {}
    BY <2>1, <2>2, IdleIsSafe
  <2>3. CASE (Targets(req[s]) \cup Completing(req[s])) \cap selected = {}
    <3>1. req'[s] = req[s] /\ req[s] \in Requests /\ SafeRequest(req[s], user, key)
      BY <2>1, <2>3, Keeps
    <3>2. \A u \in Targets(req[s]) : user'[u] # NoUser
      <4>. TAKE u \in Targets(req[s])
      <4>1. u \in Users /\ u \notin selected
        BY <2>3, <3>1, Fields
      <4>. QED
        BY <1>1, <3>1, <4>1 DEF SafeRequest
    <3>3. ASSUME req[s].op = "complete"
          PROVE  /\ key'[req[s].key] # NoKey
                 /\ req[s].pc # "delete" => user'[key'[req[s].key].user] # NoUser
      <4>1. req[s].key \in Keys /\ key[req[s].key] # NoKey
        BY <3>1, <3>3, Fields DEF SafeRequest
      <4>2. key'[req[s].key] # NoKey /\ key'[req[s].key].user = key[req[s].key].user
        BY <4>1, <1>3
      <4>3. key[req[s].key].user \in Users
        BY <4>1 DEF IInv, KeyRows
      <4>4. req[s].pc # "delete" => key[req[s].key].user \notin selected
        BY <2>3, <3>3 DEF Completing
      <4>. QED
        BY <1>1, <3>1, <3>3, <4>2, <4>3, <4>4 DEF SafeRequest
    <3>. QED
      BY <3>1, <3>2, <3>3 DEF SafeRequest
  <2>. QED
    BY <2>2, <2>3
<1>5. key' \in [Keys -> KeyRows \cup {NoKey}]
  BY <1>3 DEF hardRemoveDisabledUsers
<1>6. req' \in [Slots -> Requests]
  BY <1>4 DEF hardRemoveDisabledUsers
<1>7. signedIn' \subseteq {u \in Users : user'[u] # NoUser}
  BY <1>1 DEF hardRemoveDisabledUsers, IInv
<1>8. OneSuperAdmin'
  BY <1>1 DEF IInv, OneSuperAdmin, IsSuper
<1>. QED
  BY <1>2, <1>3, <1>4, <1>5, <1>6, <1>7, <1>8 DEF IInv

-----------------------------------------------------------------------------

LEMMA IInvInductive == IInv /\ [Next]_vars => IInv'
<1>. SUFFICES ASSUME IInv, [Next]_vars PROVE IInv'
  OBVIOUS
<1>1. CASE Start
  BY <1>1, StartStep
<1>2. ASSUME NEW s \in Slots, Continue(s) PROVE IInv'
  BY <1>2, ContinueStep
<1>3. CASE Atomic
  BY <1>3, RestoreStep, KeyStep, RemoveStep DEF Atomic
<1>4. CASE UNCHANGED vars
  <2>1. user' = user /\ key' = key /\ signedIn' = signedIn /\ req' = req
    BY <1>4 DEF vars
  <2>2. OneSuperAdmin'
    BY <2>1 DEF IInv, OneSuperAdmin, IsSuper
  <2>. QED
    BY <2>1, <2>2 DEF IInv
<1>. QED
  BY <1>1, <1>2, <1>3, <1>4 DEF Next

LEMMA Invariance == Spec => []IInv
  BY InitIInv, IInvInductive, PTL DEF Spec

\* Only those who write metadata are recorded.
LEMMA StartKeepsStale == ASSUME Start PROVE stale' = stale
<1>. PICK s \in Slots :
       \/ StartBootstrap(s)
       \/ \E k \in Keys : StartComplete(s, k)
       \/ \E u \in Users :
            \/ StartLogin(s, u) \/ StartValidate(s, u) \/ StartDelete(s, u)
            \/ \E op \in AllOps : StartRead(s, op, u)
            \/ \E role \in Roles : StartRole(s, u, role) \/ StartCreate(s, u, role)
  BY DEF Start
<1>. QED
  BY DEF StartBootstrap, StartComplete, StartLogin, StartValidate, StartDelete, StartRead,
         StartRole, StartCreate

LEMMA OthersKeepStale ==
    ASSUME NEW s \in Slots, Continue(s),
           ~(\/ registerTwoFactor(s) \/ generateTemporaryPassword(s)
             \/ changeTemporaryPassword(s) \/ updateProfile(s) \/ replacePassword(s))
    PROVE  stale' = stale
  BY DEF Continue, FinishLogin, validateTwoFactor, ReadForReplace, DeleteKey, updateRole,
         InsertUser, ActivateUser, deleteUser, BootstrapCreate, BootstrapFind,
         reconcileBootstrapUser, Fail

StaleAreUsers == stale \subseteq Users

LEMMA StaleUsers == Spec => []StaleAreUsers
<1>1. Init => StaleAreUsers
  BY DEF Init, StaleAreUsers
<1>2. IInv /\ StaleAreUsers /\ [Next]_vars => StaleAreUsers'
  <2>. SUFFICES ASSUME IInv, stale \subseteq Users, [Next]_vars PROVE stale' \subseteq Users
    BY DEF StaleAreUsers
  <2>1. ASSUME NEW s \in Slots, Continue(s) PROVE stale' \subseteq Users
    <3>1. CASE \/ registerTwoFactor(s) \/ generateTemporaryPassword(s)
               \/ changeTemporaryPassword(s) \/ updateProfile(s)
      <4>1. req[s].user \in Users
        BY <3>1, MetadataRow
      <4>. QED
        BY <3>1, <4>1
        DEF registerTwoFactor, generateTemporaryPassword, changeTemporaryPassword,
            updateProfile, WritesBack
    <3>2. CASE replacePassword(s)
      <4>1. req[s].op = "complete" /\ req[s] \in Requests /\ SafeRequest(req[s], user, key)
        BY <3>2, Keeps DEF replacePassword
      <4>2. key[req[s].key].user \in Users
        BY <4>1, Fields DEF SafeRequest, IInv, KeyRows
      <4>. QED
        BY <3>2, <4>2 DEF replacePassword, WritesBack
    <3>3. CASE ~(\/ registerTwoFactor(s) \/ generateTemporaryPassword(s)
                 \/ changeTemporaryPassword(s) \/ updateProfile(s) \/ replacePassword(s))
      BY <2>1, <3>3, OthersKeepStale
    <3>. QED
      BY <3>1, <3>2, <3>3
  <2>2. CASE Start
    BY <2>2, StartKeepsStale
  <2>3. CASE Atomic
    BY <2>3 DEF Atomic, restore, ExpireKey, requestReset, hardRemoveDisabledUsers
  <2>4. CASE UNCHANGED vars
    BY <2>4 DEF vars
  <2>. QED
    BY <2>1, <2>2, <2>3, <2>4 DEF Next
<1>. QED
  BY <1>1, <1>2, Invariance, PTL DEF Spec

\* Users, keys and requests have their types, and what is under way about a user finds
\* the user: the removal of users leaves no request behind.
THEOREM TypeCorrect == Spec => []TypeOK
<1>1. IInv /\ StaleAreUsers => TypeOK
  BY DEF IInv, TypeOK, SafeRequest, StaleAreUsers
<1>. QED
  BY <1>1, Invariance, StaleUsers, PTL

\* One super administrator at most, whatever creations, role changes and starts of
\* instances overlap.
THEOREM SingleSuperAdmin == Spec => []OneSuperAdmin
<1>1. IInv => OneSuperAdmin
  BY DEF IInv
<1>. QED
  BY <1>1, Invariance, PTL

-----------------------------------------------------------------------------
(* Metadata.  A request writes back the metadata that it read, so two of one   *)
(* user may lose each other's keys; that user is stale from then on.  Of the    *)
(* others, what was written is what the user had, with one key changed.         *)

\* A row that lets its user in again, and asks for the change of a temporary password.
GoodRow(row) ==
    /\ row.mfaEnabled => row.metadata.mfaSecret
    /\ row.password = "temporary" => row.metadata.passwordChangeRequired

\* A validation relies on the secret that it was accepted for.
SecretStays(s) ==
    req[s].op = "validate" /\ req[s].user \notin stale =>
      user[req[s].user].metadata.mfaSecret

GoodRows == \A u \in Users \ stale : user[u] # NoUser => GoodRow(user[u])

MInv == GoodRows /\ \A s \in Slots : SecretStays(s)

\* What a step of a request leaves alone.
MetadataEffect ==
    /\ stale \subseteq stale'
    /\ \A u \in Users \ stale' : user'[u] # NoUser => GoodRow(user'[u])
    /\ \A u \in Users \ stale' : user[u] # NoUser =>
         /\ user'[u] # NoUser
         /\ user[u].metadata.mfaSecret => user'[u].metadata.mfaSecret

LEMMA UsersKept ==
    ASSUME GoodRows, UNCHANGED <<user, stale>>
    PROVE  MetadataEffect
  BY DEF GoodRows, MetadataEffect

LEMMA RowEffect ==
    ASSUME IInv, GoodRows, NEW u \in Users, NEW row \in UserRows,
           user' = [user EXCEPT ![u] = row], stale \subseteq stale',
           u \notin stale' => GoodRow(row),
           u \notin stale' /\ user[u] # NoUser =>
             (user[u].metadata.mfaSecret => row.metadata.mfaSecret)
    PROVE  MetadataEffect
<1>1. /\ user'[u] = row /\ row # NoUser
      /\ \A v \in Users \ {u} : user'[v] = user[v]
  BY AccountsAssumption DEF IInv
<1>. QED
  BY <1>1 DEF MetadataEffect, GoodRows

\* The four requests that begin with a read, and write all of it back.
LEMMA ReadersEffect ==
    ASSUME IInv, MInv, NEW s \in Slots,
           \/ registerTwoFactor(s) \/ generateTemporaryPassword(s)
           \/ changeTemporaryPassword(s) \/ updateProfile(s)
    PROVE  MetadataEffect
<1>. DEFINE u == req[s].user
            old == req[s].metadata
<1>1. req[s].op \in {"register", "generate", "change", "profile"} /\ WritesBack(u, old)
  BY DEF registerTwoFactor, generateTemporaryPassword, changeTemporaryPassword,
         updateProfile
<1>2. u \in Users /\ user[u] # NoUser /\ user[u] \in UserRows /\ old \in Metadata
  BY <1>1, Writes, Fields, Keeps
<1>3. /\ stale \subseteq stale'
      /\ u \notin stale' => old = user[u].metadata /\ GoodRow(user[u])
  BY <1>1, <1>2 DEF MInv, GoodRows, WritesBack
<1>4. CASE registerTwoFactor(s)
  <2>. DEFINE row == [user[u] EXCEPT !.mfaEnabled = FALSE,
                                     !.metadata = [old EXCEPT !.mfaSecret = TRUE]]
  <2>1. row \in UserRows
    BY <1>2 DEF UserRows, Metadata
  <2>2. u \notin stale' =>
          GoodRow(row) /\ (user[u].metadata.mfaSecret => row.metadata.mfaSecret)
    BY <1>2, <1>3 DEF UserRows, Metadata, GoodRow
  <2>3. user' = [user EXCEPT ![u] = row]
    BY <1>4 DEF registerTwoFactor, Write
  <2>. HIDE DEF row, u
  <2>. QED
    BY <1>2, <1>3, <2>1, <2>2, <2>3, RowEffect DEF MInv, u
<1>5. CASE generateTemporaryPassword(s)
  <2>. DEFINE row == [user[u] EXCEPT !.password = "temporary", !.status = "ACTIVE",
                                     !.metadata = [old EXCEPT !.passwordChangeRequired = TRUE]]
  <2>1. row \in UserRows
    BY <1>2 DEF UserRows, Metadata
  <2>2. u \notin stale' =>
          GoodRow(row) /\ (user[u].metadata.mfaSecret => row.metadata.mfaSecret)
    BY <1>2, <1>3 DEF UserRows, Metadata, GoodRow
  <2>3. user' = [user EXCEPT ![u] = row]
    BY <1>5 DEF generateTemporaryPassword, Write
  <2>. HIDE DEF row, u
  <2>. QED
    BY <1>2, <1>3, <2>1, <2>2, <2>3, RowEffect DEF MInv, u
<1>6. CASE changeTemporaryPassword(s)
  <2>. DEFINE row == [user[u] EXCEPT !.password = "chosen",
                                     !.metadata = [old EXCEPT !.passwordChangeRequired = FALSE]]
  <2>1. row \in UserRows
    BY <1>2 DEF UserRows, Metadata
  <2>2. u \notin stale' =>
          GoodRow(row) /\ (user[u].metadata.mfaSecret => row.metadata.mfaSecret)
    BY <1>2, <1>3 DEF UserRows, Metadata, GoodRow
  <2>3. user' = [user EXCEPT ![u] = row]
    BY <1>6 DEF changeTemporaryPassword, Write
  <2>. HIDE DEF row, u
  <2>. QED
    BY <1>2, <1>3, <2>1, <2>2, <2>3, RowEffect DEF MInv, u
<1>7. CASE updateProfile(s)
  <2>. DEFINE row == [user[u] EXCEPT !.metadata = old]
  <2>1. row \in UserRows
    BY <1>2 DEF UserRows, Metadata
  <2>2. u \notin stale' =>
          GoodRow(row) /\ (user[u].metadata.mfaSecret => row.metadata.mfaSecret)
    BY <1>2, <1>3 DEF UserRows, Metadata, GoodRow
  <2>3. user' = [user EXCEPT ![u] = row]
    BY <1>7 DEF updateProfile, Write
  <2>. HIDE DEF row, u
  <2>. QED
    BY <1>2, <1>3, <2>1, <2>2, <2>3, RowEffect DEF MInv, u
<1>. QED
  BY <1>4, <1>5, <1>6, <1>7

\* A recovery key, which writes the password and what the request has read.
LEMMA ReplaceEffect ==
    ASSUME IInv, MInv, NEW s \in Slots, replacePassword(s)
    PROVE  MetadataEffect
<1>. DEFINE u == key[req[s].key].user
            old == req[s].metadata
            row == [user[u] EXCEPT !.password = "chosen", !.status = "ACTIVE",
                                   !.metadata = [old EXCEPT !.passwordChangeRequired = FALSE]]
<1>1. /\ req[s] \in Requests /\ SafeRequest(req[s], user, key)
      /\ req[s].op = "complete" /\ req[s].pc = "write" /\ WritesBack(u, old)
  BY Keeps DEF replacePassword
<1>2. req[s].key \in Keys /\ key[req[s].key] \in KeyRows
  BY <1>1, Fields DEF SafeRequest, IInv
<1>3. u \in Users /\ user[u] # NoUser /\ user[u] \in UserRows /\ old \in Metadata
  BY <1>1, <1>2, Fields DEF SafeRequest, IInv, KeyRows
<1>4. /\ stale \subseteq stale'
      /\ u \notin stale' => old = user[u].metadata /\ GoodRow(user[u])
  BY <1>1, <1>3 DEF MInv, GoodRows, WritesBack
<1>5. /\ row \in UserRows
      /\ u \notin stale' =>
           GoodRow(row) /\ (user[u].metadata.mfaSecret => row.metadata.mfaSecret)
  BY <1>3, <1>4 DEF UserRows, Metadata, GoodRow
<1>6. user' = [user EXCEPT ![u] = row]
  <2>. DEFINE meta == [old EXCEPT !.passwordChangeRequired = FALSE]
  <2>1. user' = [user EXCEPT ![u].password = "chosen", ![u].status = "ACTIVE",
                             ![u].metadata = meta]
    BY DEF replacePassword
  <2>. HIDE DEF meta
  <2>2. user' = [user EXCEPT ![u] = [user[u] EXCEPT !.password = "chosen", !.status = "ACTIVE",
                                                    !.metadata = meta]]
    BY <2>1, <1>3 DEF IInv, UserRows
  <2>. QED
    BY <2>2 DEF meta
<1>. HIDE DEF row, u
<1>. QED
  BY <1>3, <1>4, <1>5, <1>6, RowEffect DEF MInv

\* A row whose metadata stays, and which is as good as it was.
LEMMA SameMetadata ==
    ASSUME IInv, MInv, NEW u \in Users, NEW row \in UserRows,
           user' = [user EXCEPT ![u] = row], stale' = stale,
           u \notin stale => GoodRow(row),
           user[u] # NoUser => row.metadata = user[u].metadata
    PROVE  MetadataEffect
  BY RowEffect DEF MInv

\* Requests that leave the metadata of the user that they write.
LEMMA OthersEffect ==
    ASSUME IInv, MInv, NEW s \in Slots,
           validateTwoFactor(s) \/ deleteUser(s) \/ ActivateUser(s) \/ updateRole(s)
    PROVE  MetadataEffect
<1>. DEFINE u == req[s].user
<1>1. \/ req[s].op \in {"validate", "delete", "role"}
      \/ req[s].op = "create" /\ req[s].pc = "activate"
  BY DEF validateTwoFactor, deleteUser, ActivateUser, updateRole
<1>2. /\ u \in Users /\ user[u] # NoUser /\ user[u] \in UserRows /\ stale' = stale
      /\ u \notin stale => GoodRow(user[u])
      /\ req[s].op = "role" => req[s].role \in Roles
  BY <1>1, Writes, Fields, Keeps
  DEF MInv, GoodRows, validateTwoFactor, deleteUser, ActivateUser, updateRole
<1>3. CASE UNCHANGED user
  BY <1>2, <1>3, UsersKept DEF MInv
<1>4. CASE \E row \in UserRows : /\ user' = [user EXCEPT ![u] = row]
                                 /\ u \notin stale => GoodRow(row)
                                 /\ row.metadata = user[u].metadata
  BY <1>2, <1>4, SameMetadata
<1>5. CASE validateTwoFactor(s)
  <2>. DEFINE row == [user[u] EXCEPT !.mfaEnabled = req[s].verified]
  <2>1. /\ req[s].verified \in BOOLEAN
        /\ u \notin stale => user[u].metadata.mfaSecret
    BY <1>5, Fields, Keeps DEF validateTwoFactor, MInv, SecretStays
  <2>2. /\ row \in UserRows /\ row.metadata = user[u].metadata
        /\ u \notin stale => GoodRow(row)
    BY <1>2, <2>1 DEF UserRows, GoodRow
  <2>3. user' = [user EXCEPT ![u] = row]
    BY <1>5 DEF validateTwoFactor, Write
  <2>. HIDE DEF row
  <2>. QED
    BY <1>4, <2>2, <2>3
<1>6. CASE deleteUser(s)
  <2>. DEFINE row == [user[u] EXCEPT !.status = "DISABLED"]
  <2>1. /\ row \in UserRows /\ row.metadata = user[u].metadata
        /\ u \notin stale => GoodRow(row)
    BY <1>2 DEF UserRows, GoodRow
  <2>2. user' = [user EXCEPT ![u] = row]
    BY <1>6 DEF deleteUser, Write
  <2>. HIDE DEF row
  <2>. QED
    BY <1>4, <2>1, <2>2
<1>7. CASE ActivateUser(s)
  <2>. DEFINE row == [user[u] EXCEPT !.status = "ACTIVE"]
  <2>1. /\ row \in UserRows /\ row.metadata = user[u].metadata
        /\ u \notin stale => GoodRow(row)
    BY <1>2 DEF UserRows, GoodRow
  <2>2. user' = [user EXCEPT ![u] = row]
    BY <1>7 DEF ActivateUser, Write
  <2>. HIDE DEF row
  <2>. QED
    BY <1>4, <2>1, <2>2
<1>8. CASE updateRole(s) /\ TriggerAllows(u, req[s].role)
  <2>. DEFINE row == [user[u] EXCEPT !.role = req[s].role]
  <2>1. /\ row \in UserRows /\ row.metadata = user[u].metadata
        /\ u \notin stale => GoodRow(row)
    BY <1>2, <1>8 DEF UserRows, GoodRow, updateRole
  <2>2. user' = [user EXCEPT ![u] = row]
    BY <1>8 DEF updateRole, Write
  <2>. HIDE DEF row
  <2>. QED
    BY <1>4, <2>1, <2>2
<1>9. CASE updateRole(s) /\ ~TriggerAllows(u, req[s].role)
  BY <1>3, <1>9 DEF updateRole
<1>. QED
  BY <1>5, <1>6, <1>7, <1>8, <1>9

LEMMA GoodNewRow ==
    ASSUME NEW role \in Roles, NEW status \in {"INVITED", "ACTIVE"}, NEW password \in Passwords
    PROVE  GoodRow(Row(role, status, password))
  BY DEF GoodRow, Row, Passwords

\* Creations and starts of instances: a row where there was none, or a role and a
\* password that was chosen.
LEMMA CreationEffect ==
    ASSUME IInv, MInv, NEW s \in Slots,
           InsertUser(s) \/ BootstrapCreate(s) \/ reconcileBootstrapUser(s)
    PROVE  MetadataEffect
<1>0. stale' = stale
  BY DEF InsertUser, BootstrapCreate, reconcileBootstrapUser
<1>1. CASE UNCHANGED user
  BY <1>0, <1>1, UsersKept DEF MInv
<1>2. ASSUME NEW u \in Users, user[u] = NoUser, NEW row \in UserRows,
             user' = [user EXCEPT ![u] = row], GoodRow(row)
      PROVE  MetadataEffect
  BY <1>0, <1>2, SameMetadata
<1>3. CASE InsertUser(s)
  <2>. DEFINE u == req[s].user
              role == req[s].role
  <2>1. req[s].op = "create" /\ u \in Users /\ role \in Roles
    BY <1>3, Fields, Keeps DEF InsertUser
  <2>2. \/ UNCHANGED user
        \/ /\ user[u] = NoUser
           /\ \E status \in {"INVITED", "ACTIVE"} : \E password \in Passwords :
                user' = [user EXCEPT ![u] = Row(role, status, password)]
    BY <1>3, Inserts DEF Write
  <2>. HIDE DEF u, role
  <2>. QED
    BY <2>1, <2>2, <1>1, <1>2, RowOf, GoodNewRow
<1>4. CASE BootstrapCreate(s)
  <2>1. Admin \in Users /\ "super_admin" \in Roles
    BY AccountsAssumption DEF Roles
  <2>2. \/ UNCHANGED user
        \/ user[Admin] = NoUser /\ user' = [user EXCEPT ![Admin] = Row("super_admin", "ACTIVE", "chosen")]
    <3>1. CASE ~TriggerAllows(Admin, "super_admin")
      BY <1>4, <3>1 DEF BootstrapCreate
    <3>2. CASE TriggerAllows(Admin, "super_admin") /\ user[Admin] # NoUser
      BY <1>4, <3>2 DEF BootstrapCreate
    <3>3. CASE TriggerAllows(Admin, "super_admin") /\ user[Admin] = NoUser
      BY <1>4, <3>3 DEF BootstrapCreate, Write
    <3>. QED
      BY <3>1, <3>2, <3>3
  <2>. QED
    BY <2>1, <2>2, <1>1, <1>2, RowOf, GoodNewRow DEF Passwords
<1>5. CASE reconcileBootstrapUser(s)
  <2>0. req[s].op = "bootstrap" /\ req[s].pc = "reconcile"
    BY <1>5 DEF reconcileBootstrapUser
  <2>1. /\ req[s].matches \in BOOLEAN /\ Admin \in Users
        /\ user[Admin] # NoUser /\ user[Admin] \in UserRows
        /\ Admin \notin stale => GoodRow(user[Admin])
    BY <2>0, Fields, Keeps, AccountsAssumption DEF MInv, GoodRows
  <2>2. CASE TriggerAllows(Admin, "super_admin")
    <3>. DEFINE password == IF req[s].matches THEN user[Admin].password ELSE "chosen"
                row == [user[Admin] EXCEPT !.status = "ACTIVE", !.role = "super_admin",
                                           !.password = password]
    <3>1. password \in {"chosen", user[Admin].password}
      BY <2>1
    <3>2. user' = [user EXCEPT ![Admin] = row]
      BY <1>5, <2>2, <2>1 DEF reconcileBootstrapUser, UserRows, Write
    <3>. HIDE DEF password
    <3>3. /\ row \in UserRows /\ row.metadata = user[Admin].metadata
          /\ Admin \notin stale => GoodRow(row)
      BY <2>1, <3>1 DEF UserRows, GoodRow, Roles
    <3>. HIDE DEF row
    <3>. QED
      BY <1>0, <2>1, <3>2, <3>3, SameMetadata
  <2>3. CASE ~TriggerAllows(Admin, "super_admin")
    BY <1>1, <1>5, <2>3 DEF reconcileBootstrapUser
  <2>. QED
    BY <2>2, <2>3
<1>. QED
  BY <1>3, <1>4, <1>5

LEMMA ContinueEffect ==
    ASSUME IInv, MInv, NEW s \in Slots, Continue(s)
    PROVE  MetadataEffect
<1>1. CASE FinishLogin(s) \/ ReadForReplace(s) \/ DeleteKey(s) \/ BootstrapFind(s) \/ Fail(s)
  BY <1>1, UsersKept DEF FinishLogin, ReadForReplace, DeleteKey, BootstrapFind, Fail, MInv
<1>. QED
  BY <1>1, ReadersEffect, ReplaceEffect, OthersEffect, CreationEffect DEF Continue

\* A request goes on with the same operation, or ends.
LEMMA NextRequest ==
    ASSUME IInv, NEW s \in Slots, Continue(s)
    PROVE  \E r : /\ req' = [req EXCEPT ![s] = r]
                  /\ r = Idle \/ (r.op = req[s].op /\ r.op \in {"complete", "create", "bootstrap"})
<1>1. req[s] \in Requests /\ (Return(s) => req' = [req EXCEPT ![s] = Idle])
  BY DEF IInv, Return
<1>2. CASE \/ FinishLogin(s) \/ registerTwoFactor(s) \/ validateTwoFactor(s)
           \/ generateTemporaryPassword(s) \/ changeTemporaryPassword(s)
           \/ updateProfile(s) \/ updateRole(s) \/ ActivateUser(s) \/ deleteUser(s) \/ Fail(s)
           \/ reconcileBootstrapUser(s) \/ DeleteKey(s)
  BY <1>1, <1>2
  DEF FinishLogin, registerTwoFactor, validateTwoFactor, generateTemporaryPassword,
      changeTemporaryPassword, updateProfile, updateRole, ActivateUser, deleteUser, Fail,
      reconcileBootstrapUser, DeleteKey, Write
<1>3. CASE ReadForReplace(s)
  <2>. DEFINE r == [op |-> "complete", pc |-> "write", key |-> req[s].key,
                    metadata |-> user[key[req[s].key].user].metadata]
  <2>1. req' = [req EXCEPT ![s] = r] /\ r.op = req[s].op /\ r.op = "complete"
    BY <1>3 DEF ReadForReplace
  <2>. QED
    BY <2>1
<1>4. CASE replacePassword(s)
  <2>. DEFINE r == [op |-> "complete", pc |-> "delete", key |-> req[s].key]
  <2>1. req' = [req EXCEPT ![s] = r] /\ r.op = req[s].op /\ r.op = "complete"
    BY <1>4 DEF replacePassword
  <2>. QED
    BY <2>1
<1>5. ASSUME NEW pc, req' = [req EXCEPT ![s].pc = pc], req[s].op \in {"create", "bootstrap"}
      PROVE  \E r : /\ req' = [req EXCEPT ![s] = r]
                    /\ r = Idle \/ (r.op = req[s].op /\ r.op \in {"complete", "create", "bootstrap"})
  <2>. DEFINE r == [req[s] EXCEPT !.pc = pc]
  <2>1. req' = [req EXCEPT ![s] = r]
    BY <1>5
  <2>2. r.op = req[s].op
    BY <1>1, <1>5 DEF Requests, Idle
  <2>. HIDE DEF r
  <2>. QED
    BY <1>5, <2>1, <2>2
<1>6. CASE InsertUser(s)
  <2>1. Return(s) \/ req' = [req EXCEPT ![s].pc = "activate"]
    BY <1>6, Inserts DEF Write
  <2>. QED
    BY <1>1, <1>5, <1>6, <2>1 DEF InsertUser
<1>7. CASE BootstrapCreate(s)
  <2>1. Return(s) \/ req' = [req EXCEPT ![s].pc = "find"]
    <3>1. CASE ~TriggerAllows(Admin, "super_admin")
      BY <1>7, <3>1 DEF BootstrapCreate
    <3>2. CASE TriggerAllows(Admin, "super_admin") /\ user[Admin] # NoUser
      BY <1>7, <3>2 DEF BootstrapCreate
    <3>3. CASE TriggerAllows(Admin, "super_admin") /\ user[Admin] = NoUser
      BY <1>7, <3>3 DEF BootstrapCreate, Write
    <3>. QED
      BY <3>1, <3>2, <3>3
  <2>. QED
    BY <1>1, <1>5, <1>7, <2>1 DEF BootstrapCreate
<1>8. CASE BootstrapFind(s)
  <2>1. Return(s) \/ \E r \in Reconciling : req' = [req EXCEPT ![s] = r]
    BY <1>8 DEF BootstrapFind
  <2>2. req[s].op = "bootstrap" /\ \A r \in Reconciling : r.op = "bootstrap"
    BY <1>8 DEF Reconciling, BootstrapFind
  <2>. QED
    BY <1>1, <2>1, <2>2
<1>. QED
  BY <1>2, <1>3, <1>4, <1>6, <1>7, <1>8 DEF Continue

\* A request is accepted that has just read what it relies on.
LEMMA AcceptSecret ==
    ASSUME MInv, IInv, NEW s \in Slots, NEW u, NEW r, Accept(s, u, r),
           UNCHANGED <<user, stale>>,
           r.op = "validate" => user[r.user].metadata.mfaSecret
    PROVE  MInv'
<1>1. GoodRows'
  BY DEF MInv, GoodRows
<1>2. ASSUME NEW t \in Slots PROVE SecretStays(t)'
  <2>1. CASE t # s
    <3>1. req'[t] = req[t]
      BY <2>1 DEF Accept, IInv
    <3>. QED
      BY <3>1 DEF MInv, SecretStays
  <2>2. CASE t = s
    <3>1. req'[t] = r
      BY <2>2 DEF Accept, IInv
    <3>. QED
      BY <2>2, <3>1 DEF SecretStays
  <2>. QED
    BY <2>1, <2>2
<1>. QED
  BY <1>1, <1>2 DEF MInv

LEMMA StartMetadata == ASSUME IInv, MInv, Start PROVE MInv'
<1>. PICK s \in Slots :
       \/ StartBootstrap(s)
       \/ \E k \in Keys : StartComplete(s, k)
       \/ \E u \in Users :
            \/ StartLogin(s, u) \/ StartValidate(s, u) \/ StartDelete(s, u)
            \/ \E op \in AllOps : StartRead(s, op, u)
            \/ \E role \in Roles : StartRole(s, u, role) \/ StartCreate(s, u, role)
  BY DEF Start
<1>1. ASSUME NEW u, NEW r, Accept(s, u, r), UNCHANGED <<user, stale>>,
             r.op \in {"bootstrap", "login", "delete", "role", "create"}
      PROVE  MInv'
  BY <1>1, AcceptSecret
<1>2. CASE StartBootstrap(s)
  <2>1. UNCHANGED <<user, stale>>
        /\ \E r : Accept(s, Admin, r) /\ r.op = "bootstrap"
    BY <1>2 DEF StartBootstrap, Reconciling
  <2>. QED
    BY <1>1, <2>1
<1>3. ASSUME NEW k \in Keys, StartComplete(s, k) PROVE MInv'
  <2>. DEFINE r == [op |-> "complete", pc |-> "read", key |-> k]
  <2>1. Accept(s, key[k].user, r) /\ UNCHANGED <<user, stale>>
    BY <1>3 DEF StartComplete
  <2>. QED
    BY <2>1, AcceptSecret
<1>4. ASSUME NEW u \in Users, StartLogin(s, u) \/ StartDelete(s, u) PROVE MInv'
  <2>1. UNCHANGED <<user, stale>>
        /\ \E r : Accept(s, u, r) /\ r.op \in {"login", "delete"}
    BY <1>4 DEF StartLogin, StartDelete
  <2>. QED
    BY <1>1, <2>1
<1>5. ASSUME NEW u \in Users, StartValidate(s, u) PROVE MInv'
  <2>1. PICK verified \in BOOLEAN :
          Accept(s, u, [op |-> "validate", user |-> u, verified |-> verified])
    BY <1>5 DEF StartValidate
  <2>2. user[u].metadata.mfaSecret /\ UNCHANGED <<user, stale>>
    BY <1>5 DEF StartValidate
  <2>. QED
    BY <2>1, <2>2, AcceptSecret
<1>6. ASSUME NEW u \in Users, NEW op \in AllOps, StartRead(s, op, u) PROVE MInv'
  <2>1. /\ op \in {"register", "generate", "change", "profile"}
        /\ Accept(s, u, [op |-> op, user |-> u, metadata |-> user[u].metadata])
        /\ UNCHANGED <<user, stale>>
    BY <1>6 DEF StartRead
  <2>. QED
    BY <2>1, AcceptSecret
<1>7. ASSUME NEW u \in Users, NEW role \in Roles, StartRole(s, u, role) \/ StartCreate(s, u, role)
      PROVE  MInv'
  <2>1. UNCHANGED <<user, stale>>
        /\ \E r : Accept(s, u, r) /\ r.op \in {"role", "create"}
    BY <1>7 DEF StartRole, StartCreate
  <2>. QED
    BY <1>1, <2>1
<1>. QED
  BY <1>2, <1>3, <1>4, <1>5, <1>6, <1>7

\* What happens to a user beside the requests leaves the metadata: only a removal ends it,
\* and the requests with it.
LEMMA AtomicMetadata == ASSUME IInv, IInv', MInv, Atomic PROVE MInv'
<1>1. ASSUME NEW u \in Users, restore(u) PROVE MInv'
  <2>1. /\ user[u] # NoUser /\ user[u] \in UserRows /\ UNCHANGED <<stale, req>>
        /\ u \notin stale => GoodRow(user[u])
    BY <1>1 DEF restore, IInv, MInv, GoodRows
  <2>. DEFINE row == [user[u] EXCEPT !.status = "ACTIVE"]
  <2>2. /\ row.metadata = user[u].metadata
        /\ u \notin stale => GoodRow(row)
    BY <2>1 DEF UserRows, GoodRow
  <2>3. user' = [user EXCEPT ![u] = row]
    BY <1>1 DEF restore, IInv
  <2>. HIDE DEF row
  <2>4. GoodRows'
    BY <2>1, <2>2, <2>3 DEF IInv, MInv, GoodRows
  <2>5. \A v \in Users : user[v] # NoUser => user'[v].metadata = user[v].metadata
    BY <2>2, <2>3 DEF IInv
  <2>6. \A s \in Slots : req[s].op = "validate" =>
          req[s].user \in Users /\ user[req[s].user] # NoUser
    BY Writes
  <2>. QED
    BY <2>1, <2>4, <2>5, <2>6 DEF MInv, SecretStays
<1>2. ASSUME NEW k \in Keys,
             \/ ExpireKey(k)
             \/ \E u \in Users, namespace \in {"admin-reset", "forgot-password"} :
                  requestReset(k, namespace, u)
      PROVE  MInv'
  <2>1. UNCHANGED <<user, stale, req>>
    BY <1>2 DEF ExpireKey, requestReset
  <2>. QED
    BY <2>1 DEF MInv, GoodRows, SecretStays
<1>3. ASSUME NEW selected \in SUBSET Users, hardRemoveDisabledUsers(selected) PROVE MInv'
  <2>1. /\ user' = [u \in Users |-> IF u \in selected THEN NoUser ELSE user[u]]
        /\ stale' = stale \ selected
    BY <1>3 DEF hardRemoveDisabledUsers
  <2>2. GoodRows'
    BY <2>1 DEF MInv, GoodRows
  <2>3. ASSUME NEW s \in Slots PROVE SecretStays(s)'
    <3>1. req'[s] = IF (Targets(req[s]) \cup Completing(req[s])) \cap selected # {}
                      THEN Idle ELSE req[s]
      BY <1>3 DEF hardRemoveDisabledUsers
    <3>2. CASE (Targets(req[s]) \cup Completing(req[s])) \cap selected # {}
      BY <3>1, <3>2 DEF SecretStays, Idle
    <3>3. CASE (Targets(req[s]) \cup Completing(req[s])) \cap selected = {}
      <4>1. req'[s] = req[s] /\ req[s] \in Requests /\ SecretStays(s)
        BY <3>1, <3>3, Keeps DEF MInv
      <4>2. req[s].op = "validate" => req[s].user \in Users /\ req[s].user \notin selected
        BY <3>3, <4>1, Fields
      <4>. QED
        BY <2>1, <4>1, <4>2 DEF SecretStays
    <3>. QED
      BY <3>2, <3>3
  <2>. QED
    BY <2>2, <2>3 DEF MInv
<1>. QED
  BY <1>1, <1>2, <1>3 DEF Atomic

LEMMA MetadataInductive ==
    ASSUME IInv, IInv', MInv, [Next]_vars
    PROVE  MInv'
<1>1. CASE Start
  BY <1>1, StartMetadata
<1>2. ASSUME NEW s \in Slots, Continue(s) PROVE MInv'
  <2>1. MetadataEffect
    BY <1>2, ContinueEffect
  <2>2. PICK r : /\ req' = [req EXCEPT ![s] = r]
                 /\ r = Idle \/ (r.op = req[s].op /\ r.op \in {"complete", "create", "bootstrap"})
    BY <1>2, NextRequest
  <2>3. ASSUME NEW t \in Slots PROVE SecretStays(t)'
    <3>1. CASE t = s
      <4>1. req'[t] = r /\ r.op # "validate"
        BY <2>2, <3>1 DEF IInv, Idle
      <4>. QED
        BY <4>1 DEF SecretStays
    <3>2. CASE t # s
      <4>1. req'[t] = req[t] /\ SecretStays(t)
        BY <2>2, <3>2 DEF IInv, MInv
      <4>2. req[t].op = "validate" => req[t].user \in Users /\ user[req[t].user] # NoUser
        BY Writes
      <4>. QED
        BY <2>1, <4>1, <4>2 DEF SecretStays, MetadataEffect
    <3>. QED
      BY <3>1, <3>2
  <2>. QED
    BY <2>1, <2>3 DEF MInv, GoodRows, MetadataEffect
<1>3. CASE Atomic
  BY <1>3, AtomicMetadata
<1>4. CASE UNCHANGED vars
  BY <1>4 DEF vars, MInv, GoodRows, SecretStays
<1>. QED
  BY <1>1, <1>2, <1>3, <1>4 DEF Next

LEMMA MetadataInvariance == Spec => []MInv
<1>1. Init => MInv
  <2>. SUFFICES ASSUME Init PROVE MInv
    OBVIOUS
  <2>1. GoodRows
    <3>. SUFFICES ASSUME NEW u \in Users, user[u] # NoUser PROVE GoodRow(user[u])
      BY DEF GoodRows
    <3>1. user[u] = Row(Present[u], "ACTIVE", "chosen") /\ Present[u] \in Roles
      BY AccountsAssumption DEF Init
    <3>. QED
      BY <3>1, GoodNewRow DEF Passwords
  <2>2. \A s \in Slots : SecretStays(s)
    BY DEF Init, SecretStays, Idle
  <2>. QED
    BY <2>1, <2>2 DEF MInv
<1>2. IInv /\ IInv' /\ MInv /\ [Next]_vars => MInv'
  BY MetadataInductive
<1>. QED
  BY <1>1, <1>2, Invariance, PTL DEF Spec

\* Whoever is asked for a code has a secret to make it with, unless an outdated copy of his
\* metadata was written back, however the other writers of it meet validations, resets,
\* deletions, creations and starts of instances.
THEOREM SecondFactor == Spec => []SecondFactorUsable
<1>1. MInv => SecondFactorUsable
  BY DEF MInv, GoodRows, GoodRow, SecondFactorUsable
<1>. QED
  BY <1>1, MetadataInvariance, PTL

\* Of the same users, whoever has a temporary password is asked to change it.
THEOREM TemporaryPassword == Spec => []TemporaryMustChange
<1>1. MInv => TemporaryMustChange
  BY DEF MInv, GoodRows, GoodRow, TemporaryMustChange
<1>. QED
  BY <1>1, MetadataInvariance, PTL

-----------------------------------------------------------------------------
(* The super administrator stays.  A change of role has looked at the role     *)
(* before it writes: it gives that of the super administrator, or takes it,    *)
(* from nobody whom it has read.                                               *)

RoleAgrees(s) ==
    req[s].op = "role" /\ "super_admin" \in {req[s].role, req[s].read} =>
      req[s].role = req[s].read

RInv == \A s \in Slots : RoleAgrees(s)

\* The change of role of a user who was no super administrator when it was let through.
Outdated(s, u) ==
    /\ req[s].op = "role" /\ req[s].user = u /\ req[s].read # "super_admin"
    /\ req'[s] = Idle

RoleEffect(s) == \A u \in Users : IsSuper(u) => IsSuper(u)' \/ Outdated(s, u)

LEMMA SameRoles ==
    ASSUME UNCHANGED user, NEW s
    PROVE  RoleEffect(s)
  BY DEF RoleEffect, IsSuper

LEMMA RowRole ==
    ASSUME IInv, NEW s \in Slots, NEW u \in Users, NEW row \in UserRows,
           user' = [user EXCEPT ![u] = row],
           IsSuper(u) => row.role = "super_admin" \/ Outdated(s, u)
    PROVE  RoleEffect(s)
<1>1. /\ user'[u] = row /\ row # NoUser
      /\ \A v \in Users \ {u} : user'[v] = user[v]
  BY AccountsAssumption DEF IInv
<1>. QED
  BY <1>1 DEF RoleEffect, IsSuper

LEMMA ContinueRoles ==
    ASSUME IInv, RInv, NEW s \in Slots, Continue(s)
    PROVE  RoleEffect(s)
<1>1. ASSUME NEW u \in Users, user[u] = NoUser, NEW row \in UserRows,
             user' = [user EXCEPT ![u] = row]
      PROVE  RoleEffect(s)
  BY <1>1, RowRole DEF IsSuper
<1>2. CASE \/ FinishLogin(s) \/ ReadForReplace(s) \/ DeleteKey(s) \/ BootstrapFind(s) \/ Fail(s)
  BY <1>2, SameRoles DEF FinishLogin, ReadForReplace, DeleteKey, BootstrapFind, Fail
<1>3. CASE \/ registerTwoFactor(s) \/ generateTemporaryPassword(s) \/ changeTemporaryPassword(s)
           \/ updateProfile(s) \/ validateTwoFactor(s) \/ deleteUser(s) \/ ActivateUser(s)
  <2>1. /\ req[s].user \in Users /\ user[req[s].user] # NoUser
        /\ \E row \in UserRows : /\ Write(s, req[s].user, row)
                                 /\ row.role = user[req[s].user].role
    BY <1>3, MetadataRow, FlagRow
  <2>. QED
    BY <2>1, RowRole DEF Write, IsSuper
<1>4. CASE replacePassword(s)
  <2>. DEFINE u == key[req[s].key].user
              meta == [req[s].metadata EXCEPT !.passwordChangeRequired = FALSE]
  <2>1. req[s] \in Requests /\ req[s].op = "complete" /\ req[s].pc = "write"
        /\ SafeRequest(req[s], user, key)
    BY <1>4, Keeps DEF replacePassword
  <2>2. u \in Users /\ user[u] # NoUser
    BY <2>1, Fields DEF SafeRequest, IInv, KeyRows
  <2>3. user[u] \in UserRows /\ req[s].metadata \in Metadata
    BY <2>1, <2>2, Fields DEF IInv
  <2>4. user' = [user EXCEPT ![u].password = "chosen", ![u].status = "ACTIVE",
                             ![u].metadata = meta]
    BY <1>4 DEF replacePassword
  <2>5. meta \in Metadata
    BY <2>3 DEF Metadata
  <2>. HIDE DEF meta, u
  <2>. DEFINE row == [user[u] EXCEPT !.password = "chosen", !.status = "ACTIVE",
                                     !.metadata = meta]
  <2>6. user' = [user EXCEPT ![u] = row] /\ row \in UserRows /\ row.role = user[u].role
    BY <2>2, <2>3, <2>4, <2>5 DEF IInv, UserRows
  <2>. HIDE DEF row
  <2>. QED
    BY <2>2, <2>6, RowRole DEF IsSuper
<1>5. CASE updateRole(s)
  <2>. DEFINE u == req[s].user
              row == [user[u] EXCEPT !.role = req[s].role]
  <2>1. /\ req[s].op = "role" /\ u \in Users /\ user[u] # NoUser /\ user[u] \in UserRows
        /\ req[s].role \in Roles /\ RoleAgrees(s)
    BY <1>5, Writes, Fields, Keeps DEF updateRole, RInv
  <2>2. row \in UserRows /\ row.role = req[s].role
    BY <2>1 DEF UserRows
  <2>3. \/ UNCHANGED user
        \/ user' = [user EXCEPT ![u] = row] /\ req' = [req EXCEPT ![s] = Idle]
    BY <1>5 DEF updateRole, Write, Return
  <2>4. req' = [req EXCEPT ![s] = Idle] /\ row.role # "super_admin" => Outdated(s, u)
    BY <2>1, <2>2 DEF RoleAgrees, Outdated, IInv
  <2>. HIDE DEF row, u
  <2>. QED
    BY <2>1, <2>2, <2>3, <2>4, RowRole, SameRoles
<1>6. CASE InsertUser(s)
  <2>. DEFINE u == req[s].user
              role == req[s].role
  <2>1. u \in Users /\ role \in Roles
    BY <1>6, Fields, Keeps DEF InsertUser
  <2>2. \/ UNCHANGED user
        \/ /\ user[u] = NoUser
           /\ \E status \in {"INVITED", "ACTIVE"} : \E password \in Passwords :
                user' = [user EXCEPT ![u] = Row(role, status, password)]
    BY <1>6, Inserts DEF Write
  <2>. HIDE DEF u, role
  <2>. QED
    BY <1>1, <2>1, <2>2, RowOf, SameRoles
<1>7. CASE BootstrapCreate(s)
  <2>1. Admin \in Users /\ "super_admin" \in Roles
    BY AccountsAssumption DEF Roles
  <2>2. CASE ~TriggerAllows(Admin, "super_admin")
    BY <1>7, <2>2, SameRoles DEF BootstrapCreate
  <2>3. CASE TriggerAllows(Admin, "super_admin") /\ user[Admin] # NoUser
    BY <1>7, <2>3, SameRoles DEF BootstrapCreate
  <2>4. CASE TriggerAllows(Admin, "super_admin") /\ user[Admin] = NoUser
    <3>1. user' = [user EXCEPT ![Admin] = Row("super_admin", "ACTIVE", "chosen")]
      BY <1>7, <2>4 DEF BootstrapCreate, Write
    <3>. QED
      BY <1>1, <2>1, <2>4, <3>1, RowOf DEF Passwords
  <2>. QED
    BY <2>2, <2>3, <2>4
<1>8. CASE reconcileBootstrapUser(s)
  <2>0. req[s].op = "bootstrap" /\ req[s].pc = "reconcile"
    BY <1>8 DEF reconcileBootstrapUser
  <2>1. /\ Admin \in Users /\ user[Admin] # NoUser /\ user[Admin] \in UserRows
        /\ "super_admin" \in Roles
    BY <2>0, Fields, Keeps, AccountsAssumption DEF Roles
  <2>2. CASE TriggerAllows(Admin, "super_admin")
    <3>. DEFINE password == IF req[s].matches THEN user[Admin].password ELSE "chosen"
                row == [user[Admin] EXCEPT !.status = "ACTIVE", !.role = "super_admin",
                                           !.password = password]
    <3>1. password \in {"chosen", "temporary", "generated"}
      BY <2>1 DEF UserRows
    <3>2. user' = [user EXCEPT ![Admin] = row]
      BY <1>8, <2>2, <2>1 DEF reconcileBootstrapUser, UserRows, Write
    <3>. HIDE DEF password
    <3>3. row \in UserRows /\ row.role = "super_admin"
      BY <2>1, <3>1 DEF UserRows
    <3>. HIDE DEF row
    <3>. QED
      BY <2>0, <2>1, <3>2, <3>3, RowRole
  <2>3. CASE ~TriggerAllows(Admin, "super_admin")
    BY <1>8, <2>3, SameRoles DEF reconcileBootstrapUser
  <2>. QED
    BY <2>2, <2>3
<1>. QED
  BY <1>2, <1>3, <1>4, <1>5, <1>6, <1>7, <1>8 DEF Continue

\* What happens beside the requests takes the role from nobody.
LEMMA AtomicRoles ==
    ASSUME IInv, Atomic
    PROVE  \A u \in Users : IsSuper(u) => IsSuper(u)'
<1>1. ASSUME NEW v \in Users, restore(v)
      PROVE  \A u \in Users : user'[u] # NoUser => user'[u].role = user[u].role
  BY <1>1 DEF restore, IInv, UserRows
<1>2. ASSUME NEW v \in Users, restore(v)
      PROVE  \A u \in Users : user[u] # NoUser => user'[u] # NoUser
  <2>1. IInv'
    BY <1>2, RestoreStep
  <2>. DEFINE row == [user[v] EXCEPT !.status = "ACTIVE"]
  <2>2. user[v] \in UserRows /\ user' = [user EXCEPT ![v] = row]
    BY <1>2 DEF restore, IInv
  <2>3. row \in UserRows
    BY <2>2 DEF UserRows
  <2>. HIDE DEF row
  <2>. QED
    BY <2>2, <2>3, AccountsAssumption DEF IInv
<1>3. ASSUME NEW selected \in SUBSET Users, hardRemoveDisabledUsers(selected)
      PROVE  \A u \in Users : IsSuper(u) <=> IsSuper(u)'
  <2>1. user' = [u \in Users |-> IF u \in selected THEN NoUser ELSE user[u]]
        /\ \A u \in selected : ~IsSuper(u)
    BY <1>3 DEF hardRemoveDisabledUsers, IsSuper
  <2>. QED
    BY <2>1 DEF IsSuper
<1>4. ASSUME NEW k \in Keys,
             \/ ExpireKey(k)
             \/ \E u \in Users, namespace \in {"admin-reset", "forgot-password"} :
                  requestReset(k, namespace, u)
      PROVE  UNCHANGED user
  BY <1>4 DEF ExpireKey, requestReset
<1>. QED
  BY <1>1, <1>2, <1>3, <1>4 DEF Atomic, IsSuper

\* A change of role is let through that agrees with what it has read.
LEMMA StartRoles == ASSUME IInv, RInv, Start PROVE RInv' /\ UNCHANGED user
<1>. PICK s \in Slots :
       \/ StartBootstrap(s)
       \/ \E k \in Keys : StartComplete(s, k)
       \/ \E u \in Users :
            \/ StartLogin(s, u) \/ StartValidate(s, u) \/ StartDelete(s, u)
            \/ \E op \in AllOps : StartRead(s, op, u)
            \/ \E role \in Roles : StartRole(s, u, role) \/ StartCreate(s, u, role)
  BY DEF Start
<1>1. ASSUME UNCHANGED user, NEW u, NEW r, Accept(s, u, r),
             r.op = "role" /\ "super_admin" \in {r.role, r.read} => r.role = r.read
      PROVE  RInv' /\ UNCHANGED user
  <2>. SUFFICES ASSUME NEW t \in Slots PROVE RoleAgrees(t)'
    BY <1>1 DEF RInv
  <2>1. CASE t # s
    <3>1. req'[t] = req[t]
      BY <1>1, <2>1 DEF Accept, IInv
    <3>. QED
      BY <1>1, <3>1 DEF RInv, RoleAgrees
  <2>2. CASE t = s
    <3>1. req'[t] = r
      BY <1>1, <2>2 DEF Accept, IInv
    <3>. QED
      BY <1>1, <3>1 DEF RoleAgrees
  <2>. QED
    BY <2>1, <2>2
<1>2. CASE StartBootstrap(s)
  <2>1. UNCHANGED user /\ \E r : Accept(s, Admin, r) /\ r.op = "bootstrap"
    BY <1>2 DEF StartBootstrap, Reconciling
  <2>. QED
    BY <1>1, <2>1
<1>3. ASSUME NEW k \in Keys, StartComplete(s, k) PROVE RInv' /\ UNCHANGED user
  <2>1. UNCHANGED user /\ \E r : Accept(s, key[k].user, r) /\ r.op = "complete"
    BY <1>3 DEF StartComplete
  <2>. QED
    BY <1>1, <2>1
<1>4. ASSUME NEW u \in Users,
             \/ StartLogin(s, u) \/ StartDelete(s, u) \/ StartValidate(s, u)
             \/ \E op \in AllOps : StartRead(s, op, u)
             \/ \E role \in Roles : StartCreate(s, u, role)
      PROVE  RInv' /\ UNCHANGED user
  <2>0. ASSUME UNCHANGED user, NEW r, Accept(s, u, r), r.op \notin {"bootstrap", "role"}
        PROVE  RInv' /\ UNCHANGED user
    BY <1>1, <2>0
  <2>1. CASE StartLogin(s, u)
    <3>1. UNCHANGED user /\ Accept(s, u, [op |-> "login", user |-> u])
      BY <2>1 DEF StartLogin
    <3>. QED
      BY <2>0, <3>1
  <2>2. CASE StartDelete(s, u)
    <3>1. UNCHANGED user /\ Accept(s, u, [op |-> "delete", user |-> u])
      BY <2>2 DEF StartDelete
    <3>. QED
      BY <2>0, <3>1
  <2>3. CASE StartValidate(s, u)
    <3>1. PICK verified \in BOOLEAN :
            UNCHANGED user
              /\ Accept(s, u, [op |-> "validate", user |-> u, verified |-> verified])
      BY <2>3 DEF StartValidate
    <3>. QED
      BY <2>0, <3>1
  <2>4. ASSUME NEW op \in AllOps, StartRead(s, op, u) PROVE RInv' /\ UNCHANGED user
    <3>1. /\ UNCHANGED user /\ op \in {"register", "generate", "change", "profile"}
          /\ Accept(s, u, [op |-> op, user |-> u, metadata |-> user[u].metadata])
      BY <2>4 DEF StartRead
    <3>. QED
      BY <2>0, <3>1
  <2>5. ASSUME NEW role \in Roles, StartCreate(s, u, role) PROVE RInv' /\ UNCHANGED user
    <3>1. /\ UNCHANGED user
          /\ Accept(s, u, [op |-> "create", pc |-> "insert", user |-> u, role |-> role])
      BY <2>5 DEF StartCreate
    <3>. QED
      BY <2>0, <3>1
  <2>. QED
    BY <1>4, <2>1, <2>2, <2>3, <2>4, <2>5
<1>5. ASSUME NEW u \in Users, NEW role \in Roles, StartRole(s, u, role)
      PROVE  RInv' /\ UNCHANGED user
  <2>. DEFINE r == [op |-> "role", user |-> u, read |-> user[u].role, role |-> role]
  <2>1. /\ UNCHANGED user /\ Accept(s, u, r)
        /\ "super_admin" \in {r.role, r.read} => r.role = r.read
    BY <1>5 DEF StartRole
  <2>. QED
    BY <1>1, <2>1
<1>. QED
  BY <1>2, <1>3, <1>4, <1>5

LEMMA RoleStepKeeps ==
    ASSUME IInv, RInv, [Next]_vars
    PROVE  /\ RInv'
           /\ \A u \in Users : IsSuper(u) => IsSuper(u)' \/ \E s \in Slots : Outdated(s, u)
<1>1. CASE Start
  BY <1>1, StartRoles DEF IsSuper
<1>2. ASSUME NEW s \in Slots, Continue(s)
      PROVE  /\ RInv'
             /\ \A u \in Users : IsSuper(u) => IsSuper(u)' \/ \E t \in Slots : Outdated(t, u)
  <2>1. RoleEffect(s)
    BY <1>2, ContinueRoles
  <2>2. PICK r : /\ req' = [req EXCEPT ![s] = r]
                 /\ r = Idle \/ (r.op = req[s].op /\ r.op \in {"complete", "create", "bootstrap"})
    BY <1>2, NextRequest
  <2>3. ASSUME NEW t \in Slots PROVE RoleAgrees(t)'
    <3>1. CASE t = s
      <4>1. req'[t] = r /\ r.op # "role"
        BY <2>2, <3>1 DEF IInv, Idle
      <4>. QED
        BY <4>1 DEF RoleAgrees
    <3>2. CASE t # s
      BY <2>2, <3>2 DEF IInv, RInv, RoleAgrees
    <3>. QED
      BY <3>1, <3>2
  <2>. QED
    BY <2>1, <2>3 DEF RInv, RoleEffect
<1>3. CASE Atomic
  <2>1. \A u \in Users : IsSuper(u) => IsSuper(u)'
    BY <1>3, AtomicRoles
  <2>2. ASSUME NEW t \in Slots PROVE RoleAgrees(t)'
    <3>1. req'[t] \in {Idle, req[t]}
      BY <1>3 DEF Atomic, restore, ExpireKey, requestReset, hardRemoveDisabledUsers
    <3>. QED
      BY <3>1 DEF RInv, RoleAgrees, Idle
  <2>. QED
    BY <2>1, <2>2 DEF RInv
<1>4. CASE UNCHANGED vars
  BY <1>4 DEF vars, RInv, RoleAgrees, IsSuper
<1>. QED
  BY <1>1, <1>2, <1>3, <1>4 DEF Next

\* The system keeps the super administrator it has, whatever overlaps, but for a change of
\* role that was let through before he became one.
THEOREM SuperAdminStays == Spec => SuperAdminKept
<1>1. Init => RInv
  BY DEF Init, RInv, RoleAgrees, Idle
<1>2. IInv /\ RInv /\ [Next]_vars => RInv'
  BY RoleStepKeeps
<1>3. IInv /\ RInv /\ [Next]_vars =>
        [\A u \in Users : IsSuper(u) =>
           \/ IsSuper(u)'
           \/ \E s \in Slots : /\ req[s].op = "role" /\ req[s].user = u
                               /\ req[s].read # "super_admin" /\ req'[s] = Idle]_vars
  BY RoleStepKeeps DEF Outdated
<1>. QED
  BY <1>1, <1>2, <1>3, Invariance, PTL DEF Spec, SuperAdminKept
=============================================================================
