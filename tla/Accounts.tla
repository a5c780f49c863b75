------------------------------ MODULE Accounts ------------------------------
(* Accounts: AccountAccessService (second factor, recovery keys, temporary   *)
(* passwords, management sign-in), the part of UsersService that creates,    *)
(* disables, restores and removes users and gives them roles, and            *)
(* BootstrapAdminService, which runs when an instance of the API starts.     *)
(*                                                                           *)
(* A request is in a slot between its first read and its last write. The     *)
(* metadata of a user is one JSON column: whoever writes it writes all of it,*)
(* from what it read.                                                        *)
EXTENDS Naturals

CONSTANTS
    Users,            \* usernames, which are unique
    Admin,            \* ADMIN_USERNAME
    Keys,             \* recovery keys that a run may generate
    Slots,            \* requests that a run serves at the same time
    Ops,              \* [Slots -> SUBSET (AllOps \X Users)]: what a run asks for
    Present,          \* users that exist before the run, with their roles
    NoUser, NoKey

Roles  == {"super_admin", "admin", "client"}
AllOps == {"login", "register", "validate", "generate", "change", "complete",
           "profile", "role", "create", "delete", "bootstrap"}

\* The keys of User.metadata that the handlers tell apart: whether there is a
\* secret, and the flag.
Metadata == [mfaSecret : BOOLEAN, passwordChangeRequired : BOOLEAN]

\* password: of whom the hash is. A temporary password is generated for the user and
\* handed out; one that create() generates is told to nobody (the mail that would
\* tell it is commented out).
UserRows == [status : {"INVITED", "ACTIVE", "DISABLED"}, role : Roles,
             password : {"chosen", "temporary", "generated"}, mfaEnabled : BOOLEAN,
             metadata : Metadata]

KeyRows == [user : Users, live : BOOLEAN]

ASSUME AccountsAssumption ==
    /\ Admin \in Users
    /\ Ops \in [Slots -> SUBSET (AllOps \X Users)]
    /\ Present \in [Users -> Roles \cup {NoUser}]
    /\ \A u, v \in Users : Present[u] = "super_admin" /\ Present[v] = "super_admin" => u = v
    /\ NoUser \notin UserRows \cup Roles /\ NoKey \notin KeyRows

VARIABLES
    user,    \* rows of User with their role, NoUser where there is none
    key,     \* what the recovery store (Redis) holds
    signedIn,\* users with a session that is not revoked
    stale,   \* history: users whose metadata was written over by a request that
             \* had read other metadata
    req      \* what is in the slots

vars == <<user, key, signedIn, stale, req>>

Idle == [op |-> "none"]

Requests ==
    {Idle}
      \cup [op : {"register", "generate", "change", "profile"},
            user : Users, metadata : Metadata]
      \cup [op : {"login", "delete"}, user : Users]
      \cup [op : {"validate"}, user : Users, verified : BOOLEAN]
      \cup [op : {"complete"}, pc : {"read", "delete"}, key : Keys]
      \cup [op : {"complete"}, pc : {"write"}, key : Keys, metadata : Metadata]
      \cup [op : {"role"}, user : Users, read : Roles, role : Roles]
      \cup [op : {"create"}, pc : {"insert", "activate"}, user : Users, role : Roles]
      \cup [op : {"bootstrap"}, pc : {"create", "find"}]
      \cup [op : {"bootstrap"}, pc : {"reconcile"}, matches : BOOLEAN]

Row(role, status, password) ==
    [status |-> status, role |-> role, password |-> password, mfaEnabled |-> FALSE,
     metadata |-> [mfaSecret |-> FALSE, passwordChangeRequired |-> FALSE]]

Init ==
    /\ user = [u \in Users |-> IF Present[u] = NoUser THEN NoUser
                                ELSE Row(Present[u], "ACTIVE", "chosen")]
    /\ key = [k \in Keys |-> NoKey]
    /\ signedIn = {}
    /\ stale = {}
    /\ req = [s \in Slots |-> Idle]

Accept(s, u, r) ==
    /\ req[s] = Idle
    /\ <<r.op, u>> \in Ops[s]
    /\ req' = [req EXCEPT ![s] = r]

Return(s) == req' = [req EXCEPT ![s] = Idle]

Write(s, u, row) ==
    /\ user' = [user EXCEPT ![u] = row]
    /\ Return(s)

\* The metadata of the user is about to be written over by who had read this.
WritesBack(u, metadata) ==
    stale' = IF user[u].metadata = metadata THEN stale ELSE stale \cup {u}

-----------------------------------------------------------------------------
(* Sign-in of managers, and the second factor *)

isManagementUser(u) ==
    /\ user[u] # NoUser
    /\ user[u].status = "ACTIVE"
    /\ user[u].role # "client"

\* completeManagementLogin(): with a second factor, a code of the stored secret.
StartLogin(s, u) ==
    /\ isManagementUser(u)
    /\ user[u].mfaEnabled => user[u].metadata.mfaSecret
    /\ Accept(s, u, [op |-> "login", user |-> u])
    /\ UNCHANGED <<user, key, signedIn, stale>>

FinishLogin(s) ==
    /\ req[s].op = "login"
    /\ signedIn' = signedIn \cup {req[s].user}
    /\ Return(s)
    /\ UNCHANGED <<user, key, stale>>

\* The handlers that begin by reading the metadata of the user. Two of them ask for an
\* access token, and JwtStrategy.validate() only for an active user: the session that
\* the token was issued with may be revoked, or from before the run.
StartRead(s, op, u) ==
    /\ op \in {"register", "generate", "change", "profile"}
    /\ user[u] # NoUser
    /\ op \in {"register", "change"} => user[u].status = "ACTIVE"
    /\ op = "change" => user[u].metadata.passwordChangeRequired
    /\ Accept(s, u, [op |-> op, user |-> u, metadata |-> user[u].metadata])
    /\ UNCHANGED <<user, key, signedIn, stale>>

registerTwoFactor(s) ==
    /\ req[s].op = "register"
    /\ Write(s, req[s].user,
             [user[req[s].user] EXCEPT !.mfaEnabled = FALSE,
                                       !.metadata = [req[s].metadata EXCEPT
                                                       !.mfaSecret = TRUE]])
    /\ WritesBack(req[s].user, req[s].metadata)
    /\ UNCHANGED <<key, signedIn>>

\* Mutant: the code is compared with whatever the metadata holds.
MutantValidate(s, u) ==
    /\ user[u] # NoUser /\ user[u].status = "ACTIVE"
    /\ \E verified \in BOOLEAN :
         Accept(s, u, [op |-> "validate", user |-> u, verified |-> verified])
    /\ UNCHANGED <<user, key, signedIn, stale>>

StartValidate(s, u) ==
    /\ user[u] # NoUser /\ user[u].status = "ACTIVE"
    /\ user[u].metadata.mfaSecret
    /\ \E verified \in BOOLEAN :
         Accept(s, u, [op |-> "validate", user |-> u, verified |-> verified])
    /\ UNCHANGED <<user, key, signedIn, stale>>

validateTwoFactor(s) ==
    /\ req[s].op = "validate"
    /\ Write(s, req[s].user, [user[req[s].user] EXCEPT !.mfaEnabled = req[s].verified])
    /\ UNCHANGED <<key, signedIn, stale>>

-----------------------------------------------------------------------------
(* Temporary passwords and recovery keys *)

\* Mutant: the flag is left as it was.
MutantGenerate(s) ==
    /\ req[s].op = "generate"
    /\ Write(s, req[s].user,
             [user[req[s].user] EXCEPT !.password = "temporary", !.status = "ACTIVE",
                                       !.metadata = req[s].metadata])
    /\ signedIn' = signedIn \ {req[s].user}
    /\ WritesBack(req[s].user, req[s].metadata)
    /\ UNCHANGED key

generateTemporaryPassword(s) ==
    /\ req[s].op = "generate"
    /\ Write(s, req[s].user,
             [user[req[s].user] EXCEPT !.password = "temporary", !.status = "ACTIVE",
                                       !.metadata = [req[s].metadata EXCEPT
                                                       !.passwordChangeRequired = TRUE]])
    /\ signedIn' = signedIn \ {req[s].user}
    /\ WritesBack(req[s].user, req[s].metadata)
    /\ UNCHANGED key

changeTemporaryPassword(s) ==
    /\ req[s].op = "change"
    /\ Write(s, req[s].user,
             [user[req[s].user] EXCEPT !.password = "chosen",
                                       !.metadata = [req[s].metadata EXCEPT
                                                       !.passwordChangeRequired = FALSE]])
    /\ signedIn' = signedIn \ {req[s].user}
    /\ WritesBack(req[s].user, req[s].metadata)
    /\ UNCHANGED key

\* The key is stored, then mailed (or its code is): a key whose mail fails is
\* one that nobody presents.
requestReset(k, namespace, u) ==
    /\ key[k] = NoKey
    /\ user[u] # NoUser
    /\ \E s \in Slots : <<"complete", u>> \in Ops[s]
    /\ namespace = "forgot-password" => isManagementUser(u)
    /\ key' = [key EXCEPT ![k] = [user |-> u, live |-> TRUE]]
    /\ UNCHANGED <<user, signedIn, stale, req>>

ExpireKey(k) ==
    /\ key[k] # NoKey /\ key[k].live
    /\ key' = [key EXCEPT ![k].live = FALSE]
    /\ UNCHANGED <<user, signedIn, stale, req>>

\* completeAdminReset(), and completeForgotPassword() with the right code
StartComplete(s, k) ==
    /\ key[k] # NoKey /\ key[k].live
    /\ Accept(s, key[k].user, [op |-> "complete", pc |-> "read", key |-> k])
    /\ UNCHANGED <<user, key, signedIn, stale>>

ReadForReplace(s) ==
    /\ req[s].op = "complete" /\ req[s].pc = "read"
    /\ req' = [req EXCEPT ![s] = [op |-> "complete", pc |-> "write", key |-> req[s].key,
                                  metadata |-> user[key[req[s].key].user].metadata]]
    /\ UNCHANGED <<user, key, signedIn, stale>>

\* Mutant: the metadata is replaced, not merged.
MutantReplace(s) ==
    /\ req[s].op = "complete" /\ req[s].pc = "write"
    /\ LET k == req[s].key
           u == key[k].user
       IN  /\ user' = [user EXCEPT ![u].password = "chosen", ![u].status = "ACTIVE",
                                   ![u].metadata = [mfaSecret |-> FALSE,
                                      passwordChangeRequired |-> FALSE]]
           /\ signedIn' = signedIn \ {u}
           /\ req' = [req EXCEPT ![s] = [op |-> "complete", pc |-> "delete", key |-> k]]
           /\ WritesBack(u, req[s].metadata)
    /\ UNCHANGED key

replacePassword(s) ==
    /\ req[s].op = "complete" /\ req[s].pc = "write"
    /\ LET k == req[s].key
           u == key[k].user
       IN  /\ user' = [user EXCEPT ![u].password = "chosen", ![u].status = "ACTIVE",
                                   ![u].metadata = [req[s].metadata EXCEPT
                                      !.passwordChangeRequired = FALSE]]
           /\ signedIn' = signedIn \ {u}
           /\ req' = [req EXCEPT ![s] = [op |-> "complete", pc |-> "delete", key |-> k]]
           /\ WritesBack(u, req[s].metadata)
    /\ UNCHANGED key

DeleteKey(s) ==
    /\ req[s].op = "complete" /\ req[s].pc = "delete"
    /\ key' = [key EXCEPT ![req[s].key].live = FALSE]
    /\ Return(s)
    /\ UNCHANGED <<user, signedIn, stale>>

-----------------------------------------------------------------------------
(* UsersService.update(): a mobile number or a kind of code (profile), or a  *)
(* role                                                                      *)

updateProfile(s) ==
    /\ req[s].op = "profile"
    /\ Write(s, req[s].user, [user[req[s].user] EXCEPT !.metadata = req[s].metadata])
    /\ WritesBack(req[s].user, req[s].metadata)
    /\ UNCHANGED <<key, signedIn>>

\* Mutant: the role of the super administrator is one like the others.
MutantRole(s, u, role) ==
    /\ user[u] # NoUser
    /\ Accept(s, u, [op |-> "role", user |-> u, read |-> user[u].role, role |-> role])
    /\ UNCHANGED <<user, key, signedIn, stale>>

StartRole(s, u, role) ==
    /\ user[u] # NoUser
    /\ "super_admin" \in {role, user[u].role} => role = user[u].role
    /\ Accept(s, u, [op |-> "role", user |-> u, read |-> user[u].role, role |-> role])
    /\ UNCHANGED <<user, key, signedIn, stale>>

IsSuper(u) == user[u] # NoUser /\ user[u].role = "super_admin"

\* Mutant: there is no trigger.
MutantTrigger(u, role) == TRUE

\* enforce_single_super_admin(), before a row of UserRole is inserted
TriggerAllows(u, role) == role = "super_admin" => \A v \in Users \ {u} : ~IsSuper(v)

updateRole(s) ==
    /\ req[s].op = "role"
    /\ IF TriggerAllows(req[s].user, req[s].role)
         THEN Write(s, req[s].user, [user[req[s].user] EXCEPT !.role = req[s].role])
         ELSE Return(s) /\ UNCHANGED user
    /\ UNCHANGED <<key, signedIn, stale>>

-----------------------------------------------------------------------------
(* UsersService: create(), delete(), restore(), hardRemoveDisabledUsers()    *)

StartCreate(s, u, role) ==
    /\ user[u] = NoUser
    /\ role = "super_admin" => \A v \in Users : ~IsSuper(v)
    /\ Accept(s, u, [op |-> "create", pc |-> "insert", user |-> u, role |-> role])
    /\ UNCHANGED <<user, key, signedIn, stale>>

\* The user is inserted as invited, and set active by the next statement: for
\* a client both are in one transaction. Without a password in the request one is
\* generated.
InsertUser(s) ==
    /\ req[s].op = "create" /\ req[s].pc = "insert"
    /\ LET u    == req[s].user
           role == req[s].role
       IN  CASE user[u] # NoUser \/ ~TriggerAllows(u, role) ->
                  Return(s) /\ UNCHANGED user
             [] role = "client" /\ user[u] = NoUser ->
                  \E password \in {"chosen", "generated"} :
                    Write(s, u, Row(role, "ACTIVE", password))
             [] OTHER ->
                  \E password \in {"chosen", "generated"} :
                    /\ user' = [user EXCEPT ![u] = Row(role, "INVITED", password)]
                    /\ req' = [req EXCEPT ![s].pc = "activate"]
    /\ UNCHANGED <<key, signedIn, stale>>

ActivateUser(s) ==
    /\ req[s].op = "create" /\ req[s].pc = "activate"
    /\ Write(s, req[s].user, [user[req[s].user] EXCEPT !.status = "ACTIVE"])
    /\ UNCHANGED <<key, signedIn, stale>>

StartDelete(s, u) ==
    /\ user[u] # NoUser
    /\ user[u].role # "super_admin"
    /\ Accept(s, u, [op |-> "delete", user |-> u])
    /\ UNCHANGED <<user, key, signedIn, stale>>

deleteUser(s) ==
    /\ req[s].op = "delete"
    /\ Write(s, req[s].user, [user[req[s].user] EXCEPT !.status = "DISABLED"])
    /\ signedIn' = signedIn \ {req[s].user}
    /\ UNCHANGED <<key, stale>>

restore(u) ==
    /\ user[u] # NoUser /\ user[u].status = "DISABLED"
    /\ user' = [user EXCEPT ![u].status = "ACTIVE"]
    /\ UNCHANGED <<key, signedIn, stale, req>>

\* The users that a request would still write to, by their ids.
Targets(r) ==
    CASE r.op \in {"none", "complete"} -> {}
      [] r.op = "bootstrap"            -> IF r.pc = "reconcile" THEN {Admin} ELSE {}
      [] r.op = "create"               -> IF r.pc = "activate" THEN {r.user} ELSE {}
      [] OTHER                         -> {r.user}

Completing(r) ==
    IF r.op = "complete" /\ r.pc # "delete" THEN {key[r.key].user} ELSE {}

\* Mutant: what is under way about the users goes on.
MutantRemove(selected) ==
    /\ selected # {}
    /\ \A u \in selected : /\ user[u] # NoUser /\ user[u].status = "DISABLED"
                           /\ user[u].role # "super_admin"
    /\ user' = [u \in Users |-> IF u \in selected THEN NoUser ELSE user[u]]
    /\ signedIn' = signedIn \ selected
    /\ UNCHANGED <<key, stale, req>>

\* All the users selected, or none. An id is not given again, so requests and
\* keys of a user that is gone come to nothing.
hardRemoveDisabledUsers(selected) ==
    /\ selected # {}
    /\ \A u \in selected : /\ user[u] # NoUser /\ user[u].status = "DISABLED"
                           /\ user[u].role # "super_admin"
    /\ user' = [u \in Users |-> IF u \in selected THEN NoUser ELSE user[u]]
    /\ key' = [k \in Keys |-> IF key[k] # NoKey /\ key[k].user \in selected
                                THEN [key[k] EXCEPT !.live = FALSE] ELSE key[k]]
    /\ signedIn' = signedIn \ selected
    /\ stale' = stale \ selected
    /\ req' = [s \in Slots |->
                 IF (Targets(req[s]) \cup Completing(req[s])) \cap selected # {}
                   THEN Idle ELSE req[s]]

-----------------------------------------------------------------------------
(* BootstrapAdminService: onApplicationBootstrap(), reconcileBootstrapUser() *)

\* ADMIN_PASSWORD may be the one that the user has chosen.
Reconciling ==
    {[op |-> "bootstrap", pc |-> "reconcile", matches |-> m] :
        m \in {b \in BOOLEAN : b => user[Admin].password = "chosen"}}

StartBootstrap(s) ==
    /\ IF user[Admin] = NoUser
         THEN Accept(s, Admin, [op |-> "bootstrap", pc |-> "create"])
         ELSE \E r \in Reconciling : Accept(s, Admin, r)
    /\ UNCHANGED <<user, key, signedIn, stale>>

BootstrapCreate(s) ==
    /\ req[s].op = "bootstrap" /\ req[s].pc = "create"
    /\ CASE ~TriggerAllows(Admin, "super_admin") ->
              Return(s) /\ UNCHANGED user
         [] TriggerAllows(Admin, "super_admin") /\ user[Admin] # NoUser ->
              req' = [req EXCEPT ![s].pc = "find"] /\ UNCHANGED user
         [] OTHER ->
              Write(s, Admin, Row("super_admin", "ACTIVE", "chosen"))
    /\ UNCHANGED <<key, signedIn, stale>>

\* The name was taken meanwhile (P2002).
BootstrapFind(s) ==
    /\ req[s].op = "bootstrap" /\ req[s].pc = "find"
    /\ IF user[Admin] = NoUser
         THEN Return(s)
         ELSE \E r \in Reconciling : req' = [req EXCEPT ![s] = r]
    /\ UNCHANGED <<user, key, signedIn, stale>>

reconcileBootstrapUser(s) ==
    /\ req[s].op = "bootstrap" /\ req[s].pc = "reconcile"
    /\ IF TriggerAllows(Admin, "super_admin")
         THEN /\ Write(s, Admin,
                       [user[Admin] EXCEPT !.status = "ACTIVE", !.role = "super_admin",
                                           !.password = IF req[s].matches THEN @ ELSE "chosen"])
              /\ signedIn' = IF req[s].matches THEN signedIn ELSE signedIn \ {Admin}
         ELSE Return(s) /\ UNCHANGED <<user, signedIn>>
    /\ UNCHANGED <<key, stale>>

-----------------------------------------------------------------------------
\* A statement fails or the process stops: the rest of the request is lost.
Fail(s) ==
    /\ req[s] # Idle
    /\ Return(s)
    /\ UNCHANGED <<user, key, signedIn, stale>>

Start ==
    \E s \in Slots :
      \/ StartBootstrap(s)
      \/ \E k \in Keys : StartComplete(s, k)
      \/ \E u \in Users :
           \/ StartLogin(s, u) \/ StartValidate(s, u) \/ StartDelete(s, u)
           \/ \E op \in AllOps : StartRead(s, op, u)
           \/ \E role \in Roles : StartRole(s, u, role) \/ StartCreate(s, u, role)

Continue(s) ==
    \/ FinishLogin(s) \/ registerTwoFactor(s) \/ validateTwoFactor(s)
    \/ generateTemporaryPassword(s) \/ changeTemporaryPassword(s)
    \/ ReadForReplace(s) \/ replacePassword(s) \/ DeleteKey(s)
    \/ updateProfile(s) \/ updateRole(s)
    \/ InsertUser(s) \/ ActivateUser(s) \/ deleteUser(s)
    \/ BootstrapCreate(s) \/ BootstrapFind(s) \/ reconcileBootstrapUser(s)
    \/ Fail(s)

Atomic ==
    \/ \E u \in Users : restore(u)
    \/ \E k \in Keys : ExpireKey(k)
    \/ \E k \in Keys, u \in Users, namespace \in {"admin-reset", "forgot-password"} :
         requestReset(k, namespace, u)
    \/ \E selected \in SUBSET Users : hardRemoveDisabledUsers(selected)

Next == Start \/ (\E s \in Slots : Continue(s)) \/ Atomic

Spec == Init /\ [][Next]_vars

-----------------------------------------------------------------------------
(* Properties *)

\* Users, keys and requests have their types, and a request that is under way
\* has its user.
TypeOK ==
    /\ user \in [Users -> UserRows \cup {NoUser}]
    /\ key \in [Keys -> KeyRows \cup {NoKey}]
    /\ signedIn \subseteq {u \in Users : user[u] # NoUser}
    /\ stale \subseteq Users
    /\ req \in [Slots -> Requests]
    /\ \A s \in Slots : \A u \in Targets(req[s]) : user[u] # NoUser

\* Role changes, creations and starts of instances check for a super administrator
\* before they write one; the trigger checks again
\* (migration 20260817060000_single_super_admin).
OneSuperAdmin == \A u, v \in Users : IsSuper(u) /\ IsSuper(v) => u = v

\* A second factor that is asked for has a secret to check it with: otherwise
\* the user could not sign in again, nor register another. validateTwoFactor() asks
\* for it after an await, in which others write. It is said of the users whose
\* metadata nobody wrote back from an outdated read: a request that had read it before
\* the secret was registered takes the secret away again, and the code does nothing
\* about that.
SecondFactorUsable ==
    \A u \in Users \ stale : user[u] # NoUser /\ user[u].mfaEnabled =>
                               user[u].metadata.mfaSecret

\* Whoever has a password that generateTemporaryPassword() handed out is asked to
\* change it, whatever else is registered, edited, reset or changed while he has it;
\* of the same users: an outdated write takes the flag away as well.
TemporaryMustChange ==
    \A u \in Users \ stale : user[u] # NoUser /\ user[u].password = "temporary" =>
                               user[u].metadata.passwordChangeRequired

\* No edit, deletion, removal or creation takes the super administrator away from the
\* system, but for a change of role that was let through before a start of an instance
\* made its user super administrator: update() looks at the role before it writes.
SuperAdminKept ==
    [][\A u \in Users : IsSuper(u) =>
         \/ IsSuper(u)'
         \/ \E s \in Slots : /\ req[s].op = "role" /\ req[s].user = u
                             /\ req[s].read # "super_admin" /\ req'[s] = Idle]_vars
=============================================================================
