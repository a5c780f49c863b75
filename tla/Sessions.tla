------------------------------ MODULE Sessions ------------------------------
(* Sign-in sessions, access tokens and dashboard previews: AuthService,      *)
(* JwtStrategy, ImpersonationService, and the operations of UsersService and *)
(* AccountAccessService that give a user other access or take it away.       *)
(*                                                                           *)
(* A handler that awaits twice is a request in a slot: what it has read is   *)
(* kept in the slot while the other requests go on. A handler that writes    *)
(* once, in one statement or transaction, is one action.                     *)
EXTENDS Naturals

CONSTANTS
    Users, Orgs, Programs,
    SessionIds, Grants,   \* rows that a run may create
    Slots,                \* requests that a run serves at the same time
    Ops,                  \* [Slots -> SUBSET AllOps]
    Edits,                \* bodies of PUT /user/update that a run sends for a user
    Included,             \* programs that an organization is included in
    InitialUsers,
    NoOrg, NoSession, NoGrant, NoProgram, Same

AllOps == {"login", "refresh", "start", "exchange", "update"}
Portal == {"client", "promotional"}
Roles  == Portal \cup {"manager", "admin"}

\* primary: the program of the enrollment that a portal user is connected with.
UserRows == [status : {"ACTIVE", "DISABLED"}, role : Roles,
             org : Orgs \cup {NoOrg}, programs : SUBSET Programs,
             primary : Programs \cup {NoProgram}]

AllEdits == [role : Roles \cup {Same}, org : Orgs \cup {Same},
             programs : {Same} \cup SUBSET Programs]

\* A client is assigned to programs that its organization is included in.
Assigned(row) ==
    row.role = "client" =>
        /\ row.org # NoOrg
        /\ row.programs # {}
        /\ row.programs \subseteq Included[row.org]

\* A portal user of an organization is connected with one of its programs, or with none.
Connected(row) ==
    /\ row.primary \in row.programs \cup {NoProgram}
    /\ row.org = NoOrg => row.primary = NoProgram
    /\ row.role \notin Portal => row.org = NoOrg

\* held: the client has the refresh token. parent: the session it replaced.
SessionRows ==
    [state : {"live", "revoked", "expired"}, user : Users,
     held : BOOLEAN, parent : SessionIds \cup {NoSession}]

Drafts == [actor : Users, target : Users, org : Orgs,
           scope : {"PROGRAM", "USER"}, program : Programs \cup {NoProgram}]

GrantRows == [consumed : BOOLEAN, revoked : BOOLEAN, expired : BOOLEAN, of : Drafts]

ASSUME SessionsAssumption ==
    /\ Ops \in [Slots -> SUBSET AllOps]
    /\ Edits \in [Users -> SUBSET AllEdits]
    /\ Included \in [Orgs -> SUBSET Programs]
    /\ InitialUsers \in [Users -> UserRows]
    /\ \A u \in Users : Assigned(InitialUsers[u]) /\ Connected(InitialUsers[u])
    /\ NoOrg \notin Orgs /\ NoSession \notin SessionIds \cup SessionRows
    /\ NoGrant \notin Grants \cup GrantRows /\ NoProgram \notin Programs
    /\ Same \notin Roles \cup Orgs \cup {NoOrg}
    /\ \A P \in SUBSET Programs : P # Same

VARIABLES
    user,      \* rows of User with their role, organization and programs
    session,   \* rows of Session, NoSession where there is none
    grant,     \* rows of ImpersonationGrant, NoGrant where there is none
    tokens,    \* access tokens that clients hold and that have not expired
    req,       \* what is in the slots
    \* Kept for the properties only.
    previews,  \* preview tokens handed out for a grant
    stale,     \* users that an edit was written over that had read another assignment
    overlapped \* sessions refreshed again while a refresh of them was under way

rows == <<user, session, grant>>
history == <<previews, stale, overlapped>>
vars == <<user, session, grant, tokens, req, previews, stale, overlapped>>

Tokens == [sub : Users, org : Orgs \cup {NoOrg}, grant : Grants \cup {NoGrant},
           programs : SUBSET Programs]

Idle == [op |-> "none"]

Requests ==
    {Idle}
      \cup [op : {"login", "refresh"}, pc : {"issue"}, user : Users, row : UserRows,
            old : SessionIds \cup {NoSession}]
      \cup [op : {"login", "refresh"}, pc : {"answer"}, user : Users, row : UserRows,
            old : SessionIds \cup {NoSession}, new : SessionIds]
      \cup [op : {"start"}, draft : Drafts]
      \cup [op : {"exchange"}, pc : {"principal", "consume"}, grant : Grants,
            programs : SUBSET Programs]
      \cup [op : {"update"}, user : Users, row : UserRows, edit : AllEdits,
            primary : Programs \cup {NoProgram}]

Init ==
    /\ user = InitialUsers
    /\ session = [k \in SessionIds |-> NoSession]
    /\ grant = [g \in Grants |-> NoGrant]
    /\ tokens = {}
    /\ req = [s \in Slots |-> Idle]
    /\ previews = [g \in Grants |-> 0]
    /\ stale = {}
    /\ overlapped = {}

Accept(s, op, r) ==
    /\ req[s] = Idle
    /\ op \in Ops[s]
    /\ req' = [req EXCEPT ![s] = r]

Return(s) == req' = [req EXCEPT ![s] = Idle]

-----------------------------------------------------------------------------
(* JwtStrategy.validate() *)

\* A preview token carries the actor, target, organization and scope of its
\* grant, so of the checks on them only the state of the grant can fail.
validate(t) ==
    /\ t.grant # NoGrant =>
         /\ grant[t.grant].consumed
         /\ ~grant[t.grant].revoked
         /\ ~grant[t.grant].expired
    /\ user[t.sub].status = "ACTIVE"
    /\ user[t.sub].org = t.org

\* session.updateMany({ where: { userId, revokedAt: null }, ... })
SessionsRevoked(u) ==
    [k \in SessionIds |->
        IF session[k] # NoSession /\ session[k].user = u
          THEN [session[k] EXCEPT !.state = "revoked"]
          ELSE session[k]]

\* impersonationGrant.updateMany({ where: { targetUserId, revokedAt: null }, ... })
GrantsRevoked(u) ==
    [g \in Grants |->
        IF grant[g] # NoGrant /\ grant[g].of.target = u
          THEN [grant[g] EXCEPT !.revoked = TRUE]
          ELSE grant[g]]

-----------------------------------------------------------------------------
(* AuthService: login() and its variants for clients and managers,           *)
(* rotateRefreshToken(), logoutAll()                                         *)

\* The credentials are right, and the roles are those of the route.
StartLogin(s, u) ==
    /\ user[u].status = "ACTIVE"
    /\ Accept(s, "login", [op |-> "login", pc |-> "issue", user |-> u,
                           row |-> user[u], old |-> NoSession])
    /\ UNCHANGED <<rows, tokens, history>>

\* Mutant: a session that was refreshed may be refreshed again.
MutantStartRefresh(s, k) ==
    /\ session[k] # NoSession
    /\ session[k].held
    /\ user[session[k].user].status = "ACTIVE"
    /\ Accept(s, "refresh", [op |-> "refresh", pc |-> "issue", user |-> session[k].user,
                             row |-> user[session[k].user], old |-> k])
    /\ overlapped' = IF \E t \in Slots : req[t].op = "refresh" /\ req[t].old = k
                       THEN overlapped \cup {k} ELSE overlapped
    /\ UNCHANGED <<rows, tokens, previews, stale>>

\* The client presents a refresh token that it got.
StartRefresh(s, k) ==
    /\ session[k] # NoSession
    /\ session[k].held
    /\ session[k].state = "live"
    /\ user[session[k].user].status = "ACTIVE"
    /\ Accept(s, "refresh", [op |-> "refresh", pc |-> "issue", user |-> session[k].user,
                             row |-> user[session[k].user], old |-> k])
    /\ overlapped' = IF \E t \in Slots : req[t].op = "refresh" /\ req[t].old = k
                       THEN overlapped \cup {k} ELSE overlapped
    /\ UNCHANGED <<rows, tokens, previews, stale>>

issueTokens(s) ==
    /\ req[s].op \in {"login", "refresh"}
    /\ req[s].pc = "issue"
    /\ \E k \in SessionIds :
         /\ session[k] = NoSession
         /\ session' = [session EXCEPT ![k] = [state |-> "live", user |-> req[s].user,
                                               held |-> FALSE, parent |-> req[s].old]]
         /\ req' = [req EXCEPT ![s] = [op |-> req[s].op, pc |-> "answer",
                                       user |-> req[s].user, row |-> req[s].row,
                                       old |-> req[s].old, new |-> k]]
    /\ UNCHANGED <<user, grant, tokens, history>>

\* Mutant: the session that was refreshed stays.
MutantAnswer(s) ==
    /\ req[s].op \in {"login", "refresh"}
    /\ req[s].pc = "answer"
    /\ session' = [session EXCEPT ![req[s].new].held = TRUE]
    /\ tokens' = tokens \cup {[sub |-> req[s].user, org |-> req[s].row.org, grant |-> NoGrant,
                               programs |-> {}]}
    /\ Return(s)
    /\ UNCHANGED <<user, grant, history>>

\* A refresh revokes the session it has replaced, then both tokens are answered.
Answer(s) ==
    /\ req[s].op \in {"login", "refresh"}
    /\ req[s].pc = "answer"
    /\ session' = [k \in SessionIds |->
                     CASE k = req[s].new -> [session[k] EXCEPT !.held = TRUE]
                       [] k = req[s].old -> [session[k] EXCEPT !.state = "revoked"]
                       [] OTHER          -> session[k]]
    /\ tokens' = tokens \cup {[sub |-> req[s].user, org |-> req[s].row.org, grant |-> NoGrant,
                               programs |-> {}]}
    /\ Return(s)
    /\ UNCHANGED <<user, grant, history>>

\* POST auth/logout, with any token that is accepted.
logoutAll(t) ==
    /\ validate(t)
    /\ session' = SessionsRevoked(t.sub)
    /\ UNCHANGED <<user, grant, tokens, req, history>>

-----------------------------------------------------------------------------
(* ImpersonationService *)

hasPreviewAccess(row) == row.status = "ACTIVE" /\ row.role = "admin"

\* The programs of the user that an exchange of the grant would show.
ShownPrograms(d) ==
    Included[d.org] \cap IF d.scope = "PROGRAM" THEN {d.program}
                                                ELSE user[d.target].programs

Eligible(d) ==
    LET target == user[d.target] IN
    /\ target.status = "ACTIVE"
    /\ target.role \in Portal
    /\ target.org = d.org
    /\ d.scope = "PROGRAM" => d.program \in target.programs \cup {target.primary}

\* start() and startUser(); the caller's token only narrows who may call.
StartGrant(s, d) ==
    /\ hasPreviewAccess(user[d.actor])
    /\ Eligible(d)
    /\ ShownPrograms(d) # {}
    /\ (d.scope = "USER") <=> (d.program = NoProgram)
    /\ Accept(s, "start", [op |-> "start", draft |-> d])
    /\ UNCHANGED <<rows, tokens, history>>

createGrant(s) ==
    /\ req[s].op = "start"
    /\ \E g \in Grants :
         /\ grant[g] = NoGrant
         /\ grant' = [grant EXCEPT ![g] = [consumed |-> FALSE, revoked |-> FALSE,
                                           expired |-> FALSE, of |-> req[s].draft]]
    /\ Return(s)
    /\ UNCHANGED <<user, session, tokens, history>>

\* exchange(): the grant, its actor, its target and the enrollments are read.
StartExchange(s, g) ==
    /\ grant[g] # NoGrant
    /\ ~grant[g].consumed /\ ~grant[g].revoked /\ ~grant[g].expired
    /\ hasPreviewAccess(user[grant[g].of.actor])
    /\ ShownPrograms(grant[g].of) # {}
    /\ Eligible(grant[g].of)
    /\ Accept(s, "exchange", [op |-> "exchange", pc |-> "principal", grant |-> g,
                              programs |-> ShownPrograms(grant[g].of)])
    /\ UNCHANGED <<rows, tokens, history>>

principalForUserId(s) ==
    LET d == grant[req[s].grant].of IN
    /\ req[s].op = "exchange"
    /\ req[s].pc = "principal"
    /\ IF user[d.target].status = "ACTIVE" /\ user[d.target].org = d.org
         THEN req' = [req EXCEPT ![s].pc = "consume"]
         ELSE Return(s)
    /\ UNCHANGED <<rows, tokens, history>>

PreviewToken(s) ==
    LET d == grant[req[s].grant].of
    IN  [sub |-> d.target, org |-> d.org, grant |-> req[s].grant,
         programs |-> req[s].programs]

\* Mutant: the update does not ask whether the grant is used already.
MutantConsume(s) ==
    LET g == req[s].grant IN
    /\ req[s].op = "exchange"
    /\ req[s].pc = "consume"
    /\ IF ~grant[g].revoked /\ ~grant[g].expired
         THEN /\ grant' = [grant EXCEPT ![g].consumed = TRUE]
              /\ tokens' = tokens \cup {PreviewToken(s)}
              /\ previews' = [previews EXCEPT ![g] = @ + 1]
         ELSE UNCHANGED <<grant, tokens, previews>>
    /\ Return(s)
    /\ UNCHANGED <<user, session, stale, overlapped>>

\* updateMany tells by its count whether this exchange got the grant.
ConsumeGrant(s) ==
    LET g == req[s].grant IN
    /\ req[s].op = "exchange"
    /\ req[s].pc = "consume"
    /\ IF ~grant[g].consumed /\ ~grant[g].revoked /\ ~grant[g].expired
         THEN /\ grant' = [grant EXCEPT ![g].consumed = TRUE]
              /\ tokens' = tokens \cup {PreviewToken(s)}
              /\ previews' = [previews EXCEPT ![g] = @ + 1]
         ELSE UNCHANGED <<grant, tokens, previews>>
    /\ Return(s)
    /\ UNCHANGED <<user, session, stale, overlapped>>

\* DELETE auth/impersonations/current
revoke(t) ==
    /\ t.grant # NoGrant
    /\ validate(t)
    /\ grant' = [grant EXCEPT ![t.grant].revoked = TRUE]
    /\ UNCHANGED <<user, session, tokens, req, history>>

-----------------------------------------------------------------------------
(* UsersService: update(), delete(), restore() *)

\* The role after the edit of a user that was read as target.
RoleAfter(target, e) == IF e.role = Same THEN target.role ELSE e.role

\* selectedOrganizationId, Same where it stays undefined.
SelectedOrg(target, e) ==
    LET assignmentsChanged == e.org # Same \/ e.programs # Same
        organizationId == IF e.org # Same THEN e.org ELSE target.org
    IN  IF /\ \/ RoleAfter(target, e) = "client"
              \/ RoleAfter(target, e) = "promotional" /\ assignmentsChanged
           /\ organizationId # NoOrg
          THEN organizationId
          ELSE Same

Effective(target, e) == IF e.programs # Same THEN e.programs ELSE target.programs

\* What update() accepts; the projects that it also looks at are left out.
Permitted(target, e) ==
    LET role      == RoleAfter(target, e)
        selected  == SelectedOrg(target, e)
        effective == Effective(target, e)
    IN  /\ role = "client" => selected # Same /\ effective # {}
        /\ selected # Same => effective \subseteq Included[selected]
        /\ e.org # Same => role \in Portal

accessChanged(target, e) ==
    \/ SelectedOrg(target, e) \notin {Same, target.org}
    \/ e.programs \notin {Same, target.programs}

\* Mutant: an organization that stays is written as it is in the request.
MutantEdited(row, target, e, primary) ==
    [row EXCEPT !.role = IF e.role = Same THEN @ ELSE e.role,
                !.programs = IF e.programs = Same THEN @ ELSE e.programs,
                !.org = SelectedOrg(target, e), !.primary = primary]

\* What the transaction writes over the row, which may have changed since.
Edited(row, target, e, primary) ==
    [row EXCEPT !.role = IF e.role = Same THEN @ ELSE e.role,
                !.programs = IF e.programs = Same THEN @ ELSE e.programs,
                !.org = CASE SelectedOrg(target, e) # Same -> SelectedOrg(target, e)
                          [] /\ SelectedOrg(target, e) = Same
                             /\ e.role # Same /\ e.role \notin Portal -> NoOrg
                          [] OTHER -> @,
                !.primary = CASE SelectedOrg(target, e) # Same -> primary
                              [] /\ SelectedOrg(target, e) = Same
                                 /\ e.role # Same /\ e.role \notin Portal -> NoProgram
                              [] OTHER -> @]

\* primaryOrganizationProgramId: the first of the enrollments that are read, in no order.
Primaries(target, e) ==
    LET P == Effective(target, e)
    IN IF SelectedOrg(target, e) = Same \/ P = {} THEN {NoProgram} ELSE P

StartUpdate(s, u, e) ==
    /\ Permitted(user[u], e)
    /\ \E x \in Primaries(user[u], e) :
         Accept(s, "update", [op |-> "update", user |-> u, row |-> user[u], edit |-> e,
                              primary |-> x])
    /\ UNCHANGED <<rows, tokens, history>>

SameAssignment(row, target) ==
    row.role = target.role /\ row.org = target.org /\ row.programs = target.programs

\* Mutant: only another organization ends the sessions and previews.
MutantUpdate(s) ==
    LET u == req[s].user
        target == req[s].row
        e == req[s].edit
    IN  /\ req[s].op = "update"
        /\ user' = [user EXCEPT ![u] = Edited(@, target, e, req[s].primary)]
        /\ IF SelectedOrg(target, e) \notin {Same, target.org}
             THEN session' = SessionsRevoked(u) /\ grant' = GrantsRevoked(u)
             ELSE UNCHANGED <<session, grant>>
        /\ stale' = IF SameAssignment(user[u], target) THEN stale ELSE stale \cup {u}
        /\ Return(s)
        /\ UNCHANGED <<tokens, previews, overlapped>>

CommitUpdate(s) ==
    LET u == req[s].user
        target == req[s].row
        e == req[s].edit
    IN  /\ req[s].op = "update"
        /\ user' = [user EXCEPT ![u] = Edited(@, target, e, req[s].primary)]
        /\ IF accessChanged(target, e)
             THEN session' = SessionsRevoked(u) /\ grant' = GrantsRevoked(u)
             ELSE UNCHANGED <<session, grant>>
        /\ stale' = IF SameAssignment(user[u], target) THEN stale ELSE stale \cup {u}
        /\ Return(s)
        /\ UNCHANGED <<tokens, previews, overlapped>>

delete(u) ==
    /\ session' = SessionsRevoked(u)
    /\ user' = [user EXCEPT ![u].status = "DISABLED"]
    /\ UNCHANGED <<grant, tokens, req, history>>

restore(u) ==
    /\ user[u].status = "DISABLED"
    /\ user' = [user EXCEPT ![u].status = "ACTIVE"]
    /\ UNCHANGED <<session, grant, tokens, req, history>>

\* replacePassword() and generateTemporaryPassword() of AccountAccessService.
replacePassword(u) ==
    /\ session' = SessionsRevoked(u)
    /\ user' = [user EXCEPT ![u].status = "ACTIVE"]
    /\ UNCHANGED <<grant, tokens, req, history>>

-----------------------------------------------------------------------------
(* Time, and requests that end before they answer *)

ExpireSession(k) ==
    /\ session[k] # NoSession
    /\ session[k].state = "live"
    /\ session' = [session EXCEPT ![k].state = "expired"]
    /\ UNCHANGED <<user, grant, tokens, req, history>>

\* previewLifetimeMs; the preview token expires no later than its grant.
ExpireGrant(g) ==
    /\ grant[g] # NoGrant
    /\ ~grant[g].expired
    /\ grant' = [grant EXCEPT ![g].expired = TRUE]
    /\ tokens' = {t \in tokens : t.grant # g}
    /\ UNCHANGED <<user, session, req, history>>

\* JWT_ACCESS_TTL
ExpireToken(t) ==
    /\ tokens' = tokens \ {t}
    /\ UNCHANGED <<rows, req, history>>

\* The process stops or a statement fails. An answer that does not arrive is
\* one whose tokens are not used.
Fail(s) ==
    /\ req[s] # Idle
    /\ Return(s)
    /\ UNCHANGED <<rows, tokens, history>>

-----------------------------------------------------------------------------

StartRequest(s) ==
    \/ \E u \in Users : StartLogin(s, u)
    \/ \E k \in SessionIds : StartRefresh(s, k)
    \/ \E d \in Drafts : StartGrant(s, d)
    \/ \E g \in Grants : StartExchange(s, g)
    \/ \E u \in Users : \E e \in Edits[u] : StartUpdate(s, u, e)

Proceed(s) ==
    \/ issueTokens(s)
    \/ Answer(s)
    \/ createGrant(s)
    \/ principalForUserId(s)
    \/ ConsumeGrant(s)
    \/ CommitUpdate(s)

Next ==
    \/ \E s \in Slots : StartRequest(s) \/ Proceed(s) \/ Fail(s)
    \/ \E t \in tokens : logoutAll(t) \/ revoke(t) \/ ExpireToken(t)
    \/ \E u \in Users : delete(u) \/ restore(u) \/ replacePassword(u)
    \/ \E k \in SessionIds : ExpireSession(k)
    \/ \E g \in Grants : ExpireGrant(g)

Spec == Init /\ [][Next]_vars

-----------------------------------------------------------------------------
(* Properties *)

\* Every variable has its type.
TypeOK ==
    /\ user \in [Users -> UserRows]
    /\ session \in [SessionIds -> SessionRows \cup {NoSession}]
    /\ grant \in [Grants -> GrantRows \cup {NoGrant}]
    /\ tokens \subseteq Tokens
    /\ req \in [Slots -> Requests]
    /\ previews \in [Grants -> Nat]
    /\ stale \subseteq Users /\ overlapped \subseteq SessionIds

\* A preview that is accepted shows no program that its user is not assigned
\* to now: update() ends the previews, and the exchanges that are under way,
\* of a user whose programs or organization it changes. This is said of users over
\* whom no edit was written that had read an assignment which another edit replaced.
PreviewWithinAssignment ==
    \A t \in tokens : t.grant # NoGrant /\ t.sub \notin stale /\ validate(t) =>
        t.programs \subseteq user[t.sub].programs \cap Included[user[t.sub].org]

\* A client stays assigned to programs that its organization is included in,
\* whatever part of the assignment an edit leaves out, as long as no edit is written
\* over another one that it has not read.
AssignmentsIncluded == \A u \in Users \ stale : Assigned(user[u])

\* The session that a client got by a refresh has replaced the one before.
SupersededRevoked ==
    \A k \in SessionIds :
        session[k] # NoSession /\ session[k].held /\ session[k].parent # NoSession
            => session[session[k].parent].state = "revoked"

\* Of the refreshes of one token, one is answered, unless another one began before
\* the first had ended: from the answer on that replaces a session, its token is
\* refused. Two that overlap are both answered.
RefreshedOnce ==
    \A k, l \in {n \in SessionIds : session[n] # NoSession} :
        session[k].held /\ session[l].held
          /\ session[k].parent = session[l].parent /\ session[k].parent # NoSession
            => k = l \/ session[k].parent \in overlapped

Reassigned(u) ==
    /\ user'[u].role \in Portal
    /\ user'[u].org # user[u].org \/ user'[u].programs # user[u].programs

AccessEnded(u) ==
    /\ \A k \in SessionIds : session[k] # NoSession /\ session[k].user = u
                               => session'[k].state = "revoked"
    /\ \A g \in Grants : grant[g] # NoGrant /\ grant[g].of.target = u => grant'[g].revoked

\* Other programs or another organization for a portal user commit together
\* with the end of its sessions and previews.
ReassignmentRevokes == [][\A u \in Users : Reassigned(u) => AccessEnded(u)]_vars

\* So they do if the edit that commits has read the assignment that it replaces, however
\* many edits, sign-ins and refreshes of the user are under way.
FreshReassignmentRevokes ==
    [][\A u \in Users :
          Reassigned(u) =>
            \/ AccessEnded(u)
            \/ \E s \in Slots : /\ req[s].op = "update" /\ req[s].user = u /\ req'[s] = Idle
                               /\ ~SameAssignment(user[u], req[s].row)]_vars

PreviewState ==
    [g \in Grants |->
        CASE grant[g] = NoGrant -> "none"
          [] grant[g] # NoGrant /\ (grant[g].revoked \/ grant[g].expired) -> "ended"
          [] OTHER -> IF grant[g].consumed THEN "used" ELSE "open"]

Abstract == INSTANCE PreviewGrants WITH state <- PreviewState, issued <- previews

\* The handlers keep the promise of a preview grant: at most one exchange of
\* it is answered, none after it is revoked or expired, and it never reopens.
ImplementsPreviewGrants == Abstract!Spec
=============================================================================
