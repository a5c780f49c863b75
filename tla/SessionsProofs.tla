--------------------------- MODULE SessionsProofs ---------------------------
(* Proofs about Sessions, for every set of users, sessions, grants, slots    *)
(* and edits.                                                                *)
EXTENDS Sessions, TLAPS

-----------------------------------------------------------------------------
(* The inductive invariants *)

\* What a handler relies on across an await.
SlotInv(s) ==
    /\ req[s].op \in {"login", "refresh"} =>
         (req[s].old # NoSession => session[req[s].old] # NoSession)
    /\ req[s].op \in {"login", "refresh"} /\ req[s].pc = "answer" =>
         /\ session[req[s].new] # NoSession
         /\ session[req[s].new].parent = req[s].old
         /\ req[s].new # req[s].old
    /\ req[s].op = "exchange" => grant[req[s].grant] # NoGrant

ParentsExist ==
    \A k \in SessionIds : session[k] # NoSession /\ session[k].parent # NoSession
        => session[session[k].parent] # NoSession

\* A preview token is of its grant, which has a row.
TokensOfGrants ==
    \A t \in tokens : t.grant # NoGrant =>
        /\ grant[t.grant] # NoGrant
        /\ t.sub = grant[t.grant].of.target

\* A grant is marked consumed by the exchange that hands out its token.
ConsumedOnce ==
    \A g \in Grants :
        previews[g] = IF grant[g] # NoGrant /\ grant[g].consumed THEN 1 ELSE 0

IInv ==
    /\ TypeOK
    /\ \A s \in Slots : SlotInv(s)
    /\ ParentsExist
    /\ SupersededRevoked
    /\ TokensOfGrants
    /\ ConsumedOnce

\* What a preview token or an exchange shows, while its grant is not revoked and no
\* edit of its user was written over an assignment that it had not read.
Within(d, g, P) ==
    /\ P \subseteq Included[d.org]
    /\ ~grant[g].revoked /\ d.target \notin stale => P \subseteq user[d.target].programs

\* An edit under way was permitted on the row that it has read.
EditorInv(s) ==
    req[s].op = "update" =>
        /\ Permitted(req[s].row, req[s].edit)
        /\ req[s].primary \in Primaries(req[s].row, req[s].edit)

ExchangeInv(s) ==
    req[s].op = "exchange" =>
        Within(grant[req[s].grant].of, req[s].grant, req[s].programs)

TokensWithin ==
    \A t \in tokens : t.grant # NoGrant =>
        /\ t.org = grant[t.grant].of.org
        /\ Within(grant[t.grant].of, t.grant, t.programs)

EditInv ==
    /\ \A u \in Users \ stale : Assigned(user[u]) /\ Connected(user[u])
    /\ \A s \in Slots : EditorInv(s) /\ ExchangeInv(s)
    /\ TokensWithin

-----------------------------------------------------------------------------
(* Types *)

\* What the kinds of requests hold.
LEMMA RequestTypes ==
    ASSUME NEW r \in Requests
    PROVE  /\ r.op \in {"login", "refresh"} =>
                /\ r.user \in Users
                /\ r.row \in UserRows
                /\ r.old \in SessionIds \cup {NoSession}
                /\ r.pc \in {"issue", "answer"}
                /\ (r.pc = "answer" => r.new \in SessionIds)
           /\ r.op = "start" => r.draft \in Drafts
           /\ r.op = "exchange" =>
                /\ r.pc \in {"principal", "consume"}
                /\ r.grant \in Grants
                /\ r.programs \in SUBSET Programs
           /\ r.op = "update" =>
                /\ r.user \in Users /\ r.row \in UserRows /\ r.edit \in AllEdits
                /\ r.primary \in Programs \cup {NoProgram}
           /\ r.op = "none" => r = Idle
  BY DEF Requests, Idle

\* The revocation of a user's sessions keeps their types (logoutAll, update).
LEMMA SessionsRevokedType ==
    ASSUME TypeOK, NEW u \in Users
    PROVE  SessionsRevoked(u) \in [SessionIds -> SessionRows \cup {NoSession}]
<1>1. \A k \in SessionIds : session[k] # NoSession =>
        [session[k] EXCEPT !.state = "revoked"] \in SessionRows
  BY DEF TypeOK, SessionRows
<1> QED
  BY <1>1 DEF TypeOK, SessionsRevoked

\* The revocation of the previews of a user keeps their types (update).
LEMMA GrantsRevokedType ==
    ASSUME TypeOK, NEW u \in Users
    PROVE  GrantsRevoked(u) \in [Grants -> GrantRows \cup {NoGrant}]
<1>1. \A g \in Grants : grant[g] # NoGrant =>
        [grant[g] EXCEPT !.revoked = TRUE] \in GrantRows
  BY DEF TypeOK, GrantRows
<1> QED
  BY <1>1 DEF TypeOK, GrantsRevoked

\* An organization that update() selects is one.
LEMMA SelectedOrgType ==
    ASSUME NEW target \in UserRows, NEW e \in AllEdits
    PROVE  SelectedOrg(target, e) \in Orgs \cup {Same}
  BY DEF SelectedOrg, UserRows, AllEdits

\* What the transaction of update() writes is a user.
LEMMA EditedType ==
    ASSUME NEW row \in UserRows, NEW target \in UserRows, NEW e \in AllEdits,
           NEW primary \in Programs \cup {NoProgram}
    PROVE  LET x == Edited(row, target, e, primary)
               selected == SelectedOrg(target, e)
               leaves == e.role # Same /\ e.role \notin Portal
           IN  /\ x \in UserRows
               /\ x.status = row.status
               /\ x.role = IF e.role = Same THEN row.role ELSE e.role
               /\ x.programs = IF e.programs = Same THEN row.programs ELSE e.programs
               /\ selected # Same => x.org = selected /\ x.primary = primary
               /\ selected = Same =>
                    /\ x.org = IF leaves THEN NoOrg ELSE row.org
                    /\ x.primary = IF leaves THEN NoProgram ELSE row.primary
<1> DEFINE role == IF e.role = Same THEN row.role ELSE e.role
           progs == IF e.programs = Same THEN row.programs ELSE e.programs
           org == IF SelectedOrg(target, e) # Same THEN SelectedOrg(target, e)
                  ELSE IF e.role # Same /\ e.role \notin Portal THEN NoOrg ELSE row.org
           prim == IF SelectedOrg(target, e) # Same THEN primary
                   ELSE IF e.role # Same /\ e.role \notin Portal THEN NoProgram
                   ELSE row.primary
<1>1. role \in Roles /\ progs \in SUBSET Programs
  BY DEF UserRows, AllEdits
<1>2. org \in Orgs \cup {NoOrg} /\ prim \in Programs \cup {NoProgram}
  BY SelectedOrgType DEF UserRows
<1>3. Edited(row, target, e, primary) =
        [row EXCEPT !.role = role, !.programs = progs, !.org = org, !.primary = prim]
  BY DEF Edited
<1> HIDE DEF role, progs, org, prim
<1>4. /\ Edited(row, target, e, primary) \in UserRows
      /\ Edited(row, target, e, primary).status = row.status
      /\ Edited(row, target, e, primary).role = role
      /\ Edited(row, target, e, primary).programs = progs
      /\ Edited(row, target, e, primary).org = org
      /\ Edited(row, target, e, primary).primary = prim
  BY <1>1, <1>2, <1>3 DEF UserRows
<1> QED
  BY <1>4 DEF role, progs, org, prim

\* What the answer to a sign-in or a refresh does to the rows of Session.
LEMMA AnswerRow ==
    ASSUME TypeOK, NEW s \in Slots, SlotInv(s), Answer(s), NEW k \in SessionIds
    PROVE  /\ session'[k] = IF k = req[s].new THEN [session[k] EXCEPT !.held = TRUE]
                            ELSE IF k = req[s].old
                              THEN [session[k] EXCEPT !.state = "revoked"]
                              ELSE session[k]
           /\ k \in {req[s].new, req[s].old} =>
                session[k] \in SessionRows /\ session'[k] \in SessionRows
<1>1. session'[k] = CASE k = req[s].new -> [session[k] EXCEPT !.held = TRUE]
                      [] k = req[s].old -> [session[k] EXCEPT !.state = "revoked"]
                      [] OTHER -> session[k]
  BY DEF Answer
<1>2. req[s].new # req[s].old
  BY DEF Answer, SlotInv
<1>3. session'[k] = IF k = req[s].new THEN [session[k] EXCEPT !.held = TRUE]
                   ELSE IF k = req[s].old THEN [session[k] EXCEPT !.state = "revoked"]
                   ELSE session[k]
  BY <1>1, <1>2
<1>4. k \in {req[s].new, req[s].old} => session[k] \in SessionRows
  BY SessionsAssumption DEF Answer, SlotInv, TypeOK
<1>5. \A x \in SessionRows : [x EXCEPT !.held = TRUE] \in SessionRows
                             /\ [x EXCEPT !.state = "revoked"] \in SessionRows
  BY DEF SessionRows
<1> QED
  BY <1>2, <1>3, <1>4, <1>5

\* Types survive every step of a handler (all handlers with two awaits).
LEMMA SlotType ==
    ASSUME TypeOK, NEW s \in Slots, SlotInv(s), StartRequest(s) \/ Proceed(s) \/ Fail(s)
    PROVE  TypeOK'
<1>0. \A t \in Slots : req[t] \in Requests
  BY DEF TypeOK
<1> USE DEF rows, history
<1>1. ASSUME NEW u \in Users, StartLogin(s, u) PROVE TypeOK'
  <2>1. [op |-> "login", pc |-> "issue", user |-> u, row |-> user[u], old |-> NoSession]
          \in Requests
    BY DEF TypeOK, Requests
  <2> QED
    BY <1>1, <2>1 DEF TypeOK, StartLogin, Accept
<1>2. ASSUME NEW k \in SessionIds, StartRefresh(s, k) PROVE TypeOK'
  <2>1. session[k] \in SessionRows
    BY <1>2 DEF StartRefresh, TypeOK
  <2>2. session[k].user \in Users
    BY <2>1 DEF SessionRows
  <2>3. [op |-> "refresh", pc |-> "issue", user |-> session[k].user,
         row |-> user[session[k].user], old |-> k] \in Requests
    BY <2>2 DEF TypeOK, Requests
  <2> QED
    BY <1>2, <2>3 DEF TypeOK, StartRefresh, Accept
<1>3. ASSUME NEW d \in Drafts, StartGrant(s, d) PROVE TypeOK'
  <2>1. [op |-> "start", draft |-> d] \in Requests
    BY DEF Requests
  <2> QED
    BY <1>3, <2>1 DEF TypeOK, StartGrant, Accept
<1>4. ASSUME NEW g \in Grants, StartExchange(s, g) PROVE TypeOK'
  <2>1. grant[g] \in GrantRows
    BY <1>4 DEF StartExchange, TypeOK
  <2>2. grant[g].of \in Drafts
    BY <2>1 DEF GrantRows
  <2>3. grant[g].of.org \in Orgs
    BY <2>2 DEF Drafts
  <2>4. Included[grant[g].of.org] \in SUBSET Programs
    BY <2>3, SessionsAssumption
  <2>5. ShownPrograms(grant[g].of) \in SUBSET Programs
    BY <2>4 DEF ShownPrograms
  <2>6. [op |-> "exchange", pc |-> "principal", grant |-> g,
         programs |-> ShownPrograms(grant[g].of)] \in Requests
    BY <2>5 DEF Requests
  <2> QED
    BY <1>4, <2>6 DEF TypeOK, StartExchange, Accept
<1>5. ASSUME NEW u \in Users, NEW e \in Edits[u], StartUpdate(s, u, e) PROVE TypeOK'
  <2>1. e \in AllEdits
    BY SessionsAssumption
  <2>2. PICK x \in Primaries(user[u], e) :
          Accept(s, "update", [op |-> "update", user |-> u, row |-> user[u], edit |-> e,
                               primary |-> x])
    BY <1>5 DEF StartUpdate
  <2>3. x \in Programs \cup {NoProgram}
    BY <2>1 DEF Primaries, Effective, AllEdits, UserRows, TypeOK
  <2>4. [op |-> "update", user |-> u, row |-> user[u], edit |-> e, primary |-> x] \in Requests
    BY <2>1, <2>3 DEF TypeOK, Requests
  <2> QED
    BY <1>5, <2>2, <2>4 DEF TypeOK, StartUpdate, Accept
<1>6. ASSUME issueTokens(s) PROVE TypeOK'
  <2>1. /\ req[s].user \in Users /\ req[s].row \in UserRows
        /\ req[s].old \in SessionIds \cup {NoSession}
        /\ req[s].op \in {"login", "refresh"}
    BY <1>0, <1>6, RequestTypes DEF issueTokens
  <2> PICK k \in SessionIds :
         /\ session' = [session EXCEPT ![k] = [state |-> "live", user |-> req[s].user,
                                               held |-> FALSE, parent |-> req[s].old]]
         /\ req' = [req EXCEPT ![s] = [op |-> req[s].op, pc |-> "answer",
                                       user |-> req[s].user, row |-> req[s].row,
                                       old |-> req[s].old, new |-> k]]
    BY <1>6 DEF issueTokens
  <2>2. [state |-> "live", user |-> req[s].user, held |-> FALSE, parent |-> req[s].old]
          \in SessionRows
    BY <2>1 DEF SessionRows
  <2>3. [op |-> req[s].op, pc |-> "answer", user |-> req[s].user, row |-> req[s].row,
         old |-> req[s].old, new |-> k] \in Requests
    BY <2>1 DEF Requests
  <2> QED
    BY <1>6, <2>2, <2>3 DEF TypeOK, issueTokens
<1>7. ASSUME Return(s) PROVE req' \in [Slots -> Requests]
  BY <1>7 DEF Return, TypeOK, Requests
<1>8. ASSUME Answer(s) PROVE TypeOK'
  <2>1. req[s].user \in Users /\ req[s].row.org \in Orgs \cup {NoOrg}
    BY <1>0, <1>8, RequestTypes DEF Answer, UserRows
  <2>2. [sub |-> req[s].user, org |-> req[s].row.org, grant |-> NoGrant,
         programs |-> {}] \in Tokens
    BY <2>1 DEF Tokens
  <2>3. tokens' \subseteq Tokens
    BY <1>8, <2>2 DEF Answer, TypeOK
  <2>4. \A k \in SessionIds : session'[k] \in SessionRows \cup {NoSession}
    BY <1>8, AnswerRow DEF TypeOK
  <2>5. session' \in [SessionIds -> SessionRows \cup {NoSession}]
    BY <1>8, <2>4 DEF Answer
  <2> QED
    BY <1>7, <1>8, <2>3, <2>5 DEF Answer, TypeOK
<1>9. ASSUME createGrant(s) PROVE TypeOK'
  <2>1. req[s].draft \in Drafts
    BY <1>0, <1>9, RequestTypes DEF createGrant
  <2>2. [consumed |-> FALSE, revoked |-> FALSE, expired |-> FALSE, of |-> req[s].draft]
          \in GrantRows
    BY <2>1 DEF GrantRows
  <2> QED
    BY <1>7, <1>9, <2>2 DEF createGrant, TypeOK
<1>10. ASSUME principalForUserId(s) PROVE TypeOK'
  <2>1. [req[s] EXCEPT !.pc = "consume"] \in Requests
    BY <1>0, <1>10 DEF principalForUserId, Requests, Idle
  <2>2. req' \in [Slots -> Requests]
    BY <1>7, <1>10, <2>1 DEF principalForUserId, TypeOK
  <2> QED
    BY <1>10, <2>2 DEF principalForUserId, TypeOK
<1>11. ASSUME ConsumeGrant(s) PROVE TypeOK'
  <2>1. /\ req[s].grant \in Grants
        /\ req[s].programs \in SUBSET Programs
        /\ grant[req[s].grant] \in GrantRows
    BY <1>0, <1>11, RequestTypes DEF ConsumeGrant, SlotInv, TypeOK
  <2>2. /\ [grant[req[s].grant] EXCEPT !.consumed = TRUE] \in GrantRows
        /\ grant[req[s].grant].of \in Drafts
    BY <2>1 DEF GrantRows
  <2>3. PreviewToken(s) \in Tokens
    BY <2>1, <2>2 DEF PreviewToken, Tokens, Drafts
  <2>4. grant' \in [Grants -> GrantRows \cup {NoGrant}]
    BY <1>11, <2>1, <2>2 DEF ConsumeGrant, TypeOK
  <2>5. tokens' \subseteq Tokens /\ previews' \in [Grants -> Nat]
    BY <1>11, <2>1, <2>3 DEF ConsumeGrant, TypeOK
  <2> QED
    BY <1>7, <1>11, <2>4, <2>5 DEF ConsumeGrant, TypeOK
<1>12. ASSUME CommitUpdate(s) PROVE TypeOK'
  <2>1. /\ req[s].user \in Users /\ req[s].row \in UserRows /\ req[s].edit \in AllEdits
        /\ req[s].primary \in Programs \cup {NoProgram}
    BY <1>0, <1>12, RequestTypes DEF CommitUpdate
  <2>2. Edited(user[req[s].user], req[s].row, req[s].edit, req[s].primary) \in UserRows
    BY <2>1, EditedType DEF TypeOK
  <2>3. user' \in [Users -> UserRows]
    BY <1>12, <2>1, <2>2 DEF CommitUpdate, TypeOK
  <2>4. session' \in [SessionIds -> SessionRows \cup {NoSession}]
    BY <1>12, <2>1, SessionsRevokedType DEF CommitUpdate, TypeOK
  <2>5. grant' \in [Grants -> GrantRows \cup {NoGrant}]
    BY <1>12, <2>1, GrantsRevokedType DEF CommitUpdate, TypeOK
  <2>6. stale' \subseteq Users /\ overlapped' \subseteq SessionIds
    BY <1>12, <2>1 DEF CommitUpdate, TypeOK
  <2> QED
    BY <1>7, <1>12, <2>3, <2>4, <2>5, <2>6 DEF CommitUpdate, TypeOK
<1>13. ASSUME Fail(s) PROVE TypeOK'
  BY <1>7, <1>13 DEF Fail, TypeOK
<1> QED
  BY <1>1, <1>2, <1>3, <1>4, <1>5, <1>6, <1>8, <1>9, <1>10, <1>11, <1>12, <1>13
     DEF StartRequest, Proceed

\* Types survive the steps that are no part of a handler with two awaits.
LEMMA SingleType ==
    ASSUME TypeOK, TokensOfGrants, [Next]_vars,
           \A s \in Slots : ~(StartRequest(s) \/ Proceed(s) \/ Fail(s))
    PROVE  TypeOK'
<1> USE DEF rows, history
<1>1. ASSUME NEW t \in tokens, logoutAll(t) PROVE TypeOK'
  <2>1. t.sub \in Users
    BY DEF TypeOK, Tokens
  <2> QED
    BY <1>1, <2>1, SessionsRevokedType DEF logoutAll, TypeOK
<1>2. ASSUME NEW t \in tokens, revoke(t) PROVE TypeOK'
  <2>1. t.grant \in Grants /\ grant[t.grant] \in GrantRows
    BY <1>2 DEF revoke, TokensOfGrants, TypeOK, Tokens
  <2>2. [grant[t.grant] EXCEPT !.revoked = TRUE] \in GrantRows
    BY <2>1 DEF GrantRows
  <2> QED
    BY <1>2, <2>1, <2>2 DEF revoke, TypeOK
<1>3. ASSUME NEW t \in tokens, ExpireToken(t) PROVE TypeOK'
  BY <1>3 DEF ExpireToken, TypeOK
<1>4. ASSUME NEW u \in Users, NEW st \in {"ACTIVE", "DISABLED"}
      PROVE  [user[u] EXCEPT !.status = st] \in UserRows
  BY DEF TypeOK, UserRows
<1>5. ASSUME NEW u \in Users, delete(u) PROVE TypeOK'
  <2>1. user' \in [Users -> UserRows]
    BY <1>4, <1>5 DEF delete, TypeOK
  <2> QED
    BY <1>5, <2>1, SessionsRevokedType DEF delete, TypeOK
<1>6. ASSUME NEW u \in Users, restore(u) PROVE TypeOK'
  <2>1. user' \in [Users -> UserRows]
    BY <1>4, <1>6 DEF restore, TypeOK
  <2> QED
    BY <1>6, <2>1 DEF restore, TypeOK
<1>7. ASSUME NEW u \in Users, replacePassword(u) PROVE TypeOK'
  <2>1. user' \in [Users -> UserRows]
    BY <1>4, <1>7 DEF replacePassword, TypeOK
  <2> QED
    BY <1>7, <2>1, SessionsRevokedType DEF replacePassword, TypeOK
<1>8. ASSUME NEW k \in SessionIds, ExpireSession(k) PROVE TypeOK'
  <2>1. [session[k] EXCEPT !.state = "expired"] \in SessionRows
    BY <1>8 DEF ExpireSession, TypeOK, SessionRows
  <2> QED
    BY <1>8, <2>1 DEF ExpireSession, TypeOK
<1>9. ASSUME NEW g \in Grants, ExpireGrant(g) PROVE TypeOK'
  <2>1. [grant[g] EXCEPT !.expired = TRUE] \in GrantRows
    BY <1>9 DEF ExpireGrant, TypeOK, GrantRows
  <2> QED
    BY <1>9, <2>1 DEF ExpireGrant, TypeOK
<1>10. CASE UNCHANGED vars
  BY <1>10 DEF vars, TypeOK
<1> QED
  BY <1>1, <1>2, <1>3, <1>5, <1>6, <1>7, <1>8, <1>9, <1>10 DEF Next

-----------------------------------------------------------------------------
(* What a step does to the rows *)

\* No row of Session is deleted or replaced, and a revocation is final.
SessionsKept ==
    \A k \in SessionIds : session[k] # NoSession =>
        /\ session'[k] # NoSession
        /\ session'[k].parent = session[k].parent
        /\ (session[k].state = "revoked" => session'[k].state = "revoked")

\* A refresh token reaches its client only with the answer.
HeldByAnswer ==
    \A k \in SessionIds : session'[k] # NoSession =>
        \/ session[k] # NoSession /\ (session'[k].held => session[k].held)
        \/ \E s \in Slots : Answer(s) /\ req[s].new = k
        \/ \E s \in Slots : /\ issueTokens(s)
                            /\ session'[k].parent = req[s].old
                            /\ ~session'[k].held

\* No grant is deleted or changes what it is of, and nothing reopens it.
GrantsKept ==
    \A g \in Grants : grant[g] # NoGrant =>
        /\ grant'[g] # NoGrant
        /\ grant'[g].of = grant[g].of
        /\ (grant[g].revoked => grant'[g].revoked)
        /\ (grant[g].expired => grant'[g].expired)

\* Revoking the sessions of a user does nothing else (logoutAll, update, delete).
LEMMA SessionsRevokedKeeps ==
    ASSUME TypeOK, NEW u \in Users, session' = SessionsRevoked(u)
    PROVE  SessionsKept /\ HeldByAnswer
<1> SUFFICES ASSUME NEW k \in SessionIds
             PROVE  /\ session[k] = NoSession => session'[k] = NoSession
                    /\ session[k] # NoSession =>
                         /\ session'[k] # NoSession
                         /\ session'[k].parent = session[k].parent
                         /\ session'[k].held = session[k].held
                         /\ (session[k].state = "revoked" => session'[k].state = "revoked")
  BY DEF SessionsKept, HeldByAnswer
<1>1. CASE session[k] = NoSession
  BY <1>1 DEF SessionsRevoked
<1>2. CASE session[k] # NoSession
  <2>1. session[k] \in SessionRows
    BY <1>2 DEF TypeOK
  <2>2. session'[k] \in {session[k], [session[k] EXCEPT !.state = "revoked"]}
    BY DEF SessionsRevoked
  <2>3. session'[k] \in SessionRows
    BY <2>1, <2>2 DEF SessionRows
  <2> QED
    BY <1>2, <2>1, <2>2, <2>3, SessionsAssumption DEF SessionRows
<1> QED
  BY <1>1, <1>2

\* Every step keeps the rows of Session.
LEMMA SessionStep ==
    ASSUME IInv, [Next]_vars
    PROVE  SessionsKept /\ HeldByAnswer
<1>0. TypeOK /\ \A s \in Slots : SlotInv(s) /\ req[s] \in Requests
  BY DEF IInv, TypeOK
<1> USE DEF rows, history
<1>1. ASSUME UNCHANGED session PROVE SessionsKept /\ HeldByAnswer
  BY <1>1 DEF SessionsKept, HeldByAnswer
<1>2. ASSUME NEW s \in Slots, issueTokens(s) PROVE SessionsKept /\ HeldByAnswer
  <2> PICK k \in SessionIds :
        /\ session[k] = NoSession
        /\ session' = [session EXCEPT ![k] = [state |-> "live", user |-> req[s].user,
                                              held |-> FALSE, parent |-> req[s].old]]
    BY <1>2 DEF issueTokens
  <2>1. /\ session'[k].parent = req[s].old
        /\ ~session'[k].held
        /\ \A l \in SessionIds \ {k} : session'[l] = session[l]
    BY <1>0 DEF TypeOK
  <2> QED
    BY <1>2, <2>1 DEF SessionsKept, HeldByAnswer
<1>3. ASSUME NEW s \in Slots, Answer(s) PROVE SessionsKept /\ HeldByAnswer
  <2> SUFFICES ASSUME NEW k \in SessionIds
               PROVE  /\ session[k] = NoSession => session'[k] = NoSession
                      /\ session[k] # NoSession =>
                           /\ session'[k] # NoSession
                           /\ session'[k].parent = session[k].parent
                           /\ (k # req[s].new => session'[k].held = session[k].held)
                           /\ (session[k].state = "revoked" => session'[k].state = "revoked")
    BY <1>3 DEF SessionsKept, HeldByAnswer
  <2>1. CASE k \in {req[s].new, req[s].old}
    <3>1. session[k] \in SessionRows /\ session'[k] \in SessionRows
      BY <1>0, <1>3, <2>1, AnswerRow
    <3>2. session'[k] = IF k = req[s].new THEN [session[k] EXCEPT !.held = TRUE]
                       ELSE [session[k] EXCEPT !.state = "revoked"]
      BY <1>0, <1>3, <2>1, AnswerRow
    <3>3. session[k] # NoSession /\ session'[k] # NoSession
      BY <3>1, SessionsAssumption
    <3>4. CASE k = req[s].new
      BY <3>1, <3>2, <3>3, <3>4 DEF SessionRows
    <3>5. CASE k # req[s].new
      <4>1. session'[k] = [session[k] EXCEPT !.state = "revoked"]
        BY <3>2, <3>5
      <4>2. /\ session'[k].parent = session[k].parent
            /\ session'[k].held = session[k].held
            /\ session'[k].state = "revoked"
        BY <3>1, <4>1 DEF SessionRows
      <4> QED
        BY <3>3, <4>2
    <3> QED
      BY <3>4, <3>5
  <2>2. CASE k \notin {req[s].new, req[s].old}
    BY <1>0, <1>3, <2>2, AnswerRow
  <2> QED
    BY <2>1, <2>2
<1>4. ASSUME NEW k \in SessionIds, ExpireSession(k) PROVE SessionsKept /\ HeldByAnswer
  <2>1. session[k] \in SessionRows /\ session[k].state = "live"
    BY <1>0, <1>4 DEF ExpireSession, TypeOK
  <2>2. session'[k] = [session[k] EXCEPT !.state = "expired"]
    BY <1>0, <1>4 DEF ExpireSession, TypeOK
  <2>3. /\ session'[k] # NoSession
        /\ session'[k].parent = session[k].parent
        /\ session'[k].held = session[k].held
    BY <2>1, <2>2, SessionsAssumption DEF SessionRows
  <2>4. \A l \in SessionIds \ {k} : session'[l] = session[l]
    BY <1>0, <1>4 DEF ExpireSession, TypeOK
  <2>5. session[k] # NoSession
    BY <1>4 DEF ExpireSession
  <2> QED
    BY <2>1, <2>3, <2>4, <2>5 DEF SessionsKept, HeldByAnswer
<1>5. ASSUME NEW u \in Users, session' = SessionsRevoked(u)
      PROVE  SessionsKept /\ HeldByAnswer
  BY <1>0, <1>5, SessionsRevokedKeeps
<1>6. ASSUME NEW s \in Slots, CommitUpdate(s) PROVE SessionsKept /\ HeldByAnswer
  <2>1. req[s].user \in Users
    BY <1>0, <1>6, RequestTypes DEF CommitUpdate
  <2> QED
    BY <1>1, <1>5, <1>6, <2>1 DEF CommitUpdate
<1>7. ASSUME NEW s \in Slots, StartRequest(s) \/ Fail(s) \/ createGrant(s)
                                \/ principalForUserId(s) \/ ConsumeGrant(s)
      PROVE  UNCHANGED session
  BY <1>7 DEF StartRequest, StartLogin, StartRefresh, StartGrant, StartExchange,
     StartUpdate, Fail, createGrant, principalForUserId, ConsumeGrant
<1>8. ASSUME NEW t \in tokens, logoutAll(t) \/ revoke(t) \/ ExpireToken(t)
      PROVE  SessionsKept /\ HeldByAnswer
  <2>1. t.sub \in Users
    BY <1>0 DEF TypeOK, Tokens
  <2> QED
    BY <1>1, <1>5, <1>8, <2>1 DEF logoutAll, revoke, ExpireToken
<1>9. ASSUME NEW u \in Users, delete(u) \/ restore(u) \/ replacePassword(u)
      PROVE  SessionsKept /\ HeldByAnswer
  BY <1>1, <1>5, <1>9 DEF delete, restore, replacePassword
<1>10. ASSUME NEW g \in Grants, ExpireGrant(g) PROVE UNCHANGED session
  BY <1>10 DEF ExpireGrant
<1>11. CASE UNCHANGED vars
  BY <1>1, <1>11 DEF vars
<1> QED
  BY <1>1, <1>2, <1>3, <1>4, <1>6, <1>7, <1>8, <1>9, <1>10, <1>11 DEF Next, Proceed

\* Every step keeps the rows of ImpersonationGrant.
LEMMA GrantStep ==
    ASSUME IInv, [Next]_vars
    PROVE  GrantsKept
<1>0. /\ TypeOK /\ TokensOfGrants
      /\ \A s \in Slots : SlotInv(s) /\ req[s] \in Requests
  BY DEF IInv, TypeOK
<1> USE DEF rows, history
<1>1. ASSUME UNCHANGED grant PROVE GrantsKept
  BY <1>1 DEF GrantsKept
<1>2. ASSUME NEW g \in Grants, NEW x \in GrantRows,
             grant' = [grant EXCEPT ![g] = x],
             grant[g] # NoGrant =>
               x.of = grant[g].of /\ (grant[g].revoked => x.revoked)
                 /\ (grant[g].expired => x.expired)
      PROVE  GrantsKept
  BY <1>0, <1>2, SessionsAssumption DEF GrantsKept, TypeOK
<1>3. ASSUME NEW s \in Slots, createGrant(s) PROVE GrantsKept
  <2> PICK g \in Grants :
        /\ grant[g] = NoGrant
        /\ grant' = [grant EXCEPT ![g] = [consumed |-> FALSE, revoked |-> FALSE,
                                          expired |-> FALSE, of |-> req[s].draft]]
    BY <1>3 DEF createGrant
  <2>1. \A h \in Grants \ {g} : grant'[h] = grant[h]
    BY <1>0 DEF TypeOK
  <2> QED
    BY <2>1 DEF GrantsKept
<1>4. ASSUME NEW g \in Grants, grant[g] # NoGrant,
             NEW x \in {[grant[g] EXCEPT !.consumed = TRUE],
                        [grant[g] EXCEPT !.revoked = TRUE],
                        [grant[g] EXCEPT !.expired = TRUE]},
             grant' = [grant EXCEPT ![g] = x]
      PROVE  GrantsKept
  <2>1. grant[g] \in GrantRows
    BY <1>0, <1>4 DEF TypeOK
  <2>2. /\ x \in GrantRows /\ x.of = grant[g].of
        /\ (grant[g].revoked => x.revoked)
        /\ (grant[g].expired => x.expired)
    BY <1>4, <2>1 DEF GrantRows
  <2> QED
    BY <1>2, <1>4, <2>2
<1>5. ASSUME NEW s \in Slots, ConsumeGrant(s) PROVE GrantsKept
  <2>1. req[s].grant \in Grants /\ grant[req[s].grant] # NoGrant
    BY <1>0, <1>5, RequestTypes DEF ConsumeGrant, SlotInv
  <2>2. CASE UNCHANGED grant
    BY <1>1, <2>2
  <2>3. CASE grant' = [grant EXCEPT ![req[s].grant].consumed = TRUE]
    BY <1>4, <2>1, <2>3
  <2> QED
    BY <1>5, <2>2, <2>3 DEF ConsumeGrant
<1>6. ASSUME NEW u \in Users, grant' = GrantsRevoked(u) PROVE GrantsKept
  <2> SUFFICES ASSUME NEW g \in Grants, grant[g] # NoGrant
               PROVE  /\ grant'[g] # NoGrant
                      /\ grant'[g].of = grant[g].of
                      /\ (grant[g].revoked => grant'[g].revoked)
                      /\ (grant[g].expired => grant'[g].expired)
    BY DEF GrantsKept
  <2>1. grant[g] \in GrantRows
    BY <1>0 DEF TypeOK
  <2>2. grant'[g] \in {grant[g], [grant[g] EXCEPT !.revoked = TRUE]}
    BY <1>6 DEF GrantsRevoked
  <2> QED
    BY <2>1, <2>2, SessionsAssumption DEF GrantRows
<1>7. ASSUME NEW s \in Slots, CommitUpdate(s) PROVE GrantsKept
  <2>1. req[s].user \in Users
    BY <1>0, <1>7, RequestTypes DEF CommitUpdate
  <2> QED
    BY <1>1, <1>6, <1>7, <2>1 DEF CommitUpdate
<1>8. ASSUME NEW t \in tokens, revoke(t) PROVE GrantsKept
  <2>1. t.grant \in Grants /\ grant[t.grant] # NoGrant
    BY <1>0, <1>8 DEF revoke, TokensOfGrants, TypeOK, Tokens
  <2> QED
    BY <1>4, <1>8, <2>1 DEF revoke
<1>9. ASSUME NEW g \in Grants, ExpireGrant(g) PROVE GrantsKept
  BY <1>4, <1>9 DEF ExpireGrant
<1>10. ASSUME NEW s \in Slots, StartRequest(s) \/ Fail(s) \/ issueTokens(s)
                                 \/ Answer(s) \/ principalForUserId(s)
       PROVE  UNCHANGED grant
  BY <1>10 DEF StartRequest, StartLogin, StartRefresh, StartGrant, StartExchange,
     StartUpdate, Fail, issueTokens, Answer, principalForUserId
<1>11. ASSUME NEW t \in tokens, logoutAll(t) \/ ExpireToken(t) PROVE UNCHANGED grant
  BY <1>11 DEF logoutAll, ExpireToken
<1>12. ASSUME NEW u \in Users, delete(u) \/ restore(u) \/ replacePassword(u)
       PROVE  UNCHANGED grant
  BY <1>12 DEF delete, restore, replacePassword
<1>13. ASSUME NEW k \in SessionIds, ExpireSession(k) PROVE UNCHANGED grant
  BY <1>13 DEF ExpireSession
<1>14. CASE UNCHANGED vars
  BY <1>1, <1>14 DEF vars
<1> QED
  BY <1>1, <1>3, <1>5, <1>7, <1>8, <1>9, <1>10, <1>11, <1>12, <1>13, <1>14
     DEF Next, Proceed

-----------------------------------------------------------------------------
(* The first invariant *)

\* A run starts with no session, grant, token or request.
LEMMA InitIInv == Init => IInv
<1> SUFFICES ASSUME Init PROVE IInv
  OBVIOUS
<1>1. TypeOK
  BY SessionsAssumption DEF Init, TypeOK, Requests
<1>2. \A s \in Slots : SlotInv(s)
  BY DEF Init, SlotInv, Idle
<1>3. ParentsExist /\ SupersededRevoked /\ TokensOfGrants /\ ConsumedOnce
  BY DEF Init, ParentsExist, SupersededRevoked, TokensOfGrants, ConsumedOnce
<1> QED
  BY <1>1, <1>2, <1>3 DEF IInv

\* Types survive every step.
LEMMA TypeStep ==
    ASSUME IInv, [Next]_vars
    PROVE  TypeOK'
<1>1. CASE \E s \in Slots : StartRequest(s) \/ Proceed(s) \/ Fail(s)
  BY <1>1, SlotType DEF IInv
<1>2. CASE \A s \in Slots : ~(StartRequest(s) \/ Proceed(s) \/ Fail(s))
  BY <1>2, SingleType DEF IInv
<1> QED
  BY <1>1, <1>2

\* A handler that does not move keeps what it relies on: the rows are kept.
LEMMA OtherSlot ==
    ASSUME IInv, SessionsKept, GrantsKept, NEW s \in Slots, req'[s] = req[s]
    PROVE  SlotInv(s)'
<1>1. req[s] \in Requests /\ SlotInv(s)
  BY DEF IInv, TypeOK
<1>2. req[s].op \in {"login", "refresh"} =>
        (req[s].old # NoSession => session'[req[s].old] # NoSession)
  BY <1>1, RequestTypes DEF SlotInv, SessionsKept
<1>3. req[s].op \in {"login", "refresh"} /\ req[s].pc = "answer" =>
        /\ session'[req[s].new] # NoSession
        /\ session'[req[s].new].parent = req[s].old
        /\ req[s].new # req[s].old
  BY <1>1, RequestTypes DEF SlotInv, SessionsKept
<1>4. req[s].op = "exchange" => grant'[req[s].grant] # NoGrant
  BY <1>1, RequestTypes DEF SlotInv, GrantsKept
<1> QED
  BY <1>2, <1>3, <1>4 DEF SlotInv

\* A step of one handler leaves the others where they are.
LEMMA OthersWait ==
    ASSUME TypeOK, NEW s \in Slots, StartRequest(s) \/ Proceed(s) \/ Fail(s),
           NEW t \in Slots, t # s
    PROVE  req'[t] = req[t]
<1> USE DEF TypeOK
<1>1. CASE StartRequest(s)
  BY <1>1 DEF StartRequest, StartLogin, StartRefresh, StartGrant, StartExchange,
     StartUpdate, Accept
<1>2. CASE Proceed(s)
  <2>1. CASE issueTokens(s) \/ principalForUserId(s)
    BY <2>1 DEF issueTokens, principalForUserId, Return
  <2>2. CASE Answer(s) \/ createGrant(s) \/ ConsumeGrant(s) \/ CommitUpdate(s)
    BY <2>2 DEF Answer, createGrant, ConsumeGrant, CommitUpdate, Return
  <2> QED
    BY <1>2, <2>1, <2>2 DEF Proceed
<1>3. CASE Fail(s)
  BY <1>3 DEF Fail, Return
<1> QED
  BY <1>1, <1>2, <1>3

\* The steps that are no part of a handler with two awaits move no handler.
LEMMA NoneMoves ==
    ASSUME [Next]_vars, \A s \in Slots : ~(StartRequest(s) \/ Proceed(s) \/ Fail(s))
    PROVE  UNCHANGED req
<1>1. ASSUME NEW t \in tokens, logoutAll(t) \/ revoke(t) \/ ExpireToken(t)
      PROVE  UNCHANGED req
  BY <1>1 DEF logoutAll, revoke, ExpireToken
<1>2. ASSUME NEW u \in Users, delete(u) \/ restore(u) \/ replacePassword(u)
      PROVE  UNCHANGED req
  BY <1>2 DEF delete, restore, replacePassword
<1>3. ASSUME NEW k \in SessionIds, ExpireSession(k) PROVE UNCHANGED req
  BY <1>3 DEF ExpireSession
<1>4. ASSUME NEW g \in Grants, ExpireGrant(g) PROVE UNCHANGED req
  BY <1>4 DEF ExpireGrant
<1> QED
  BY <1>1, <1>2, <1>3, <1>4 DEF Next, vars

\* A handler that moves has what it relies on at its next await.
LEMMA MovingSlot ==
    ASSUME IInv, TypeOK', SessionsKept, GrantsKept, NEW s \in Slots,
           StartRequest(s) \/ Proceed(s) \/ Fail(s)
    PROVE  SlotInv(s)'
<1>0. TypeOK /\ SlotInv(s) /\ req[s] \in Requests
  BY DEF IInv, TypeOK
<1> USE DEF rows, history
<1>1. ASSUME Return(s) PROVE SlotInv(s)'
  BY <1>0, <1>1 DEF Return, SlotInv, Idle, TypeOK
<1>2. ASSUME NEW u \in Users, StartLogin(s, u) PROVE SlotInv(s)'
  BY <1>0, <1>2 DEF StartLogin, Accept, SlotInv, TypeOK
<1>3. ASSUME NEW k \in SessionIds, StartRefresh(s, k) PROVE SlotInv(s)'
  BY <1>0, <1>3 DEF StartRefresh, Accept, SlotInv, TypeOK
<1>4. ASSUME NEW d \in Drafts, StartGrant(s, d) PROVE SlotInv(s)'
  BY <1>0, <1>4 DEF StartGrant, Accept, SlotInv, TypeOK
<1>5. ASSUME NEW g \in Grants, StartExchange(s, g) PROVE SlotInv(s)'
  BY <1>0, <1>5 DEF StartExchange, Accept, SlotInv, TypeOK
<1>6. ASSUME NEW u \in Users, NEW e \in Edits[u], StartUpdate(s, u, e) PROVE SlotInv(s)'
  BY <1>0, <1>6 DEF StartUpdate, Accept, SlotInv, TypeOK
<1>7. ASSUME issueTokens(s) PROVE SlotInv(s)'
  <2>1. PICK k \in SessionIds :
         /\ session[k] = NoSession
         /\ session' = [session EXCEPT ![k] = [state |-> "live", user |-> req[s].user,
                                               held |-> FALSE, parent |-> req[s].old]]
         /\ req' = [req EXCEPT ![s] = [op |-> req[s].op, pc |-> "answer",
                                       user |-> req[s].user, row |-> req[s].row,
                                       old |-> req[s].old, new |-> k]]
    BY <1>7 DEF issueTokens
  <2>2. /\ req[s].op \in {"login", "refresh"}
        /\ req[s].old \in SessionIds \cup {NoSession}
        /\ req[s].user \in Users
    BY <1>0, <1>7, RequestTypes DEF issueTokens
  <2>3. req[s].old # NoSession => session[req[s].old] # NoSession
    BY <1>0, <2>2 DEF SlotInv
  <2>4. k # req[s].old
    BY <2>1, <2>2, <2>3, SessionsAssumption
  <2>5. session'[k] = [state |-> "live", user |-> req[s].user, held |-> FALSE,
                      parent |-> req[s].old]
    BY <1>0, <2>1 DEF TypeOK
  <2>6. session'[k] \in SessionRows
    BY <2>2, <2>5 DEF SessionRows
  <2>7. session'[k] # NoSession
    BY <2>6, SessionsAssumption
  <2>10. session'[k].parent = req[s].old
    BY <2>5
  <2>8. req[s].old # NoSession => session'[req[s].old] # NoSession
    BY <2>2, <2>3 DEF SessionsKept
  <2>9. req'[s] = [op |-> req[s].op, pc |-> "answer", user |-> req[s].user,
                  row |-> req[s].row, old |-> req[s].old, new |-> k]
    BY <1>0, <2>1 DEF TypeOK
  <2> QED
    BY <2>2, <2>4, <2>7, <2>8, <2>9, <2>10 DEF SlotInv
<1>8. ASSUME principalForUserId(s) PROVE SlotInv(s)'
  <2>1. CASE req' = [req EXCEPT ![s].pc = "consume"]
    <3>1. /\ req[s].op = "exchange" /\ req[s].grant \in Grants
          /\ grant[req[s].grant] # NoGrant
      BY <1>0, <1>8, RequestTypes DEF principalForUserId, SlotInv
    <3>2. req'[s].op = "exchange" /\ req'[s].grant = req[s].grant
      BY <1>0, <2>1, <3>1 DEF TypeOK, Requests, Idle
    <3> QED
      BY <3>1, <3>2 DEF SlotInv, GrantsKept
  <2> QED
    BY <1>1, <1>8, <2>1 DEF principalForUserId
<1> QED
  BY <1>1, <1>2, <1>3, <1>4, <1>5, <1>6, <1>7, <1>8
     DEF StartRequest, Proceed, Answer, createGrant, ConsumeGrant, CommitUpdate, Fail

\* Every handler keeps what it relies on.
LEMMA SlotsStep ==
    ASSUME IInv, [Next]_vars
    PROVE  \A s \in Slots : SlotInv(s)'
<1>1. TypeOK /\ TypeOK' /\ SessionsKept /\ GrantsKept
  BY TypeStep, SessionStep, GrantStep DEF IInv
<1> TAKE t \in Slots
<1>2. CASE \E s \in Slots : StartRequest(s) \/ Proceed(s) \/ Fail(s)
  <2> PICK s \in Slots : StartRequest(s) \/ Proceed(s) \/ Fail(s)
    BY <1>2
  <2>1. CASE t = s
    BY <1>1, <2>1, MovingSlot
  <2>2. CASE t # s
    BY <1>1, <2>2, OthersWait, OtherSlot
  <2> QED
    BY <2>1, <2>2
<1>3. CASE \A s \in Slots : ~(StartRequest(s) \/ Proceed(s) \/ Fail(s))
  BY <1>1, <1>3, NoneMoves, OtherSlot
<1> QED
  BY <1>2, <1>3

\* The replaced session is revoked with the answer that carries the new one
\* (rotateRefreshToken), and nothing undoes a revocation.
LEMMA SupersededStep ==
    ASSUME IInv, [Next]_vars
    PROVE  ParentsExist' /\ SupersededRevoked'
<1>0. /\ TypeOK /\ ParentsExist /\ SupersededRevoked
      /\ \A s \in Slots : SlotInv(s) /\ req[s] \in Requests
  BY DEF IInv, TypeOK
<1>1. TypeOK' /\ SessionsKept /\ HeldByAnswer
  BY TypeStep, SessionStep
<1> SUFFICES ASSUME NEW k \in SessionIds, session'[k] # NoSession,
                    session'[k].parent # NoSession
             PROVE  /\ session'[session'[k].parent] # NoSession
                    /\ (session'[k].held => session'[session'[k].parent].state = "revoked")
  BY DEF ParentsExist, SupersededRevoked
<1>2. session'[k] \in SessionRows
  BY <1>1 DEF TypeOK
<1>3. session'[k].parent \in SessionIds
  BY <1>2 DEF SessionRows
<1>4. CASE session[k] # NoSession /\ (session'[k].held => session[k].held)
  <2>1. session'[k].parent = session[k].parent
    BY <1>1, <1>4 DEF SessionsKept
  <2>2. /\ session[session[k].parent] # NoSession
        /\ (session[k].held => session[session[k].parent].state = "revoked")
    BY <1>0, <1>4, <2>1 DEF ParentsExist, SupersededRevoked
  <2> QED
    BY <1>1, <1>3, <1>4, <2>1, <2>2 DEF SessionsKept
<1>5. ASSUME NEW s \in Slots, Answer(s), req[s].new = k
      PROVE  session'[session'[k].parent] # NoSession
               /\ session'[session'[k].parent].state = "revoked"
  <2>1. /\ session[k] # NoSession
        /\ session[k].parent = req[s].old
        /\ k # req[s].old
    BY <1>0, <1>5 DEF Answer, SlotInv
  <2>2. session'[k].parent = req[s].old
    BY <1>1, <2>1 DEF SessionsKept
  <2>3. req[s].old \in SessionIds
    BY <1>3, <2>2
  <2>4. /\ session'[req[s].old] = [session[req[s].old] EXCEPT !.state = "revoked"]
        /\ session[req[s].old] \in SessionRows
        /\ session'[req[s].old] \in SessionRows
    BY <1>0, <1>5, <2>1, <2>3, AnswerRow
  <2>5. session'[req[s].old].state = "revoked"
    BY <2>4 DEF SessionRows
  <2> QED
    BY <2>2, <2>4, <2>5, SessionsAssumption
<1>6. ASSUME NEW s \in Slots, issueTokens(s), session'[k].parent = req[s].old
      PROVE  session'[session'[k].parent] # NoSession
  <2>1. session[req[s].old] # NoSession
    BY <1>0, <1>6 DEF issueTokens, SlotInv
  <2> QED
    BY <1>1, <1>3, <1>6, <2>1 DEF SessionsKept
<1> QED
  BY <1>1, <1>4, <1>5, <1>6 DEF HeldByAnswer

\* A token that is handed out for a grant names the grant's target (exchange).
LEMMA TokensStep ==
    ASSUME IInv, [Next]_vars
    PROVE  TokensOfGrants'
<1>0. TypeOK /\ TokensOfGrants /\ \A s \in Slots : SlotInv(s) /\ req[s] \in Requests
  BY DEF IInv, TypeOK
<1>1. TypeOK' /\ GrantsKept
  BY TypeStep, GrantStep
<1> USE DEF rows, history
<1>2. ASSUME tokens' \subseteq tokens PROVE TokensOfGrants'
  BY <1>0, <1>1, <1>2 DEF TokensOfGrants, GrantsKept, TypeOK, Tokens
<1>3. ASSUME NEW s \in Slots, Answer(s) PROVE TokensOfGrants'
  <2> SUFFICES ASSUME NEW t \in tokens', t.grant # NoGrant
               PROVE  grant'[t.grant] # NoGrant /\ t.sub = grant'[t.grant].of.target
    BY DEF TokensOfGrants
  <2>1. t \in tokens
    BY <1>3 DEF Answer
  <2> QED
    BY <1>0, <1>1, <2>1 DEF TokensOfGrants, GrantsKept, TypeOK, Tokens
<1>4. ASSUME NEW s \in Slots, ConsumeGrant(s) PROVE TokensOfGrants'
  <2>1. req[s].grant \in Grants /\ grant[req[s].grant] # NoGrant
    BY <1>0, <1>4, RequestTypes DEF ConsumeGrant, SlotInv
  <2> SUFFICES ASSUME NEW t \in tokens', t.grant # NoGrant
               PROVE  grant'[t.grant] # NoGrant /\ t.sub = grant'[t.grant].of.target
    BY DEF TokensOfGrants
  <2>2. t \in tokens \/ t = PreviewToken(s)
    BY <1>4 DEF ConsumeGrant
  <2>3. CASE t \in tokens
    BY <1>0, <1>1, <2>3 DEF TokensOfGrants, GrantsKept, TypeOK, Tokens
  <2>4. CASE t = PreviewToken(s)
    <3>1. t.grant = req[s].grant /\ t.sub = grant[req[s].grant].of.target
      BY <2>4 DEF PreviewToken
    <3> QED
      BY <1>1, <2>1, <3>1 DEF GrantsKept
  <2> QED
    BY <2>2, <2>3, <2>4
<1>5. ASSUME NEW s \in Slots, StartRequest(s) \/ Fail(s) \/ issueTokens(s) \/ createGrant(s)
                                \/ principalForUserId(s) \/ CommitUpdate(s)
      PROVE  UNCHANGED tokens
  BY <1>5 DEF StartRequest, StartLogin, StartRefresh, StartGrant, StartExchange,
     StartUpdate, Fail, issueTokens, createGrant, principalForUserId, CommitUpdate
<1>6. ASSUME NEW t \in tokens, logoutAll(t) \/ revoke(t) \/ ExpireToken(t)
      PROVE  tokens' \subseteq tokens
  BY <1>6 DEF logoutAll, revoke, ExpireToken
<1>7. ASSUME NEW u \in Users, delete(u) \/ restore(u) \/ replacePassword(u)
      PROVE  UNCHANGED tokens
  BY <1>7 DEF delete, restore, replacePassword
<1>8. ASSUME NEW k \in SessionIds, ExpireSession(k) PROVE UNCHANGED tokens
  BY <1>8 DEF ExpireSession
<1>9. ASSUME NEW g \in Grants, ExpireGrant(g) PROVE tokens' \subseteq tokens
  BY <1>9 DEF ExpireGrant
<1>10. CASE UNCHANGED vars
  BY <1>2, <1>10 DEF vars
<1> QED
  BY <1>2, <1>3, <1>4, <1>5, <1>6, <1>7, <1>8, <1>9, <1>10 DEF Next, Proceed

\* What a step may do to a grant: create it, mark it consumed with a token handed
\* out, end it, or nothing (start, exchange, revoke, update).
Created(g) == grant[g] = NoGrant /\ grant'[g] # NoGrant
              /\ ~grant'[g].consumed /\ ~grant'[g].revoked /\ ~grant'[g].expired

Untouched(g) == grant'[g] = grant[g] /\ previews'[g] = previews[g]

Ended(g) == /\ grant[g] # NoGrant /\ grant'[g] # NoGrant
            /\ grant'[g].consumed = grant[g].consumed
            /\ previews'[g] = previews[g]
            /\ grant'[g].revoked \/ grant'[g].expired

Consumed(g) == /\ grant[g] # NoGrant /\ grant'[g] # NoGrant
               /\ ~grant[g].consumed /\ ~grant[g].revoked /\ ~grant[g].expired
               /\ grant'[g].consumed /\ ~grant'[g].revoked /\ ~grant'[g].expired
               /\ previews'[g] = previews[g] + 1

\* Of all grants, a step creates one, consumes one, or ends some.
GrantEffect ==
    \/ \E g \in Grants : /\ Created(g) /\ previews' = previews
                         /\ \A h \in Grants \ {g} : Untouched(h)
    \/ \E g \in Grants : Consumed(g) /\ \A h \in Grants \ {g} : Untouched(h)
    \/ \A g \in Grants : Untouched(g) \/ Ended(g)

\* No step does anything else to the grants, whatever handlers overlap.
LEMMA GrantEffects ==
    ASSUME IInv, [Next]_vars
    PROVE  GrantEffect
<1>0. /\ TypeOK /\ TokensOfGrants
      /\ \A s \in Slots : SlotInv(s) /\ req[s] \in Requests
  BY DEF IInv, TypeOK
<1> USE DEF rows, history
<1>1. ASSUME UNCHANGED <<grant, previews>> PROVE GrantEffect
  BY <1>1 DEF GrantEffect, Untouched
<1>2. ASSUME NEW s \in Slots, createGrant(s) PROVE GrantEffect
  <2> PICK g \in Grants :
        /\ grant[g] = NoGrant
        /\ grant' = [grant EXCEPT ![g] = [consumed |-> FALSE, revoked |-> FALSE,
                                          expired |-> FALSE, of |-> req[s].draft]]
    BY <1>2 DEF createGrant
  <2>1. req[s].draft \in Drafts
    BY <1>0, <1>2, RequestTypes DEF createGrant
  <2>2. grant'[g] = [consumed |-> FALSE, revoked |-> FALSE, expired |-> FALSE,
                    of |-> req[s].draft]
    BY <1>0 DEF TypeOK
  <2>3. [consumed |-> FALSE, revoked |-> FALSE, expired |-> FALSE, of |-> req[s].draft]
          \in GrantRows
    BY ONLY <2>1 DEF GrantRows
  <2>4. grant'[g] # NoGrant
    BY <2>2, <2>3, SessionsAssumption
  <2>5. Created(g)
    BY <2>2, <2>4 DEF Created
  <2>6. previews' = previews /\ \A h \in Grants \ {g} : Untouched(h)
    BY <1>0, <1>2 DEF createGrant, Untouched, TypeOK
  <2> QED
    BY <2>5, <2>6 DEF GrantEffect
<1>3. ASSUME NEW s \in Slots, ConsumeGrant(s) PROVE GrantEffect
  <2> DEFINE g == req[s].grant
  <2>1. g \in Grants /\ grant[g] # NoGrant /\ grant[g] \in GrantRows
    BY <1>0, <1>3, RequestTypes DEF ConsumeGrant, SlotInv, TypeOK
  <2>2. CASE ~grant[g].consumed /\ ~grant[g].revoked /\ ~grant[g].expired
    <3>1. /\ grant' = [grant EXCEPT ![g].consumed = TRUE]
          /\ previews' = [previews EXCEPT ![g] = @ + 1]
      BY <1>3, <2>2 DEF ConsumeGrant
    <3> HIDE DEF g
    <3>2. /\ grant'[g] = [grant[g] EXCEPT !.consumed = TRUE]
          /\ previews'[g] = previews[g] + 1
          /\ \A h \in Grants \ {g} : Untouched(h)
      BY <1>0, <2>1, <3>1 DEF TypeOK, Untouched
    <3>3. grant'[g] \in GrantRows
      BY <2>1, <3>2 DEF GrantRows
    <3>4. grant'[g] # NoGrant
      BY <3>3, SessionsAssumption
    <3>5. grant'[g].consumed /\ ~grant'[g].revoked /\ ~grant'[g].expired
      BY <2>1, <2>2, <3>2 DEF GrantRows
    <3>6. Consumed(g)
      BY <2>1, <2>2, <3>2, <3>4, <3>5 DEF Consumed
    <3> QED
      BY <2>1, <3>2, <3>6 DEF GrantEffect
  <2>3. CASE ~(~grant[g].consumed /\ ~grant[g].revoked /\ ~grant[g].expired)
    BY <1>1, <1>3, <2>3 DEF ConsumeGrant
  <2> QED
    BY <2>2, <2>3
<1>4. ASSUME NEW g \in Grants, grant[g] # NoGrant,
             NEW x \in {[grant[g] EXCEPT !.revoked = TRUE],
                        [grant[g] EXCEPT !.expired = TRUE]}
      PROVE  /\ x # NoGrant
             /\ x.consumed = grant[g].consumed
             /\ x.revoked \/ x.expired
  <2>1. grant[g] \in GrantRows
    BY <1>0, <1>4 DEF TypeOK
  <2>2. x \in GrantRows
    BY <1>4, <2>1 DEF GrantRows
  <2>3. x # NoGrant
    BY <2>2, SessionsAssumption
  <2>4. x.consumed = grant[g].consumed /\ (x.revoked \/ x.expired)
    BY <1>4, <2>1 DEF GrantRows
  <2> QED
    BY <2>3, <2>4
<1>5. ASSUME NEW s \in Slots, CommitUpdate(s) PROVE GrantEffect
  <2>1. UNCHANGED grant \/ grant' = GrantsRevoked(req[s].user)
    BY <1>5 DEF CommitUpdate
  <2>2. UNCHANGED previews
    BY <1>5 DEF CommitUpdate
  <2>3. ASSUME NEW g \in Grants, grant' = GrantsRevoked(req[s].user)
        PROVE  Untouched(g) \/ Ended(g)
    <3>1. grant'[g] = IF grant[g] # NoGrant /\ grant[g].of.target = req[s].user
                        THEN [grant[g] EXCEPT !.revoked = TRUE]
                        ELSE grant[g]
      BY <2>3 DEF GrantsRevoked
    <3>2. CASE grant'[g] = grant[g]
      BY <2>2, <3>2 DEF Untouched
    <3>3. CASE grant[g] # NoGrant /\ grant'[g] = [grant[g] EXCEPT !.revoked = TRUE]
      BY <1>4, <2>2, <3>3 DEF Ended
    <3> QED
      BY <3>1, <3>2, <3>3
  <2> QED
    BY <1>1, <2>1, <2>2, <2>3 DEF GrantEffect
<1>6. ASSUME NEW t \in tokens, revoke(t) PROVE GrantEffect
  <2>1. t.grant \in Grants /\ grant[t.grant] # NoGrant
    BY <1>0, <1>6 DEF revoke, TokensOfGrants, TypeOK, Tokens
  <2>2. grant'[t.grant] = [grant[t.grant] EXCEPT !.revoked = TRUE]
    BY <1>0, <1>6, <2>1 DEF revoke, TypeOK
  <2>3. UNCHANGED previews /\ \A h \in Grants \ {t.grant} : Untouched(h)
    BY <1>0, <1>6 DEF revoke, TypeOK, Untouched
  <2>4. Ended(t.grant)
    BY <1>4, <2>1, <2>2, <2>3 DEF Ended
  <2> QED
    BY <2>3, <2>4 DEF GrantEffect
<1>7. ASSUME NEW g \in Grants, ExpireGrant(g) PROVE GrantEffect
  <2>1. grant'[g] = [grant[g] EXCEPT !.expired = TRUE] /\ grant[g] # NoGrant
    BY <1>0, <1>7 DEF ExpireGrant, TypeOK
  <2>2. UNCHANGED previews /\ \A h \in Grants \ {g} : Untouched(h)
    BY <1>0, <1>7 DEF ExpireGrant, TypeOK, Untouched
  <2>3. Ended(g)
    BY <1>4, <2>1, <2>2 DEF Ended
  <2> QED
    BY <2>2, <2>3 DEF GrantEffect
<1>8. ASSUME NEW s \in Slots, StartRequest(s) \/ Fail(s) \/ issueTokens(s)
                                \/ Answer(s) \/ principalForUserId(s)
      PROVE  UNCHANGED <<grant, previews>>
  BY <1>8 DEF StartRequest, StartLogin, StartRefresh, StartGrant, StartExchange,
     StartUpdate, Fail, issueTokens, Answer, principalForUserId
<1>9. ASSUME NEW t \in tokens, logoutAll(t) \/ ExpireToken(t)
      PROVE  UNCHANGED <<grant, previews>>
  BY <1>9 DEF logoutAll, ExpireToken
<1>10. ASSUME NEW u \in Users, delete(u) \/ restore(u) \/ replacePassword(u)
       PROVE  UNCHANGED <<grant, previews>>
  BY <1>10 DEF delete, restore, replacePassword
<1>11. ASSUME NEW k \in SessionIds, ExpireSession(k) PROVE UNCHANGED <<grant, previews>>
  BY <1>11 DEF ExpireSession
<1>12. CASE UNCHANGED vars
  BY <1>1, <1>12 DEF vars
<1> QED
  BY <1>1, <1>2, <1>3, <1>5, <1>6, <1>7, <1>8, <1>9, <1>10, <1>11, <1>12
     DEF Next, Proceed

\* The invariant survives every step.
LEMMA NextIInv ==
    ASSUME IInv, [Next]_vars
    PROVE  IInv'
<1>1. ConsumedOnce'
  <2>1. ConsumedOnce /\ TypeOK /\ GrantEffect
    BY GrantEffects DEF IInv
  <2> SUFFICES ASSUME NEW g \in Grants
               PROVE  previews'[g] = IF grant'[g] # NoGrant /\ grant'[g].consumed THEN 1 ELSE 0
    BY DEF ConsumedOnce
  <2>2. previews[g] = IF grant[g] # NoGrant /\ grant[g].consumed THEN 1 ELSE 0
    BY <2>1 DEF ConsumedOnce
  <2>3. CASE Untouched(g)
    BY <2>2, <2>3 DEF Untouched
  <2>4. CASE Created(g) /\ previews' = previews
    BY <2>2, <2>4 DEF Created
  <2>5. CASE Consumed(g)
    BY <2>2, <2>5 DEF Consumed
  <2>6. CASE Ended(g)
    BY <2>2, <2>6 DEF Ended
  <2> QED
    BY <2>1, <2>3, <2>4, <2>5, <2>6 DEF GrantEffect
<1> QED
  BY <1>1, TypeStep, SlotsStep, SupersededStep, TokensStep DEF IInv

\* The first invariant holds, whatever overlaps.
THEOREM Invariant == Spec => []IInv
<1>1. IInv /\ [Next]_vars => IInv'
  BY NextIInv
<1> QED
  BY InitIInv, <1>1, PTL DEF Spec

\* Rows, tokens and requests keep their types: for example, no update() leaves a
\* user with an organization that is none.
THEOREM TypeCorrect == Spec => []TypeOK
<1>1. IInv => TypeOK
  BY DEF IInv
<1> QED
  BY <1>1, Invariant, PTL

\* Whatever requests overlap a refresh, a client that holds the new refresh token
\* can no longer use the old one (rotateRefreshToken).
THEOREM Superseded == Spec => []SupersededRevoked
<1>1. IInv => SupersededRevoked
  BY DEF IInv
<1> QED
  BY <1>1, Invariant, PTL

-----------------------------------------------------------------------------
(* The promise about previews *)

\* How the effects on a grant look from outside.
LEMMA EffectStates ==
    ASSUME TypeOK, NEW g \in Grants
    PROVE  /\ Untouched(g) => PreviewState'[g] = PreviewState[g]
           /\ Created(g) => PreviewState[g] = "none" /\ PreviewState'[g] = "open"
           /\ Consumed(g) => PreviewState[g] = "open" /\ PreviewState'[g] = "used"
           /\ Ended(g) => PreviewState[g] # "none" /\ PreviewState'[g] = "ended"
           /\ PreviewState[g] \in {"none", "open", "used", "ended"}
<1>1. PreviewState[g] = IF grant[g] = NoGrant THEN "none"
                        ELSE IF grant[g].revoked \/ grant[g].expired THEN "ended"
                        ELSE IF grant[g].consumed THEN "used" ELSE "open"
  BY DEF PreviewState
<1>2. PreviewState'[g] = IF grant'[g] = NoGrant THEN "none"
                         ELSE IF grant'[g].revoked \/ grant'[g].expired THEN "ended"
                         ELSE IF grant'[g].consumed THEN "used" ELSE "open"
  BY DEF PreviewState
<1>3. Untouched(g) => PreviewState'[g] = PreviewState[g]
  BY <1>1, <1>2 DEF Untouched
<1>4. Created(g) => PreviewState[g] = "none" /\ PreviewState'[g] = "open"
  BY <1>1, <1>2 DEF Created
<1>5. Consumed(g) => PreviewState[g] = "open" /\ PreviewState'[g] = "used"
  BY <1>1, <1>2 DEF Consumed
<1>6. Ended(g) => PreviewState[g] # "none" /\ PreviewState'[g] = "ended"
  BY <1>1, <1>2 DEF Ended
<1> QED
  BY <1>1, <1>3, <1>4, <1>5, <1>6

\* Every step is one that PreviewGrants allows, or none.
LEMMA AbstractStep ==
    ASSUME IInv, [Next]_vars
    PROVE  [Abstract!Next]_(Abstract!vars)
<1>0. /\ TypeOK /\ GrantEffect
      /\ \A g \in Grants :
           previews[g] = IF grant[g] # NoGrant /\ grant[g].consumed THEN 1 ELSE 0
  BY GrantEffects DEF IInv, ConsumedOnce
<1>1. /\ PreviewState = [g \in Grants |-> PreviewState[g]]
      /\ PreviewState' = [g \in Grants |-> PreviewState'[g]]
  BY DEF PreviewState
<1>2. /\ previews = [g \in Grants |-> previews[g]]
      /\ previews' = [g \in Grants |-> previews'[g]]
  BY <1>0, TypeStep DEF TypeOK
<1>3. ASSUME NEW g \in Grants, Created(g), previews' = previews,
             \A h \in Grants \ {g} : Untouched(h)
      PROVE  Abstract!Next
  <2>1. PreviewState' = [PreviewState EXCEPT ![g] = "open"]
    BY <1>0, <1>1, <1>3, EffectStates
  <2>2. Abstract!Create(g)
    BY <1>0, <1>3, <2>1, EffectStates DEF Abstract!Create
  <2> QED
    BY <2>2 DEF Abstract!Next
<1>4. ASSUME NEW g \in Grants, Consumed(g), \A h \in Grants \ {g} : Untouched(h)
      PROVE  Abstract!Next
  <2>1. PreviewState' = [PreviewState EXCEPT ![g] = "used"]
    BY <1>0, <1>1, <1>4, EffectStates
  <2>2. previews'[g] = 1
    BY <1>0, <1>4 DEF Consumed
  <2>3. \A h \in Grants \ {g} : previews'[h] = previews[h]
    BY <1>4 DEF Untouched
  <2>4. previews' = [previews EXCEPT ![g] = 1]
    BY <1>2, <2>2, <2>3
  <2>5. Abstract!Exchange(g)
    BY <1>0, <1>4, <2>1, <2>4, EffectStates DEF Abstract!Exchange
  <2> QED
    BY <2>5 DEF Abstract!Next
<1>5. ASSUME \A g \in Grants : Untouched(g) \/ Ended(g)
      PROVE  Abstract!Next
  <2> DEFINE G == {g \in Grants : PreviewState[g] # "ended" /\ Ended(g)}
  <2>1. \A g \in Grants : PreviewState'[g] = IF g \in G THEN "ended" ELSE PreviewState[g]
    <3> TAKE g \in Grants
    <3>1. CASE Ended(g)
      BY <1>0, <3>1, EffectStates
    <3>2. CASE ~Ended(g)
      BY <1>0, <1>5, <3>2, EffectStates
    <3> QED
      BY <3>1, <3>2
  <2>2. \A g \in G : PreviewState[g] \in {"open", "used"}
    BY <1>0, EffectStates
  <2>3. \A g \in Grants : previews'[g] = previews[g]
    BY <1>5 DEF Untouched, Ended
  <2>4. previews' = previews
    BY <1>2, <2>3
  <2>5. PreviewState' = [g \in Grants |-> IF g \in G THEN "ended" ELSE PreviewState[g]]
    BY <1>1, <2>1
  <2> HIDE DEF G
  <2>6. Abstract!End(G)
    BY <2>2, <2>4, <2>5 DEF Abstract!End
  <2>7. G \in SUBSET Grants
    BY DEF G
  <2> QED
    BY <2>6, <2>7 DEF Abstract!Next
<1> QED
  BY <1>0, <1>3, <1>4, <1>5 DEF GrantEffect

\* A code for a preview is exchanged at most once, never after it ended, and
\* nothing reopens it: of all exchanges that overlap, updateMany lets one through.
THEOREM PreviewsImplemented == Spec => ImplementsPreviewGrants
<1>1. Init => Abstract!Init
  BY DEF Init, Abstract!Init, PreviewState
<1>2. IInv /\ [Next]_vars => [Abstract!Next]_(Abstract!vars)
  BY AbstractStep
<1> QED
  BY <1>1, <1>2, Invariant, PTL DEF Spec, ImplementsPreviewGrants, Abstract!Spec

-----------------------------------------------------------------------------
(* Assignments of the users over whom no stale edit was written *)

\* Only an edit changes the role, the organization or the programs of a user.
AssignmentKept ==
    /\ stale' = stale
    /\ \A u \in Users : /\ SameAssignment(user'[u], user[u])
                        /\ user'[u].primary = user[u].primary

\* delete(), restore() and a new password leave the assignment of a user alone.
LEMMA OnlyEdits ==
    ASSUME TypeOK, [Next]_vars
    PROVE  AssignmentKept \/ \E s \in Slots : CommitUpdate(s)
<1> USE DEF rows, history
<1>1. ASSUME UNCHANGED <<user, stale>> PROVE AssignmentKept
  BY <1>1 DEF AssignmentKept, SameAssignment
<1>2. ASSUME NEW u \in Users, NEW st, user' = [user EXCEPT ![u].status = st], stale' = stale
      PROVE  AssignmentKept
  BY <1>2 DEF AssignmentKept, SameAssignment, TypeOK, UserRows
<1>3. ASSUME NEW u \in Users, delete(u) \/ restore(u) \/ replacePassword(u)
      PROVE  AssignmentKept
  BY <1>2, <1>3 DEF delete, restore, replacePassword
<1>4. ASSUME NEW s \in Slots, StartRequest(s) \/ Fail(s) \/ issueTokens(s) \/ Answer(s)
                \/ createGrant(s) \/ principalForUserId(s) \/ ConsumeGrant(s)
      PROVE  UNCHANGED <<user, stale>>
  BY <1>4 DEF StartRequest, StartLogin, StartRefresh, StartGrant, StartExchange,
     StartUpdate, Fail, issueTokens, Answer, createGrant, principalForUserId, ConsumeGrant
<1>5. ASSUME NEW t \in tokens, logoutAll(t) \/ revoke(t) \/ ExpireToken(t)
      PROVE  UNCHANGED <<user, stale>>
  BY <1>5 DEF logoutAll, revoke, ExpireToken
<1>6. ASSUME NEW k \in SessionIds, ExpireSession(k) PROVE UNCHANGED <<user, stale>>
  BY <1>6 DEF ExpireSession
<1>7. ASSUME NEW g \in Grants, ExpireGrant(g) PROVE UNCHANGED <<user, stale>>
  BY <1>7 DEF ExpireGrant
<1>8. CASE UNCHANGED vars
  BY <1>1, <1>8 DEF vars
<1> QED
  BY <1>1, <1>3, <1>4, <1>5, <1>6, <1>7, <1>8 DEF Next, Proceed

\* What the transaction of update() does to the user, whose assignment is the one that
\* was read unless the user becomes stale.
LEMMA CommitFacts ==
    ASSUME TypeOK, NEW s \in Slots, EditorInv(s), CommitUpdate(s)
    PROVE  LET u == req[s].user
               e == req[s].edit
               row == req[s].row
               selected == SelectedOrg(row, e)
               leaves == e.role # Same /\ e.role \notin Portal
           IN  /\ u \in Users /\ e \in AllEdits /\ row \in UserRows
               /\ Permitted(row, e)
               /\ req[s].primary \in Primaries(row, e)
               /\ stale' = IF SameAssignment(user[u], row) THEN stale ELSE stale \cup {u}
               /\ \A v \in Users \ {u} : user'[v] = user[v]
               /\ SameAssignment(user[u], row) =>
                    /\ user'[u].role = RoleAfter(row, e)
                    /\ user'[u].programs = Effective(row, e)
                    /\ selected # Same => /\ user'[u].org = selected
                                          /\ user'[u].primary = req[s].primary
                    /\ selected = Same =>
                         /\ user'[u].org = IF leaves THEN NoOrg ELSE row.org
                         /\ user'[u].primary = IF leaves THEN NoProgram ELSE user[u].primary
<1> DEFINE u == req[s].user
           e == req[s].edit
           row == req[s].row
           x == Edited(user[u], row, e, req[s].primary)
<1>1. req[s].op = "update" /\ req[s] \in Requests
  BY DEF CommitUpdate, TypeOK
<1>2. /\ u \in Users /\ e \in AllEdits /\ row \in UserRows /\ user[u] \in UserRows
      /\ req[s].primary \in Programs \cup {NoProgram}
  BY <1>1, RequestTypes DEF TypeOK
<1>3. user' = [user EXCEPT ![u] = x]
  BY DEF CommitUpdate
<1>4. user'[u] = x /\ \A v \in Users \ {u} : user'[v] = user[v]
  BY <1>2, <1>3 DEF TypeOK
<1>5. Permitted(row, e) /\ req[s].primary \in Primaries(row, e)
  BY <1>1 DEF EditorInv
<1>6. stale' = IF SameAssignment(user[u], row) THEN stale ELSE stale \cup {u}
  BY DEF CommitUpdate
<1>7. ASSUME SameAssignment(user[u], row)
      PROVE  /\ x.role = RoleAfter(row, e)
             /\ x.programs = Effective(row, e)
             /\ SelectedOrg(row, e) # Same => /\ x.org = SelectedOrg(row, e)
                                              /\ x.primary = req[s].primary
             /\ SelectedOrg(row, e) = Same =>
                  /\ x.org = IF e.role # Same /\ e.role \notin Portal THEN NoOrg
                             ELSE row.org
                  /\ x.primary = IF e.role # Same /\ e.role \notin Portal THEN NoProgram
                                 ELSE user[u].primary
  <2> DEFINE p == req[s].primary
             old == user[u]
  <2>0. /\ old \in UserRows /\ row \in UserRows /\ e \in AllEdits
        /\ p \in Programs \cup {NoProgram}
    BY <1>2
  <2> HIDE DEF u, e, row, p, old
  <2>1. LET y == Edited(old, row, e, p) IN
        /\ y.role = IF e.role = Same THEN old.role ELSE e.role
        /\ y.programs = IF e.programs = Same THEN old.programs ELSE e.programs
        /\ SelectedOrg(row, e) # Same => /\ y.org = SelectedOrg(row, e)
                                         /\ y.primary = p
        /\ SelectedOrg(row, e) = Same =>
             /\ y.org = IF e.role # Same /\ e.role \notin Portal THEN NoOrg ELSE old.org
             /\ y.primary = IF e.role # Same /\ e.role \notin Portal THEN NoProgram
                            ELSE old.primary
    BY <2>0, EditedType
  <2>2. user[u].role = row.role /\ user[u].programs = row.programs /\ user[u].org = row.org
    BY <1>7 DEF SameAssignment
  <2> QED
    BY <2>1, <2>2 DEF RoleAfter, Effective, old, p
<1> HIDE DEF u, e, row, x
<1>8. SameAssignment(user[u], row) =>
        /\ user'[u].role = RoleAfter(row, e)
        /\ user'[u].programs = Effective(row, e)
        /\ SelectedOrg(row, e) # Same => /\ user'[u].org = SelectedOrg(row, e)
                                         /\ user'[u].primary = req[s].primary
        /\ SelectedOrg(row, e) = Same =>
             /\ user'[u].org = IF e.role # Same /\ e.role \notin Portal THEN NoOrg
                               ELSE row.org
             /\ user'[u].primary = IF e.role # Same /\ e.role \notin Portal THEN NoProgram
                                   ELSE user[u].primary
  BY <1>4, <1>7
<1> QED
  BY <1>2, <1>4, <1>5, <1>6, <1>8 DEF u, e, row

\* An edit makes users stale, and nothing else forgets them.
LEMMA StaleGrows ==
    ASSUME TypeOK, \A s \in Slots : EditorInv(s), [Next]_vars
    PROVE  stale \subseteq stale'
<1>1. CASE AssignmentKept
  BY <1>1 DEF AssignmentKept
<1>2. ASSUME NEW s \in Slots, CommitUpdate(s) PROVE stale \subseteq stale'
  BY <1>2, CommitFacts
<1> QED
  BY <1>1, <1>2, OnlyEdits

\* What update() permits on the assignment that it has read keeps the programs within
\* those of the organization, and the connected one within the programs.
LEMMA PermittedKeeps ==
    ASSUME NEW old \in UserRows, NEW row \in UserRows, NEW new, NEW e \in AllEdits, NEW p,
           SameAssignment(old, row), Assigned(old), Connected(old), Permitted(row, e),
           p \in Primaries(row, e),
           new.role = RoleAfter(row, e),
           new.programs = Effective(row, e),
           SelectedOrg(row, e) # Same => new.org = SelectedOrg(row, e) /\ new.primary = p,
           SelectedOrg(row, e) = Same =>
             /\ new.org = IF e.role # Same /\ e.role \notin Portal THEN NoOrg ELSE row.org
             /\ new.primary = IF e.role # Same /\ e.role \notin Portal THEN NoProgram
                              ELSE old.primary
    PROVE  Assigned(new) /\ Connected(new)
<1>0. NoOrg \notin Orgs /\ NoProgram \notin Programs
  BY SessionsAssumption
<1>1. CASE SelectedOrg(row, e) # Same
  <2>1. SelectedOrg(row, e) \in Orgs
    BY <1>1, SelectedOrgType
  <2>2. RoleAfter(row, e) \in Portal
    BY <1>1 DEF SelectedOrg, Portal
  <2>3. new.programs \subseteq Included[new.org] /\ (new.role = "client" => new.programs # {})
    BY <1>1 DEF Permitted
  <2>4. p \in Effective(row, e) \cup {NoProgram}
    BY DEF Primaries
  <2> QED
    BY <1>0, <1>1, <2>1, <2>2, <2>3, <2>4 DEF Assigned, Connected
<1>2. CASE SelectedOrg(row, e) = Same
  <2>1. RoleAfter(row, e) # "client"
    BY <1>2 DEF Permitted
  <2>2. Assigned(new)
    BY <2>1 DEF Assigned
  <2>3. CASE e.role # Same /\ e.role \notin Portal
    BY <1>2, <2>2, <2>3 DEF Connected
  <2>4. CASE ~(e.role # Same /\ e.role \notin Portal)
    <3>1. new.org = old.org /\ new.primary = old.primary
      BY <1>2, <2>4 DEF SameAssignment
    <3>2. old.org = NoOrg => new.primary = NoProgram
      BY <3>1 DEF Connected
    <3>3. new.role \notin Portal => new.org = NoOrg
      BY <2>4, <3>1 DEF Connected, RoleAfter, SameAssignment
    <3>4. CASE e.programs = Same
      BY <2>2, <3>1, <3>2, <3>3, <3>4 DEF Connected, Effective, SameAssignment
    <3>5. CASE e.programs # Same
      <4>1. old.org = NoOrg
        <5>1. CASE RoleAfter(row, e) = "promotional"
          BY <1>2, <3>5, <5>1, SessionsAssumption DEF SelectedOrg, SameAssignment, AllEdits, UserRows
        <5>2. CASE RoleAfter(row, e) # "promotional"
          BY <2>1, <3>1, <3>3, <5>2 DEF Portal
        <5> QED
          BY <5>1, <5>2
      <4> QED
        BY <2>2, <3>1, <3>2, <3>3, <4>1 DEF Connected
    <3> QED
      BY <3>4, <3>5
  <2> QED
    BY <2>3, <2>4
<1> QED
  BY <1>1, <1>2

\* So the assignments stay in order, as long as edits read what they replace.
LEMMA EditKeepsAssigned ==
    ASSUME TypeOK, \A u \in Users \ stale : Assigned(user[u]) /\ Connected(user[u]),
           NEW s \in Slots, EditorInv(s), CommitUpdate(s)
    PROVE  \A u \in Users \ stale' : Assigned(user'[u]) /\ Connected(user'[u])
<1> DEFINE u == req[s].user
           e == req[s].edit
           row == req[s].row
<1>1. /\ u \in Users /\ e \in AllEdits /\ row \in UserRows
      /\ Permitted(row, e)
      /\ req[s].primary \in Primaries(row, e)
      /\ stale' = IF SameAssignment(user[u], row) THEN stale ELSE stale \cup {u}
      /\ \A v \in Users \ {u} : user'[v] = user[v]
      /\ SameAssignment(user[u], row) =>
           /\ user'[u].role = RoleAfter(row, e)
           /\ user'[u].programs = Effective(row, e)
           /\ SelectedOrg(row, e) # Same => /\ user'[u].org = SelectedOrg(row, e)
                                            /\ user'[u].primary = req[s].primary
           /\ SelectedOrg(row, e) = Same =>
                /\ user'[u].org = IF e.role # Same /\ e.role \notin Portal THEN NoOrg
                                  ELSE row.org
                /\ user'[u].primary = IF e.role # Same /\ e.role \notin Portal
                                      THEN NoProgram ELSE user[u].primary
  BY CommitFacts
<1>2. user[u] \in UserRows
  BY <1>1 DEF TypeOK
<1> HIDE DEF u, e, row
<1>3. ASSUME u \notin stale' PROVE Assigned(user'[u]) /\ Connected(user'[u])
  <2>1. SameAssignment(user[u], row) /\ u \notin stale
    BY <1>1, <1>3
  <2>2. Assigned(user[u]) /\ Connected(user[u])
    BY <1>1, <2>1
  <2> QED
    BY <1>1, <1>2, <2>1, <2>2, PermittedKeeps
<1>4. ASSUME NEW v \in Users \ stale', v # u PROVE Assigned(user'[v]) /\ Connected(user'[v])
  BY <1>1, <1>4
<1> QED
  BY <1>3, <1>4

\* The programs of a user change only with the end of its previews (update), unless an
\* edit is written over an assignment that it had not read.
LEMMA ProgramsStand ==
    ASSUME TypeOK, \A s \in Slots : EditorInv(s), [Next]_vars,
           NEW g \in Grants, grant[g] # NoGrant, ~grant'[g].revoked,
           grant[g].of.target \notin stale'
    PROVE  user'[grant[g].of.target].programs = user[grant[g].of.target].programs
<1> DEFINE target == grant[g].of.target
<1>1. target \in Users
  BY DEF TypeOK, GrantRows, Drafts
<1>2. CASE AssignmentKept
  BY <1>1, <1>2 DEF AssignmentKept, SameAssignment
<1>3. ASSUME NEW s \in Slots, CommitUpdate(s)
      PROVE  user'[target].programs = user[target].programs
  <2>1. /\ stale' = IF SameAssignment(user[req[s].user], req[s].row) THEN stale
                    ELSE stale \cup {req[s].user}
        /\ SameAssignment(user[req[s].user], req[s].row) =>
             user'[req[s].user].programs = Effective(req[s].row, req[s].edit)
        /\ \A v \in Users \ {req[s].user} : user'[v] = user[v]
    BY <1>3, CommitFacts
  <2>3. CASE target # req[s].user
    BY <1>1, <2>1, <2>3
  <2>4. CASE target = req[s].user
    <3>1. CASE accessChanged(req[s].row, req[s].edit)
      <4>1. grant' = GrantsRevoked(req[s].user)
        BY <1>3, <3>1 DEF CommitUpdate
      <4>2. grant'[g] = [grant[g] EXCEPT !.revoked = TRUE] /\ grant[g] \in GrantRows
        BY <2>4, <4>1 DEF GrantsRevoked, TypeOK
      <4> QED
        BY <4>2 DEF GrantRows
    <3>2. CASE ~accessChanged(req[s].row, req[s].edit)
      <4>1. SameAssignment(user[target], req[s].row)
        BY <2>1, <2>4
      <4>2. user'[target].programs = Effective(req[s].row, req[s].edit)
        BY <2>1, <2>4, <4>1
      <4>3. Effective(req[s].row, req[s].edit) = req[s].row.programs
        BY <3>2 DEF accessChanged, Effective
      <4> QED
        BY <4>1, <4>2, <4>3 DEF SameAssignment
    <3> QED
      BY <3>1, <3>2
  <2> QED
    BY <2>3, <2>4
<1> QED
  BY <1>2, <1>3, OnlyEdits

\* What a preview shows stays within its user's programs until it is revoked.
LEMMA WithinStep ==
    ASSUME IInv, \A s \in Slots : EditorInv(s), [Next]_vars,
           NEW g \in Grants, grant[g] # NoGrant, NEW P, Within(grant[g].of, g, P)
    PROVE  /\ grant'[g].of = grant[g].of
           /\ P \subseteq Included[grant'[g].of.org]
           /\ ~grant'[g].revoked /\ grant'[g].of.target \notin stale' =>
                P \subseteq user'[grant'[g].of.target].programs
<1>1. /\ grant'[g].of = grant[g].of
      /\ grant[g].revoked => grant'[g].revoked
  BY GrantStep DEF GrantsKept
<1>2. stale \subseteq stale'
  BY StaleGrows DEF IInv
<1>3. ASSUME ~grant'[g].revoked, grant[g].of.target \notin stale'
      PROVE  P \subseteq user'[grant[g].of.target].programs
  <2>1. user'[grant[g].of.target].programs = user[grant[g].of.target].programs
    BY <1>3, ProgramsStand DEF IInv
  <2> QED
    BY <1>1, <1>2, <1>3, <2>1 DEF Within
<1> QED
  BY <1>1, <1>3 DEF Within

\* An edit is permitted and picks its program when it begins, and keeps both.
LEMMA EditorStep ==
    ASSUME IInv, \A s \in Slots : EditorInv(s), [Next]_vars, NEW t \in Slots
    PROVE  EditorInv(t)'
<1>0. TypeOK /\ req[t] \in Requests /\ EditorInv(t)
  BY DEF IInv, TypeOK
<1> USE DEF rows, history
<1>1. ASSUME req'[t] = req[t] PROVE EditorInv(t)'
  BY <1>0, <1>1 DEF EditorInv
<1>2. ASSUME req'[t].op # "update" PROVE EditorInv(t)'
  BY <1>2 DEF EditorInv
<1>3. ASSUME Return(t) PROVE EditorInv(t)'
  BY <1>0, <1>2, <1>3 DEF Return, Idle, TypeOK
<1>5. ASSUME NEW u \in Users, NEW e \in Edits[u], StartUpdate(t, u, e)
      PROVE  EditorInv(t)'
  <2>1. PICK x \in Primaries(user[u], e) :
          Accept(t, "update", [op |-> "update", user |-> u, row |-> user[u], edit |-> e,
                               primary |-> x])
    BY <1>5 DEF StartUpdate
  <2>2. req'[t] = [op |-> "update", user |-> u, row |-> user[u], edit |-> e, primary |-> x]
    BY <1>0, <2>1 DEF Accept, TypeOK
  <2>3. Permitted(user[u], e)
    BY <1>5 DEF StartUpdate
  <2>4. req'[t].row = user[u] /\ req'[t].edit = e /\ req'[t].primary = x
    BY <2>2
  <2> QED
    BY <2>3, <2>4 DEF EditorInv
<1>6. ASSUME NEW u \in Users, StartLogin(t, u) PROVE EditorInv(t)'
  BY <1>0, <1>2, <1>6 DEF StartLogin, Accept, TypeOK
<1>7. ASSUME NEW k \in SessionIds, StartRefresh(t, k) PROVE EditorInv(t)'
  BY <1>0, <1>2, <1>7 DEF StartRefresh, Accept, TypeOK
<1>8. ASSUME NEW d \in Drafts, StartGrant(t, d) PROVE EditorInv(t)'
  BY <1>0, <1>2, <1>8 DEF StartGrant, Accept, TypeOK
<1>9. ASSUME NEW g \in Grants, StartExchange(t, g) PROVE EditorInv(t)'
  BY <1>0, <1>2, <1>9 DEF StartExchange, Accept, TypeOK
<1>10. ASSUME issueTokens(t) PROVE EditorInv(t)'
  BY <1>0, <1>2, <1>10 DEF issueTokens, TypeOK
<1>11. ASSUME principalForUserId(t) PROVE EditorInv(t)'
  <2>1. CASE req' = [req EXCEPT ![t].pc = "consume"]
    <3>1. req'[t].op = "exchange"
      BY <1>0, <1>11, <2>1 DEF principalForUserId, Requests, Idle, TypeOK
    <3> QED
      BY <1>2, <3>1
  <2> QED
    BY <1>3, <1>11, <2>1 DEF principalForUserId
<1>12. CASE StartRequest(t) \/ Proceed(t) \/ Fail(t)
  BY <1>3, <1>5, <1>6, <1>7, <1>8, <1>9, <1>10, <1>11, <1>12
     DEF StartRequest, Proceed, Answer, createGrant, ConsumeGrant, CommitUpdate, Fail
<1>13. CASE ~(StartRequest(t) \/ Proceed(t) \/ Fail(t))
  <2>1. req'[t] = req[t]
    <3>1. CASE \E s \in Slots : StartRequest(s) \/ Proceed(s) \/ Fail(s)
      BY <1>0, <1>13, <3>1, OthersWait
    <3>2. CASE \A s \in Slots : ~(StartRequest(s) \/ Proceed(s) \/ Fail(s))
      BY <3>2, NoneMoves
    <3> QED
      BY <3>1, <3>2
  <2> QED
    BY <1>1, <2>1
<1> QED
  BY <1>12, <1>13

\* An exchange that is under way holds only programs of its user, as long as its
\* grant is not revoked.
LEMMA ExchangeStep ==
    ASSUME IInv, \A s \in Slots : EditorInv(s) /\ ExchangeInv(s), [Next]_vars,
           \A u \in Users \ stale : Connected(user[u]), NEW t \in Slots
    PROVE  ExchangeInv(t)'
<1>0. /\ TypeOK /\ TypeOK' /\ req[t] \in Requests
      /\ SlotInv(t) /\ ExchangeInv(t)
  BY TypeStep DEF IInv, TypeOK
<1> USE DEF rows, history
<1>1. ASSUME req'[t].op = "exchange" => /\ req[t].op = "exchange"
                                        /\ req'[t].grant = req[t].grant
                                       /\ req'[t].programs = req[t].programs
      PROVE  ExchangeInv(t)'
  <2> SUFFICES ASSUME req'[t].op = "exchange"
               PROVE  LET g == req[t].grant
                          P == req[t].programs
                      IN  /\ P \subseteq Included[grant'[g].of.org]
                          /\ ~grant'[g].revoked /\ grant'[g].of.target \notin stale' =>
                               P \subseteq user'[grant'[g].of.target].programs
    BY <1>1 DEF ExchangeInv, Within
  <2>1. /\ req[t].grant \in Grants /\ grant[req[t].grant] # NoGrant
        /\ Within(grant[req[t].grant].of, req[t].grant, req[t].programs)
    BY <1>0, <1>1, RequestTypes DEF SlotInv, ExchangeInv
  <2> QED
    BY <2>1, WithinStep
<1>2. ASSUME req'[t].op # "exchange" PROVE ExchangeInv(t)'
  BY <1>2 DEF ExchangeInv
<1>3. ASSUME Return(t) PROVE ExchangeInv(t)'
  BY <1>0, <1>2, <1>3 DEF Return, Idle, TypeOK
<1>4. ASSUME NEW g \in Grants, StartExchange(t, g) PROVE ExchangeInv(t)'
  <2>1. /\ req'[t] = [op |-> "exchange", pc |-> "principal", grant |-> g,
                      programs |-> ShownPrograms(grant[g].of)]
        /\ UNCHANGED <<user, grant, stale>>
        /\ Eligible(grant[g].of)
    BY <1>0, <1>4 DEF StartExchange, Accept, TypeOK
  <2>2. grant[g] \in GrantRows
    BY <1>0, <1>4 DEF StartExchange, TypeOK
  <2>3. /\ grant[g].of.scope \in {"PROGRAM", "USER"}
        /\ grant[g].of.target \in Users /\ grant[g].of.org \in Orgs
    BY <2>2 DEF GrantRows, Drafts
  <2>6. Included[grant[g].of.org] \subseteq Programs /\ NoProgram \notin Programs
    BY <2>3, SessionsAssumption
  <2>7. ASSUME grant[g].of.target \notin stale, grant[g].of.scope = "PROGRAM"
        PROVE  grant[g].of.program \in user[grant[g].of.target].programs \cup {NoProgram}
    BY <2>1, <2>3, <2>7 DEF Eligible, Connected
  <2>4. /\ ShownPrograms(grant[g].of) \subseteq Included[grant[g].of.org]
        /\ grant[g].of.target \notin stale =>
             ShownPrograms(grant[g].of) \subseteq user[grant[g].of.target].programs
    BY <2>3, <2>6, <2>7 DEF ShownPrograms
  <2>5. req'[t].grant = g /\ req'[t].programs = ShownPrograms(grant[g].of)
    BY <2>1
  <2> QED
    BY <2>1, <2>4, <2>5 DEF ExchangeInv, Within
<1>5. ASSUME NEW u \in Users, StartLogin(t, u) PROVE ExchangeInv(t)'
  BY <1>0, <1>2, <1>5 DEF StartLogin, Accept, TypeOK
<1>6. ASSUME NEW k \in SessionIds, StartRefresh(t, k) PROVE ExchangeInv(t)'
  BY <1>0, <1>2, <1>6 DEF StartRefresh, Accept, TypeOK
<1>7. ASSUME NEW d \in Drafts, StartGrant(t, d) PROVE ExchangeInv(t)'
  BY <1>0, <1>2, <1>7 DEF StartGrant, Accept, TypeOK
<1>8. ASSUME NEW u \in Users, NEW e \in Edits[u], StartUpdate(t, u, e)
      PROVE  ExchangeInv(t)'
  BY <1>0, <1>2, <1>8 DEF StartUpdate, Accept, TypeOK
<1>9. ASSUME issueTokens(t) PROVE ExchangeInv(t)'
  BY <1>0, <1>2, <1>9 DEF issueTokens, TypeOK
<1>10. ASSUME principalForUserId(t) PROVE ExchangeInv(t)'
  <2>1. CASE req' = [req EXCEPT ![t].pc = "consume"]
    <3>1. /\ req[t].op = "exchange"
          /\ req'[t].grant = req[t].grant
          /\ req'[t].programs = req[t].programs
      BY <1>0, <1>10, <2>1 DEF principalForUserId, Requests, Idle, TypeOK
    <3> QED
      BY <1>1, <3>1
  <2> QED
    BY <1>3, <1>10, <2>1 DEF principalForUserId
<1>11. CASE StartRequest(t) \/ Proceed(t) \/ Fail(t)
  BY <1>3, <1>4, <1>5, <1>6, <1>7, <1>8, <1>9, <1>10, <1>11
     DEF StartRequest, Proceed, Answer, createGrant, ConsumeGrant, CommitUpdate, Fail
<1>12. CASE ~(StartRequest(t) \/ Proceed(t) \/ Fail(t))
  <2>1. req'[t] = req[t]
    <3>1. CASE \E s \in Slots : StartRequest(s) \/ Proceed(s) \/ Fail(s)
      BY <1>0, <1>12, <3>1, OthersWait
    <3>2. CASE \A s \in Slots : ~(StartRequest(s) \/ Proceed(s) \/ Fail(s))
      BY <3>2, NoneMoves
    <3> QED
      BY <3>1, <3>2
  <2> QED
    BY <1>1, <2>1
<1> QED
  BY <1>11, <1>12

\* A preview token that was handed out stays within the programs of its user, too.
LEMMA TokensWithinStep ==
    ASSUME IInv, \A s \in Slots : EditorInv(s) /\ ExchangeInv(s), TokensWithin,
           [Next]_vars
    PROVE  TokensWithin'
<1>0. /\ TypeOK /\ TokensOfGrants
      /\ \A s \in Slots : SlotInv(s) /\ req[s] \in Requests
  BY DEF IInv, TypeOK
<1> USE DEF rows, history
<1>1. ASSUME NEW t \in tokens, t.grant # NoGrant
      PROVE  /\ t.org = grant'[t.grant].of.org
             /\ t.programs \subseteq Included[grant'[t.grant].of.org]
             /\ ~grant'[t.grant].revoked /\ grant'[t.grant].of.target \notin stale' =>
                  t.programs \subseteq user'[grant'[t.grant].of.target].programs
  <2>1. t.grant \in Grants /\ grant[t.grant] # NoGrant
    BY <1>0, <1>1 DEF TokensOfGrants, TypeOK, Tokens
  <2>2. t.org = grant[t.grant].of.org /\ Within(grant[t.grant].of, t.grant, t.programs)
    BY <1>1 DEF TokensWithin
  <2> QED
    BY <2>1, <2>2, WithinStep
<1>2. ASSUME tokens' \subseteq tokens PROVE TokensWithin'
  BY <1>1, <1>2 DEF TokensWithin, Within
<1>3. ASSUME NEW s \in Slots, Answer(s) PROVE TokensWithin'
  <2>1. \A t \in tokens' : t.grant # NoGrant => t \in tokens
    BY <1>3 DEF Answer
  <2> QED
    BY <1>1, <2>1 DEF TokensWithin, Within
<1>4. ASSUME NEW s \in Slots, ConsumeGrant(s) PROVE TokensWithin'
  <2>1. /\ req[s].op = "exchange" /\ req[s].grant \in Grants
        /\ grant[req[s].grant] # NoGrant
    BY <1>0, <1>4, RequestTypes DEF ConsumeGrant, SlotInv
  <2>2. LET t == PreviewToken(s)
        IN  /\ t.grant = req[s].grant
            /\ t.org = grant[req[s].grant].of.org
            /\ t.programs = req[s].programs
    BY DEF PreviewToken
  <2>3. LET t == PreviewToken(s)
        IN  /\ t.org = grant'[t.grant].of.org
            /\ t.programs \subseteq Included[grant'[t.grant].of.org]
            /\ ~grant'[t.grant].revoked /\ grant'[t.grant].of.target \notin stale' =>
                 t.programs \subseteq user'[grant'[t.grant].of.target].programs
    BY <2>1, <2>2, WithinStep DEF ExchangeInv
  <2>4. tokens' \subseteq tokens \cup {PreviewToken(s)}
    BY <1>4 DEF ConsumeGrant
  <2> QED
    BY <1>1, <2>3, <2>4 DEF TokensWithin, Within
<1>5. ASSUME NEW s \in Slots, StartRequest(s) \/ Fail(s) \/ issueTokens(s) \/ createGrant(s)
                                \/ principalForUserId(s) \/ CommitUpdate(s)
      PROVE  UNCHANGED tokens
  BY <1>5 DEF StartRequest, StartLogin, StartRefresh, StartGrant, StartExchange,
     StartUpdate, Fail, issueTokens, createGrant, principalForUserId, CommitUpdate
<1>6. ASSUME NEW t \in tokens, logoutAll(t) \/ revoke(t) \/ ExpireToken(t)
      PROVE  tokens' \subseteq tokens
  BY <1>6 DEF logoutAll, revoke, ExpireToken
<1>7. ASSUME NEW u \in Users, delete(u) \/ restore(u) \/ replacePassword(u)
      PROVE  UNCHANGED tokens
  BY <1>7 DEF delete, restore, replacePassword
<1>8. ASSUME NEW k \in SessionIds, ExpireSession(k) PROVE UNCHANGED tokens
  BY <1>8 DEF ExpireSession
<1>9. ASSUME NEW g \in Grants, ExpireGrant(g) PROVE tokens' \subseteq tokens
  BY <1>9 DEF ExpireGrant
<1>10. CASE UNCHANGED vars
  BY <1>2, <1>10 DEF vars
<1> QED
  BY <1>2, <1>3, <1>4, <1>5, <1>6, <1>7, <1>8, <1>9, <1>10 DEF Next, Proceed

\* Every step keeps assignments and previews in order, but for the stale users.
LEMMA EditStep ==
    ASSUME IInv, EditInv, [Next]_vars
    PROVE  EditInv'
<1>0. /\ TypeOK /\ TokensWithin
      /\ \A u \in Users \ stale : Assigned(user[u]) /\ Connected(user[u])
      /\ \A s \in Slots : EditorInv(s) /\ ExchangeInv(s)
  BY DEF IInv, EditInv
<1>1. \A u \in Users \ stale' : Assigned(user'[u]) /\ Connected(user'[u])
  <2>1. CASE AssignmentKept
    BY <1>0, <2>1 DEF AssignmentKept, SameAssignment, Assigned, Connected
  <2>2. CASE \E s \in Slots : CommitUpdate(s)
    BY <1>0, <2>2, EditKeepsAssigned
  <2> QED
    BY <1>0, <2>1, <2>2, OnlyEdits
<1>2. \A s \in Slots : EditorInv(s)'
  BY <1>0, EditorStep
<1>3. \A s \in Slots : ExchangeInv(s)'
  BY <1>0, ExchangeStep
<1>4. TokensWithin'
  BY <1>0, TokensWithinStep
<1> QED
  BY <1>1, <1>2, <1>3, <1>4 DEF EditInv

\* A run starts in order.
LEMMA InitEditInv == Init => EditInv
<1> SUFFICES ASSUME Init PROVE EditInv
  OBVIOUS
<1>1. \A u \in Users \ stale : Assigned(user[u]) /\ Connected(user[u])
  BY SessionsAssumption DEF Init
<1>2. \A s \in Slots : EditorInv(s) /\ ExchangeInv(s)
  BY DEF Init, EditorInv, ExchangeInv, Idle
<1>3. TokensWithin
  BY DEF Init, TokensWithin
<1> QED
  BY <1>1, <1>2, <1>3 DEF EditInv

\* The second invariant, of the users over whom no stale edit was written.
THEOREM Assignments == Spec => []EditInv
<1>1. IInv /\ EditInv /\ [Next]_vars => EditInv'
  BY EditStep
<1> QED
  BY InitEditInv, <1>1, Invariant, PTL DEF Spec

\* An assignment that update() has let through names only programs that the
\* organization of the client is included in, whatever an edit leaves out, until an edit
\* is written over another one that it has not read.
THEOREM AssignmentsHold == Spec => []AssignmentsIncluded
<1>1. EditInv => AssignmentsIncluded
  BY DEF EditInv, AssignmentsIncluded
<1> QED
  BY <1>1, Assignments, PTL

\* No preview that is accepted shows a program its user is no longer assigned to,
\* even one whose exchange had read the programs before they changed; but for the users
\* over whom an edit was written that had not read the last one.
THEOREM PreviewsWithin == Spec => []PreviewWithinAssignment
<1>1. IInv /\ EditInv => PreviewWithinAssignment
  <2> SUFFICES ASSUME IInv, EditInv, NEW t \in tokens, t.grant # NoGrant,
                      t.sub \notin stale, validate(t)
               PROVE  t.programs \subseteq user[t.sub].programs \cap Included[user[t.sub].org]
    BY DEF PreviewWithinAssignment
  <2>1. /\ t.sub = grant[t.grant].of.target
        /\ t.org = grant[t.grant].of.org
        /\ Within(grant[t.grant].of, t.grant, t.programs)
    BY DEF IInv, EditInv, TokensOfGrants, TokensWithin
  <2>2. ~grant[t.grant].revoked /\ user[t.sub].org = t.org
    BY DEF validate
  <2> QED
    BY <2>1, <2>2 DEF Within
<1> QED
  BY <1>1, Assignments, Invariant, PTL

\* A reassignment commits together with the end of the user's sessions and previews,
\* if the edit has read the assignment that it replaces.
THEOREM ReassignmentsRevoke == Spec => FreshReassignmentRevokes
<1>1. IInv /\ EditInv /\ [Next]_vars =>
        [\A u \in Users :
           Reassigned(u) =>
             \/ AccessEnded(u)
             \/ \E s \in Slots : /\ req[s].op = "update" /\ req[s].user = u /\ req'[s] = Idle
                                /\ ~SameAssignment(user[u], req[s].row)]_vars
  <2> SUFFICES ASSUME IInv, EditInv, [Next]_vars, NEW u \in Users, Reassigned(u),
                      \A s \in Slots : req[s].op = "update" /\ req[s].user = u /\ req'[s] = Idle
                                        => SameAssignment(user[u], req[s].row)
               PROVE  AccessEnded(u)
    OBVIOUS
  <2>0. TypeOK /\ \A s \in Slots : EditorInv(s)
    BY DEF IInv, EditInv
  <2>1. PICK s \in Slots : CommitUpdate(s)
    BY <2>0, OnlyEdits DEF AssignmentKept, SameAssignment, Reassigned
  <2> DEFINE e == req[s].edit
             row == req[s].row
  <2>2. /\ e \in AllEdits /\ row \in UserRows
        /\ \A v \in Users \ {req[s].user} : user'[v] = user[v]
        /\ SameAssignment(user[req[s].user], row) =>
             /\ user'[req[s].user].role = RoleAfter(row, e)
             /\ user'[req[s].user].programs = Effective(row, e)
             /\ SelectedOrg(row, e) # Same => user'[req[s].user].org = SelectedOrg(row, e)
             /\ SelectedOrg(row, e) = Same => user'[req[s].user].org =
                  IF e.role # Same /\ e.role \notin Portal THEN NoOrg ELSE row.org
    BY <2>0, <2>1, CommitFacts
  <2>3. req[s].user = u
    BY <2>2 DEF Reassigned
  <2>4. SameAssignment(user[u], row)
    BY <2>0, <2>1, <2>3 DEF CommitUpdate, Return, TypeOK
  <2>5. row.org = user[u].org /\ row.programs = user[u].programs
    BY <2>4 DEF SameAssignment
  <2> HIDE DEF e, row
  <2>6. e.role # Same => user'[u].role = e.role
    BY <2>2, <2>3, <2>4 DEF RoleAfter
  <2>7. accessChanged(row, e)
    BY <2>2, <2>3, <2>4, <2>5, <2>6 DEF accessChanged, Effective, Reassigned
  <2>8. session' = SessionsRevoked(u) /\ grant' = GrantsRevoked(u)
    BY <2>1, <2>3, <2>7 DEF CommitUpdate, e, row
  <2>9. ASSUME NEW k \in SessionIds, session[k] # NoSession, session[k].user = u
        PROVE  session'[k].state = "revoked"
    <3>1. session'[k] = [session[k] EXCEPT !.state = "revoked"]
      BY <2>8, <2>9 DEF SessionsRevoked
    <3>2. session[k] \in SessionRows
      BY <2>0, <2>9 DEF TypeOK
    <3> QED
      BY <3>1, <3>2 DEF SessionRows
  <2>10. ASSUME NEW g \in Grants, grant[g] # NoGrant, grant[g].of.target = u
         PROVE  grant'[g].revoked
    <3>1. grant'[g] = [grant[g] EXCEPT !.revoked = TRUE]
      BY <2>8, <2>10 DEF GrantsRevoked
    <3>2. grant[g] \in GrantRows
      BY <2>0, <2>10 DEF TypeOK
    <3> QED
      BY <3>1, <3>2 DEF GrantRows
  <2> QED
    BY <2>9, <2>10 DEF AccessEnded
<1> QED
  BY <1>1, Assignments, Invariant, PTL DEF Spec, FreshReassignmentRevokes

-----------------------------------------------------------------------------
(* A refresh token is good for one answer *)

\* No client holds a session that has replaced k.
Unanswered(k) ==
    \A l \in SessionIds : session[l] # NoSession /\ session[l].held => session[l].parent # k

\* Only a refresh replaces a session, and until it answers nobody holds another
\* session in the place of that one, unless two refreshes of it have overlapped.
RefreshSlot(s) ==
    /\ req[s].op = "login" => req[s].old = NoSession
    /\ req[s].op = "refresh" =>
         /\ req[s].old # NoSession
         /\ req[s].old \notin overlapped => Unanswered(req[s].old)

\* Two refreshes of one session that are under way have overlapped.
OverlapsSeen ==
    \A s, t \in Slots : s # t /\ req[s].op = "refresh" /\ req[t].op = "refresh"
                          /\ req[s].old = req[t].old
                        => req[s].old \in overlapped

RefreshInv == (\A s \in Slots : RefreshSlot(s)) /\ OverlapsSeen /\ RefreshedOnce

\* An overlap is never forgotten.
LEMMA OverlappedGrows ==
    ASSUME [Next]_vars PROVE overlapped \subseteq overlapped'
<1> USE DEF rows, history
<1>1. ASSUME NEW s \in Slots, StartRequest(s) PROVE overlapped \subseteq overlapped'
  BY <1>1 DEF StartRequest, StartLogin, StartRefresh, StartGrant, StartExchange, StartUpdate
<1>2. ASSUME NEW s \in Slots, Proceed(s) \/ Fail(s) PROVE overlapped \subseteq overlapped'
  BY <1>2 DEF Proceed, Fail, issueTokens, Answer, createGrant, principalForUserId,
     ConsumeGrant, CommitUpdate
<1>3. ASSUME NEW t \in tokens, logoutAll(t) \/ revoke(t) \/ ExpireToken(t)
      PROVE  overlapped \subseteq overlapped'
  BY <1>3 DEF logoutAll, revoke, ExpireToken
<1>4. ASSUME NEW u \in Users, delete(u) \/ restore(u) \/ replacePassword(u)
      PROVE  overlapped \subseteq overlapped'
  BY <1>4 DEF delete, restore, replacePassword
<1>5. ASSUME NEW k \in SessionIds, ExpireSession(k) PROVE overlapped \subseteq overlapped'
  BY <1>5 DEF ExpireSession
<1>6. ASSUME NEW g \in Grants, ExpireGrant(g) PROVE overlapped \subseteq overlapped'
  BY <1>6 DEF ExpireGrant
<1>7. CASE UNCHANGED vars
  BY <1>7 DEF vars
<1> QED
  BY <1>1, <1>2, <1>3, <1>4, <1>5, <1>6, <1>7 DEF Next

\* A sign-in or a refresh is under way since before, or since it was let in.
LEMMA RefreshOrigin ==
    ASSUME IInv, [Next]_vars, NEW t \in Slots, req'[t].op \in {"login", "refresh"}
    PROVE  \/ req[t].op = req'[t].op /\ req'[t].old = req[t].old /\ ~Answer(t)
           \/ req'[t].op = "login" /\ req'[t].old = NoSession
           \/ /\ req'[t].op = "refresh"
              /\ \E k \in SessionIds : StartRefresh(t, k) /\ req'[t].old = k
<1>0. TypeOK /\ req[t] \in Requests
  BY DEF IInv, TypeOK
<1> USE DEF rows, history
<1>1. ASSUME Return(t) PROVE FALSE
  BY <1>0, <1>1 DEF Return, Idle, TypeOK
<1>2. ASSUME NEW u \in Users, StartLogin(t, u) PROVE req'[t].op = "login" /\ req'[t].old = NoSession
  BY <1>0, <1>2 DEF StartLogin, Accept, TypeOK
<1>3. ASSUME NEW k \in SessionIds, StartRefresh(t, k)
      PROVE  req'[t].op = "refresh" /\ req'[t].old = k
  BY <1>0, <1>3 DEF StartRefresh, Accept, TypeOK
<1>4. ASSUME NEW d \in Drafts, StartGrant(t, d) PROVE FALSE
  BY <1>0, <1>4 DEF StartGrant, Accept, TypeOK
<1>5. ASSUME NEW g \in Grants, StartExchange(t, g) PROVE FALSE
  BY <1>0, <1>5 DEF StartExchange, Accept, TypeOK
<1>6. ASSUME NEW u \in Users, NEW e \in Edits[u], StartUpdate(t, u, e) PROVE FALSE
  BY <1>0, <1>6 DEF StartUpdate, Accept, TypeOK
<1>7. ASSUME issueTokens(t) PROVE req[t].op = req'[t].op /\ req'[t].old = req[t].old /\ ~Answer(t)
  BY <1>0, <1>7 DEF issueTokens, Answer, TypeOK
<1>8. ASSUME principalForUserId(t) PROVE FALSE
  <2>1. CASE req' = [req EXCEPT ![t].pc = "consume"]
    BY <1>0, <1>8, <2>1 DEF principalForUserId, Requests, Idle, TypeOK
  <2> QED
    BY <1>1, <1>8, <2>1 DEF principalForUserId
<1>9. CASE StartRequest(t) \/ Proceed(t) \/ Fail(t)
  BY <1>1, <1>2, <1>3, <1>4, <1>5, <1>6, <1>7, <1>8, <1>9
     DEF StartRequest, Proceed, Answer, createGrant, ConsumeGrant, CommitUpdate, Fail
<1>10. CASE ~(StartRequest(t) \/ Proceed(t) \/ Fail(t))
  <2>1. req'[t] = req[t]
    <3>1. CASE \E s \in Slots : StartRequest(s) \/ Proceed(s) \/ Fail(s)
      BY <1>0, <1>10, <3>1, OthersWait
    <3>2. CASE \A s \in Slots : ~(StartRequest(s) \/ Proceed(s) \/ Fail(s))
      BY <3>2, NoneMoves
    <3> QED
      BY <3>1, <3>2
  <2> QED
    BY <1>10, <2>1 DEF Proceed
<1> QED
  BY <1>9, <1>10

\* A session is held since before, or since an answer that it was made for.
LEMMA NewlyHeld ==
    ASSUME IInv, [Next]_vars, NEW l \in SessionIds, session'[l] # NoSession, session'[l].held
    PROVE  \/ session[l] # NoSession /\ session[l].held /\ session[l].parent = session'[l].parent
           \/ \E s \in Slots : Answer(s) /\ req[s].new = l /\ req[s].old = session'[l].parent
<1>1. SessionsKept /\ HeldByAnswer
  BY SessionStep
<1>2. ASSUME NEW s \in Slots, Answer(s), req[s].new = l
      PROVE  req[s].old = session'[l].parent
  <2>1. session[l] # NoSession /\ session[l].parent = req[s].old
    BY <1>2 DEF IInv, SlotInv, Answer
  <2> QED
    BY <1>1, <2>1 DEF SessionsKept
<1> QED
  BY <1>1, <1>2 DEF HeldByAnswer, SessionsKept

\* Unless it answers, a refresh under way stays the only one that may, but for overlaps.
LEMMA StaysUnanswered ==
    ASSUME IInv, RefreshInv, [Next]_vars, NEW t \in Slots,
           NEW k, req[t].op = "refresh", req[t].old = k, ~Answer(t), k \notin overlapped'
    PROVE  Unanswered(k)'
<1>0. k # NoSession /\ k \notin overlapped /\ Unanswered(k)
  BY OverlappedGrows DEF RefreshInv, RefreshSlot
<1> SUFFICES ASSUME NEW l \in SessionIds, session'[l] # NoSession, session'[l].held,
                    session'[l].parent = k
             PROVE  FALSE
  BY DEF Unanswered
<1>1. CASE session[l] # NoSession /\ session[l].held /\ session[l].parent = k
  BY <1>0, <1>1 DEF Unanswered
<1>2. ASSUME NEW s \in Slots, Answer(s), req[s].old = k PROVE FALSE
  <2>1. req[s].op = "refresh"
    BY <1>0, <1>2 DEF Answer, RefreshInv, RefreshSlot
  <2>2. s = t
    BY <1>0, <1>2, <2>1 DEF RefreshInv, OverlapsSeen
  <2> QED
    BY <1>2, <2>2
<1> QED
  BY <1>1, <1>2, NewlyHeld

\* Every handler keeps its part in it.
LEMMA RefreshSlotStep ==
    ASSUME IInv, RefreshInv, [Next]_vars, NEW t \in Slots
    PROVE  RefreshSlot(t)'
<1> DEFINE Later(k) == \A l \in SessionIds : session'[l] # NoSession /\ session'[l].held
                                               => session'[l].parent # k
<1>0. /\ TypeOK /\ RefreshSlot(t) /\ SupersededRevoked
  BY DEF IInv, RefreshInv
<1>1. ASSUME req'[t].op = "login" PROVE req'[t].old = NoSession
  BY <1>0, <1>1, RefreshOrigin DEF RefreshSlot
<1>2. ASSUME req[t].op = "refresh", req'[t].op = "refresh", req'[t].old = req[t].old, ~Answer(t)
      PROVE  /\ req'[t].old # NoSession
             /\ req'[t].old \notin overlapped' => Later(req'[t].old)
  <2>1. req[t].old # NoSession
    BY <1>0, <1>2 DEF RefreshSlot
  <2>2. req[t].old \notin overlapped' => Later(req[t].old)
    BY <1>2, StaysUnanswered DEF Unanswered
  <2> HIDE DEF Later
  <2> QED
    BY <1>2, <2>1, <2>2
<1>3. ASSUME NEW k \in SessionIds, StartRefresh(t, k), req'[t].old = k
      PROVE  req'[t].old # NoSession /\ Later(req'[t].old)
  <2>1. UNCHANGED session /\ session[k].state = "live" /\ k # NoSession
    BY <1>3, SessionsAssumption DEF StartRefresh, rows
  <2>2. Unanswered(k)
    BY <1>0, <2>1 DEF SupersededRevoked, Unanswered
  <2> QED
    BY <1>3, <2>1, <2>2 DEF Unanswered
<1>4. ASSUME req'[t].op = "refresh"
      PROVE  /\ req'[t].old # NoSession
             /\ req'[t].old \notin overlapped' => Later(req'[t].old)
  BY <1>2, <1>3, <1>4, RefreshOrigin
<1> QED
  BY <1>1, <1>4 DEF RefreshSlot, Unanswered

\* A refresh that begins while another one of its session is under way is seen.
LEMMA OverlapsStep ==
    ASSUME IInv, RefreshInv, [Next]_vars
    PROVE  OverlapsSeen'
<1> SUFFICES ASSUME NEW s \in Slots, NEW t \in Slots, s # t, req'[s].op = "refresh",
                    req'[t].op = "refresh", req'[s].old = req'[t].old
             PROVE  req'[s].old \in overlapped'
  BY DEF OverlapsSeen
<1>1. ASSUME NEW a \in Slots, NEW b \in Slots, a # b, req'[b].op = "refresh",
             req'[a].old = req'[b].old, NEW k \in SessionIds, StartRefresh(a, k),
             req'[a].old = k
      PROVE  req'[a].old \in overlapped'
  <2>1. req'[b] = req[b]
    BY <1>1 DEF StartRefresh, Accept, IInv, TypeOK
  <2> QED
    BY <1>1, <2>1 DEF StartRefresh
<1>2. CASE req[s].op = "refresh" /\ req'[s].old = req[s].old
             /\ req[t].op = "refresh" /\ req'[t].old = req[t].old
  BY <1>2, OverlappedGrows DEF RefreshInv, OverlapsSeen
<1> QED
  BY <1>1, <1>2, RefreshOrigin

\* Of the sessions that replace another one, at most one is held, but for overlaps.
LEMMA RefreshedOnceStep ==
    ASSUME IInv, RefreshInv, [Next]_vars
    PROVE  RefreshedOnce'
<1> DEFINE Held(l, p) == session[l] # NoSession /\ session[l].held /\ session[l].parent = p
           Answers(s, l, p) == Answer(s) /\ req[s].new = l /\ req[s].old = p
<1> SUFFICES ASSUME NEW k \in SessionIds, NEW l \in SessionIds, NEW p,
                    session'[k] # NoSession, session'[k].held, session'[k].parent = p,
                    session'[l] # NoSession, session'[l].held, session'[l].parent = p,
                    p # NoSession, p \notin overlapped'
             PROVE  k = l
  BY DEF RefreshedOnce
<1>0. p \notin overlapped
  BY OverlappedGrows
<1>1. /\ Held(k, p) \/ \E s \in Slots : Answers(s, k, p)
      /\ Held(l, p) \/ \E s \in Slots : Answers(s, l, p)
  BY NewlyHeld
<1>2. ASSUME NEW s \in Slots, NEW n, Answers(s, n, p)
      PROVE  req[s].op = "refresh" /\ Unanswered(p)
  BY <1>0, <1>2 DEF Answer, RefreshInv, RefreshSlot
<1>3. ASSUME NEW n \in SessionIds, Held(n, p), NEW s \in Slots, NEW m, Answers(s, m, p)
      PROVE  FALSE
  BY <1>2, <1>3 DEF Unanswered
<1>4. CASE Held(k, p) /\ Held(l, p)
  BY <1>0, <1>4 DEF RefreshInv, RefreshedOnce
<1>5. ASSUME NEW s \in Slots, NEW t \in Slots, Answers(s, k, p), Answers(t, l, p)
      PROVE  k = l
  <2>1. s = t
    BY <1>0, <1>2, <1>5 DEF RefreshInv, OverlapsSeen
  <2> QED
    BY <1>5, <2>1
<1> HIDE DEF Held, Answers
<1> QED
  BY <1>1, <1>3, <1>4, <1>5

\* A refresh token is good for one answer, whatever sign-ins, edits and revocations
\* overlap it, and however many of its requests fail, unless a second refresh of it
\* begins before the first has ended.
THEOREM OneRefresh == Spec => []RefreshedOnce
<1>1. Init => RefreshInv
  <2> SUFFICES ASSUME Init PROVE RefreshInv
    OBVIOUS
  <2>1. \A s \in Slots : RefreshSlot(s)
    BY DEF Init, RefreshSlot, Idle
  <2>2. OverlapsSeen
    BY DEF Init, OverlapsSeen, Idle
  <2>3. RefreshedOnce
    BY DEF Init, RefreshedOnce
  <2> QED
    BY <2>1, <2>2, <2>3 DEF RefreshInv
<1>2. IInv /\ RefreshInv /\ [Next]_vars => RefreshInv'
  BY RefreshSlotStep, OverlapsStep, RefreshedOnceStep DEF RefreshInv
<1>3. RefreshInv => RefreshedOnce
  BY DEF RefreshInv
<1> QED
  BY <1>1, <1>2, <1>3, Invariant, PTL DEF Spec
=============================================================================
