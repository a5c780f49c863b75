-------------------------- MODULE EntitlementsProofs --------------------------
(* Proofs of the properties of Entitlements, for any organizations, companies,  *)
(* tables of Zoho and requests.                                                *)
(*                                                                            *)
(* Every request that waits holds rows that it read.  The argument is that a    *)
(* row never comes back and that every write gives it a new version: a row that  *)
(* has the version it was read with is the row that was read.                   *)
EXTENDS Entitlements, FiniteSetTheorems, WellFoundedInduction, TLAPS

-----------------------------------------------------------------------------
(* The companies of Zoho and the enrollments of the program                   *)

\* A set of natural numbers that is not empty has a least element.
LEMMA Least ==
    ASSUME NEW S \in SUBSET Nat, S # {}
    PROVE  \E m \in S : \A k \in S : m <= k
<1>1. PICK m \in S : \A k \in S : ~(<<k, m>> \in OpToRel(<, Nat))
  BY WFMin, NatLessThanWellFounded
<1>2. \A k \in S : ~(k < m)
  BY <1>1 DEF OpToRel
<1>. QED
  BY <1>2

Unmatched(p) ==
    [left |-> DOMAIN p.rows, unmatched |-> {}, ambiguous |-> {}, matches |-> {}]

\* f: what is found after each of the first n companies.
Finds(p, n, f) ==
    f = [i \in 0..n |-> IF i = 0 THEN Unmatched(p) ELSE match(p, f[i - 1], Listing[i])]

LEMMA SomethingFound ==
    ASSUME NEW p, NEW n \in Nat
    PROVE  \E f : Finds(p, n, f)
<1>. DEFINE S == {k \in Nat : ~ \E f : Finds(p, k, f)}
<1>1. SUFFICES ASSUME S # {} PROVE FALSE
  OBVIOUS
<1>2. PICK m \in S : \A k \in S : m <= k
  BY <1>1, Least
<1>3. CASE m = 0
  <2>1. Finds(p, 0, [i \in 0..0 |-> Unmatched(p)])
    BY DEF Finds
  <2>. QED
    BY <1>2, <1>3, <2>1
<1>4. CASE m # 0
  <2>1. m \in Nat /\ m - 1 \in Nat /\ m - 1 \notin S
    BY <1>2, <1>4
  <2>2. PICK f : Finds(p, m - 1, f)
    BY <2>1
  <2>. DEFINE g == [i \in 0..m |-> IF i < m THEN f[i] ELSE match(p, f[m - 1], Listing[m])]
  <2>3. ASSUME NEW i \in 0..m
        PROVE  g[i] = IF i = 0 THEN Unmatched(p) ELSE match(p, g[i - 1], Listing[i])
    <3>1. CASE i < m
      <4>1. i \in 0..(m - 1) /\ (i # 0 => i - 1 \in 0..m /\ i - 1 < m)
        BY <3>1, <2>1
      <4>2. f[i] = IF i = 0 THEN Unmatched(p) ELSE match(p, f[i - 1], Listing[i])
        BY <2>2, <4>1 DEF Finds
      <4>. QED
        BY <3>1, <4>1, <4>2
    <3>2. CASE i = m
      <4>1. m - 1 \in 0..m /\ m - 1 < m /\ ~(i < m) /\ i # 0
        BY <3>2, <1>4, <2>1
      <4>2. g[m - 1] = f[m - 1]
        BY <4>1
      <4>3. g[i] = match(p, f[m - 1], Listing[m])
        BY <4>1
      <4>. QED
        BY <3>2, <4>1, <4>2, <4>3
    <3>3. i < m \/ i = m
      BY <2>1
    <3>. HIDE DEF g
    <3>. QED
      BY <3>1, <3>2, <3>3
  <2>4. Finds(p, m, g)
    BY <2>3 DEF Finds
  <2>. QED
    BY <1>2, <2>4
<1>. QED
  BY <1>3, <1>4

LEMMA MatchingFinds ==
    ASSUME NEW p
    PROVE  \E f : Finds(p, Len(Listing), f) /\ matching(p) = f[Len(Listing)]
<1>1. Len(Listing) \in Nat
  BY EntitlementsAssumption
<1>2. \E f : Finds(p, Len(Listing), f)
  BY <1>1, SomethingFound
<1>. QED
  BY <1>2 DEF Finds, matching, Unmatched

Found(D) ==
    [left : SUBSET D, unmatched : SUBSET Companies,
     ambiguous : SUBSET (D \X Companies), matches : SUBSET (D \X Companies)]

LEMMA MatchFound ==
    ASSUME NEW p, NEW D, NEW found \in Found(D), NEW c \in Companies
    PROVE  match(p, found, c) \in Found(D)
<1>. DEFINE E == candidates(p, c, found.left)
<1>1. E \subseteq found.left
  <2>1. CASE {e \in found.left : p.crm[c].account # NoAccount
                                 /\ account(p, e) = p.crm[c].account} # {}
    BY <2>1 DEF candidates
  <2>2. CASE {e \in found.left : p.crm[c].account # NoAccount
                                 /\ account(p, e) = p.crm[c].account} = {}
    BY <2>2 DEF candidates
  <2>. QED
    BY <2>1, <2>2
<1>2. E \X {c} \subseteq D \X Companies /\ found.left \ E \subseteq D
  BY <1>1 DEF Found
<1>. HIDE DEF E
<1>3. CASE E = {}
  BY <1>3 DEF match, Found, E
<1>4. CASE E # {} /\ Cardinality(E) > 1
  BY <1>4, <1>2 DEF match, Found, E
<1>5. CASE E # {} /\ ~(Cardinality(E) > 1)
  BY <1>5, <1>2 DEF match, Found, E
<1>. QED
  BY <1>3, <1>4, <1>5

\* What is matched are enrollments that were read, with companies of Zoho.
LEMMA MatchingFound == ASSUME NEW p PROVE matching(p) \in Found(DOMAIN p.rows)
<1>. DEFINE D == DOMAIN p.rows
            N == Len(Listing)
<1>1. N \in Nat /\ \A i \in 1..N : Listing[i] \in Companies
  BY EntitlementsAssumption
<1>2. PICK f : Finds(p, N, f) /\ matching(p) = f[N]
  BY MatchingFinds
<1>. DEFINE S == {i \in 0..N : f[i] \notin Found(D)}
<1>3. SUFFICES ASSUME S # {} PROVE FALSE
  BY <1>1, <1>2
<1>4. PICK m \in S : \A k \in S : m <= k
  <2>1. S \in SUBSET Nat
    BY <1>1
  <2>. HIDE DEF S
  <2>. QED
    BY <1>3, <2>1, Least
<1>5. CASE m = 0
  <2>1. f[0] = Unmatched(p)
    BY <1>1, <1>2 DEF Finds
  <2>. QED
    BY <1>4, <1>5, <2>1 DEF Unmatched, Found
<1>6. CASE m # 0
  <2>1. m - 1 \in 0..N /\ m - 1 \notin S
    BY <1>1, <1>4, <1>6
  <2>2. f[m] = match(p, f[m - 1], Listing[m])
    BY <1>1, <1>2, <1>4, <1>6 DEF Finds
  <2>3. f[m - 1] \in Found(D) /\ Listing[m] \in Companies
    BY <1>1, <1>4, <1>6, <2>1
  <2>4. f[m] \in Found(D)
    BY <2>2, <2>3, MatchFound
  <2>. QED
    BY <1>4, <2>4
<1>. QED
  BY <1>5, <1>6

LEMMA Matched ==
    ASSUME NEW p, NEW m \in matching(p).matches \cup matching(p).ambiguous
    PROVE  m[1] \in DOMAIN p.rows /\ m[2] \in Companies
<1>. DEFINE found == matching(p)
            D == DOMAIN p.rows
<1>1. found \in Found(D) /\ m \in found.matches \cup found.ambiguous
  BY MatchingFound
<1>. HIDE DEF found, D
<1>2. m \in D \X Companies
  BY <1>1 DEF Found
<1>. QED
  BY <1>2 DEF D

\* It depends on what was read of the database and of Zoho, and on nothing else.
LEMMA MatchingReads ==
    ASSUME NEW p, NEW q, p.rows = q.rows, p.orgs = q.orgs, p.crm = q.crm
    PROVE  matching(p) = matching(q)
<1>. DEFINE N == Len(Listing)
<1>1. N \in Nat
  BY EntitlementsAssumption
<1>2. PICK f : Finds(p, N, f) /\ matching(p) = f[N]
  BY MatchingFinds
<1>3. PICK g : Finds(q, N, g) /\ matching(q) = g[N]
  BY MatchingFinds
<1>. DEFINE S == {i \in 0..N : f[i] # g[i]}
<1>4. SUFFICES ASSUME S # {} PROVE FALSE
  BY <1>1, <1>2, <1>3
<1>5. PICK m \in S : \A k \in S : m <= k
  <2>1. S \in SUBSET Nat
    BY <1>1
  <2>. HIDE DEF S
  <2>. QED
    BY <1>4, <2>1, Least
<1>6. m # 0
  BY <1>1, <1>2, <1>3, <1>5 DEF Finds, Unmatched
<1>7. m - 1 \in 0..N /\ f[m - 1] = g[m - 1]
  BY <1>1, <1>5, <1>6
<1>8. f[m] = match(p, f[m - 1], Listing[m]) /\ g[m] = match(q, g[m - 1], Listing[m])
  BY <1>1, <1>2, <1>3, <1>5, <1>6 DEF Finds
<1>9. match(p, f[m - 1], Listing[m]) = match(q, f[m - 1], Listing[m])
  BY DEF match, candidates, account
<1>. QED
  BY <1>5, <1>7, <1>8, <1>9

-----------------------------------------------------------------------------
(* The inductive invariant                                                     *)

Writes == {"upload", "remove", "custom"} \cup Products
Reads  == {"preview", "resync", "report", "merge"}

DbInv ==
    /\ enrollment \in [Ids -> EnrollmentRows \cup {Gone}]
    /\ organization \in [Orgs -> OrgRows \cup {Gone}]
    /\ crm \in DOMAIN CrmTables
    /\ \A e \in live : organization[enrollment[e].org] # Gone
    /\ uniqueEnrollments(enrollment) /\ uniqueAccounts(organization)
    /\ rows \subseteq live /\ stale \subseteq Ids

\* E: the enrollments.  What was read of one of them is what it is, or older.
AsRead(e, row, E) ==
    /\ row \in EnrollmentRows
    /\ E[e] # Gone => row.version < E[e].version \/ row = E[e]

\* Two conflicts about one account have one target; one that no organization has is
\* not merged.
GoodConflict(d) ==
    /\ d.id \in Ids /\ d.source \in Orgs /\ d.target \in Orgs \cup {Nothing}
    /\ d.account = NoAccount => d.target = Nothing

GoodRequest(r, E) ==
    /\ r.op \in Writes => r.id \in Ids /\ AsRead(r.id, r.read, E)
    /\ r.op = "swap" => \A e \in Ids : r.read[e] # Gone => AsRead(e, r.read[e], E)
    /\ r.op \in Reads /\ r.pc \in {"list", "match", "commit"} =>
         /\ DOMAIN r.rows \subseteq Ids
         /\ \A e \in DOMAIN r.rows : AsRead(e, r.rows[e], E)
                                      /\ r.orgs[r.rows[e].org] \in OrgRows
    /\ r.op \in Reads /\ r.pc \in {"match", "commit"} => r.crm \in [Companies -> CrmRows]
    /\ r.op \in Reads /\ r.pc = "plan" => \A d \in r.conflicts : GoodConflict(d)
    /\ r.op = "resync" /\ r.pc = "commit" => revision(r, matching(r)) = r.revision

IInv ==
    /\ DbInv
    /\ req = [s \in Slots |-> req[s]]
    /\ \A s \in Slots : GoodRequest(req[s], enrollment)

-----------------------------------------------------------------------------
(* What is read stays as it was, or becomes older                              *)

\* E, F: the enrollments before and after a step.
Advances(E, F) ==
    \A e \in Ids : \/ F[e] \in {Gone, E[e]}
                   \/ E[e] # Gone /\ F[e] # Gone /\ F[e].version = E[e].version + 1

LEMMA Versions ==
    ASSUME NEW row \in EnrollmentRows PROVE row.version \in Nat /\ row.version <= MaxVersion
BY EntitlementsAssumption DEF EnrollmentRows

LEMMA AsReadKept ==
    ASSUME NEW E \in [Ids -> EnrollmentRows \cup {Gone}], NEW F, Advances(E, F),
           NEW e \in Ids, NEW row, AsRead(e, row, E)
    PROVE  AsRead(e, row, F)
<1>1. CASE F[e] \in {Gone, E[e]}
  BY <1>1 DEF AsRead
<1>2. CASE E[e] # Gone /\ F[e] # Gone /\ F[e].version = E[e].version + 1
  <2>1. E[e].version \in Nat /\ row.version \in Nat
    BY <1>2, Versions DEF AsRead
  <2>2. row.version < E[e].version \/ row = E[e]
    BY <1>2 DEF AsRead
  <2>3. row.version < F[e].version
    BY <1>2, <2>1, <2>2
  <2>. QED
    BY <2>3 DEF AsRead
<1>. QED
  BY <1>1, <1>2 DEF Advances

LEMMA RequestKept ==
    ASSUME NEW E \in [Ids -> EnrollmentRows \cup {Gone}], NEW F, Advances(E, F),
           NEW r, GoodRequest(r, E)
    PROVE  GoodRequest(r, F)
<1>1. r.op \in Writes => r.id \in Ids /\ AsRead(r.id, r.read, F)
  BY AsReadKept DEF GoodRequest
<1>2. r.op = "swap" => \A e \in Ids : r.read[e] # Gone => AsRead(e, r.read[e], F)
  BY AsReadKept DEF GoodRequest
<1>3. r.op \in Reads /\ r.pc \in {"list", "match", "commit"} =>
        /\ DOMAIN r.rows \subseteq Ids
        /\ \A e \in DOMAIN r.rows : AsRead(e, r.rows[e], F)
                                     /\ r.orgs[r.rows[e].org] \in OrgRows
  BY AsReadKept DEF GoodRequest
<1>. QED
  BY <1>1, <1>2, <1>3 DEF GoodRequest

\* A step that puts a good request in at most one slot.
Requested(E) ==
    \/ req' = req
    \/ \E s \in Slots : \E r : req' = [req EXCEPT ![s] = r] /\ GoodRequest(r, E)

LEMMA IdleGood == ASSUME NEW E PROVE GoodRequest(Idle, E)
BY DEF GoodRequest, Idle, Writes, Reads, Products

LEMMA Returned ==
    ASSUME NEW s \in Slots, NEW E, Return(s)
    PROVE  Requested(E)
BY IdleGood DEF Return, Step, Requested

LEMMA Keeps ==
    ASSUME IInv, DbInv', NEW F, F = enrollment', Advances(enrollment, F), Requested(F)
    PROVE  IInv'
<1>1. enrollment \in [Ids -> EnrollmentRows \cup {Gone}] /\ req = [s \in Slots |-> req[s]]
  BY DEF IInv, DbInv
<1>2. \A s \in Slots : GoodRequest(req[s], F)
  BY <1>1, RequestKept DEF IInv
<1>3. CASE req' = req
  BY <1>1, <1>2, <1>3 DEF IInv
<1>4. ASSUME NEW s \in Slots, NEW r, req' = [req EXCEPT ![s] = r], GoodRequest(r, F)
      PROVE  IInv'
  <2>1. req' = [t \in Slots |-> req'[t]]
    BY <1>1, <1>4
  <2>2. \A t \in Slots : req'[t] = IF t = s THEN r ELSE req[t]
    BY <1>1, <1>4
  <2>. QED
    BY <1>2, <1>4, <2>1, <2>2 DEF IInv
<1>. QED
  BY <1>3, <1>4 DEF Requested

\* A step that only reads.
LEMMA ReadKeeps ==
    ASSUME IInv, UNCHANGED <<organization, enrollment, rows, stale>>,
           crm' \in DOMAIN CrmTables, Requested(enrollment)
    PROVE  IInv'
<1>1. DbInv'
  BY DEF IInv, DbInv, live, uniqueEnrollments, uniqueAccounts
<1>2. Advances(enrollment, enrollment)
  BY DEF Advances
<1>. QED
  BY <1>1, <1>2, Keeps

-----------------------------------------------------------------------------
(* The steps that only read                                                    *)

LEMMA LiveRow ==
    ASSUME DbInv, NEW e \in live
    PROVE  /\ e \in Ids /\ enrollment[e] \in EnrollmentRows /\ enrollment[e].org \in Orgs
           /\ organization[enrollment[e].org] \in OrgRows
           /\ AsRead(e, enrollment[e], enrollment)
<1>1. e \in Ids /\ enrollment[e] \in EnrollmentRows
  BY DEF DbInv, live
<1>. QED
  BY <1>1 DEF DbInv, EnrollmentRows, AsRead

LEMMA StartWriteKeeps ==
    ASSUME IInv, NEW s \in Slots, NEW op, NEW e \in Ids, StartWrite(s, op, e) PROVE IInv'
<1>. DEFINE r == [op |-> op, id |-> e, read |-> enrollment[e]]
<1>1. e \in live /\ op \in Writes
  BY DEF StartWrite, Writes
<1>2. r.op = op /\ r.id = e /\ r.read = enrollment[e] /\ op \notin Reads \cup {"swap", "resync"}
  BY <1>1 DEF Writes, Products, Reads
<1>3. AsRead(e, enrollment[e], enrollment)
  BY <1>1, LiveRow DEF IInv
<1>4. req' = [req EXCEPT ![s] = r] /\ UNCHANGED <<organization, enrollment, rows, stale, crm>>
  BY DEF StartWrite, Accept
<1>. HIDE DEF r
<1>5. GoodRequest(r, enrollment)
  BY <1>1, <1>2, <1>3 DEF GoodRequest
<1>. QED
  BY <1>4, <1>5, ReadKeeps DEF Requested, IInv, DbInv

LEMMA StartSwapKeeps == ASSUME IInv, NEW s \in Slots, StartSwap(s) PROVE IInv'
<1>. DEFINE r == [op |-> "swap", read |-> enrollment]
<1>1. r.op = "swap" /\ r.read = enrollment /\ r.op \notin Reads \cup Writes
  BY DEF Writes, Products, Reads
<1>2. \A e \in Ids : enrollment[e] # Gone => AsRead(e, enrollment[e], enrollment)
  BY LiveRow DEF IInv, live
<1>3. req' = [req EXCEPT ![s] = r] /\ UNCHANGED <<organization, enrollment, rows, stale, crm>>
  BY DEF StartSwap, Accept
<1>. HIDE DEF r
<1>4. GoodRequest(r, enrollment)
  BY <1>1, <1>2 DEF GoodRequest, Reads
<1>. QED
  BY <1>3, <1>4, ReadKeeps DEF Requested, IInv, DbInv

LEMMA ReadProgramKeeps ==
    ASSUME IInv, NEW s \in Slots, NEW op, ReadProgram(s, op) PROVE IInv'
<1>. DEFINE E == {e \in live : programOf[e] = Program}
            R == [e \in E |-> enrollment[e]]
            O == [o \in {enrollment[e].org : e \in E} |-> organization[o]]
            held0 == IF op \in {"resync", "merge"} THEN held ELSE Nothing
            r == [op |-> op, pc |-> "list", rows |-> R, orgs |-> O, revision |-> held0]
<1>1. op \in Reads /\ r.op = op /\ r.pc = "list" /\ r.rows = R /\ r.orgs = O
  BY DEF ReadProgram, Reads
<1>2. req' = [req EXCEPT ![s] = r] /\ UNCHANGED <<organization, enrollment, rows, stale, crm>>
  BY DEF ReadProgram, Accept
<1>3. ASSUME NEW e \in E
      PROVE  /\ e \in Ids /\ R[e] = enrollment[e] /\ AsRead(e, enrollment[e], enrollment)
             /\ O[enrollment[e].org] \in OrgRows
  <2>1. e \in live /\ enrollment[e].org \in {enrollment[f].org : f \in E}
    OBVIOUS
  <2>. QED
    BY <2>1, LiveRow DEF IInv
<1>4. DOMAIN R = E
  OBVIOUS
<1>5. op \notin Writes \cup {"swap"}
  BY <1>1 DEF Writes, Products, Reads
<1>. HIDE DEF r, R, O, E
<1>6. GoodRequest(r, enrollment)
  BY <1>1, <1>3, <1>4, <1>5 DEF GoodRequest
<1>. QED
  BY <1>2, <1>6, ReadKeeps DEF Requested, IInv, DbInv

LEMMA ListOrganizationsKeeps ==
    ASSUME IInv, NEW s \in Slots, ListOrganizations(s) PROVE IInv'
<1>. DEFINE p == req[s]
            r == [op |-> p.op, pc |-> "match", rows |-> p.rows, orgs |-> p.orgs,
                  revision |-> p.revision, crm |-> CrmTables[crm]]
<1>1. p.op \in Reads /\ p.pc = "list" /\ GoodRequest(p, enrollment)
  BY DEF ListOrganizations, Reads, IInv
<1>2. /\ r.op = p.op /\ r.pc = "match" /\ r.rows = p.rows /\ r.orgs = p.orgs
      /\ r.crm = CrmTables[crm]
  OBVIOUS
<1>3. CrmTables[crm] \in [Companies -> CrmRows]
  BY EntitlementsAssumption DEF IInv, DbInv
<1>4. req' = [req EXCEPT ![s] = r] /\ UNCHANGED <<organization, enrollment, rows, stale, crm>>
  BY DEF ListOrganizations, Step
<1>5. p.op \notin Writes \cup {"swap"}
  BY <1>1 DEF Writes, Products, Reads
<1>. HIDE DEF r, p
<1>6. GoodRequest(r, enrollment)
  BY <1>1, <1>2, <1>3, <1>5 DEF GoodRequest
<1>. QED
  BY <1>4, <1>6, ReadKeeps DEF Requested, IInv, DbInv

LEMMA CompareRevisionKeeps ==
    ASSUME IInv, NEW s \in Slots, CompareRevision(s) PROVE IInv'
<1>. DEFINE p == req[s]
            r == [p EXCEPT !.pc = "commit"]
<1>1. UNCHANGED <<organization, enrollment, rows, stale, crm>>
  BY DEF CompareRevision
<1>2. CASE Return(s)
  BY <1>1, <1>2, Returned, ReadKeeps DEF IInv, DbInv
<1>3. CASE ~Return(s)
  <2>1. /\ p.op = "resync" /\ p.pc = "match" /\ Step(s, r)
        /\ revision(p, matching(p)) = p.revision
    BY <1>3 DEF CompareRevision
  <2>2. GoodRequest(p, enrollment)
    BY DEF IInv
  <2>3. /\ r.op = p.op /\ r.rows = p.rows /\ r.orgs = p.orgs /\ r.crm = p.crm
        /\ r.revision = p.revision /\ r.pc = "commit"
    OBVIOUS
  <2>. HIDE DEF p, r
  <2>4. matching(r) = matching(p)
    BY <2>3, MatchingReads
  <2>5. revision(r, matching(p)) = revision(p, matching(p))
    BY <2>3 DEF revision, nextValues, account
  <2>6. GoodRequest(r, enrollment)
    BY <2>1, <2>2, <2>3, <2>4, <2>5 DEF GoodRequest, Reads, Writes, Products
  <2>. QED
    BY <1>1, <2>1, <2>6, ReadKeeps DEF Requested, Step, IInv, DbInv
<1>. QED
  BY <1>2, <1>3

\* What conflicts are enrollments that were read; an account that an organization has
\* is not the absent one.
LEMMA ConflictsGood ==
    ASSUME IInv, NEW p, p.op \in Reads, p.pc = "match", GoodRequest(p, enrollment),
           NEW d \in conflicts(p)
    PROVE  GoodConflict(d)
<1>. DEFINE found == matching(p)
<1>2. PICK m \in found.matches \cup found.ambiguous :
        /\ d.id = m[1] /\ d.source = p.rows[m[1]].org /\ d.account = p.crm[m[2]].account
        /\ d.target = owner(p.crm[m[2]].account)
  BY DEF conflicts, found
<1>3. m[1] \in DOMAIN p.rows
  BY Matched
<1>4. m[1] \in Ids /\ p.rows[m[1]] \in EnrollmentRows
  BY <1>3 DEF GoodRequest, AsRead
<1>5. \A a : owner(a) \in Orgs \cup {Nothing} /\ owner(NoAccount) = Nothing
  BY DEF owner
<1>. QED
  BY <1>2, <1>4, <1>5 DEF GoodConflict, EnrollmentRows

LEMMA FindConflictsKeeps ==
    ASSUME IInv, NEW s \in Slots, FindConflicts(s) PROVE IInv'
<1>. DEFINE p == req[s]
            r == [op |-> p.op, pc |-> "plan", conflicts |-> conflicts(p), revision |-> p.revision]
<1>1. p.op \in {"report", "merge"} /\ p.pc = "match" /\ GoodRequest(p, enrollment)
  BY DEF FindConflicts, IInv
<1>2. r.op = p.op /\ r.pc = "plan" /\ r.conflicts = conflicts(p)
  OBVIOUS
<1>3. req' = [req EXCEPT ![s] = r] /\ UNCHANGED <<organization, enrollment, rows, stale, crm>>
  BY DEF FindConflicts, Step
<1>4. p.op \in Reads /\ p.op \notin Writes \cup {"swap", "resync"}
  BY <1>1 DEF Writes, Products, Reads
<1>. HIDE DEF r, p
<1>5. \A d \in conflicts(p) : GoodConflict(d)
  BY <1>1, <1>4, ConflictsGood
<1>6. GoodRequest(r, enrollment)
  BY <1>2, <1>4, <1>5 DEF GoodRequest
<1>. QED
  BY <1>3, <1>6, ReadKeeps DEF Requested, IInv, DbInv

LEMMA ReadsKeep ==
    ASSUME IInv,
           \/ \E s \in Slots : \/ Preview(s) \/ Fail(s)
                               \/ \E merges : Plan(s, merges)
           \/ ChangeCrm
    PROVE  IInv'
<1>1. ASSUME NEW s \in Slots, Return(s), UNCHANGED <<organization, enrollment, rows, crm, stale>>
      PROVE  IInv'
  BY <1>1, Returned, ReadKeeps DEF IInv, DbInv
<1>2. CASE ChangeCrm
  <2>1. crm' \in DOMAIN CrmTables
    BY <1>2, EntitlementsAssumption DEF ChangeCrm, IInv, DbInv
  <2>. QED
    BY <1>2, <2>1, ReadKeeps DEF ChangeCrm, Requested
<1>. QED
  BY <1>1, <1>2 DEF Preview, Fail, Plan

-----------------------------------------------------------------------------
(* Uploads, deletions, paid orders, and the swap                               *)

\* The columns of an enrollment agree with each other, and with whether it has rows.
Consistent(row, hasRows) ==
    /\ row.status = "Delivered" => hasRows
    /\ hasRows => "KIA" \in row.access
    /\ "SEV" \in row.access => row.filter

LEMMA ConsistentRows ==
    EntitlementsConsistent <=> \A e \in live \ stale : Consistent(enrollment[e], e \in rows)
BY DEF EntitlementsConsistent, Consistent

\* row replaces now: a version later, in the same organization.
Replaces(row, now) ==
    /\ row \in EnrollmentRows /\ row.org = now.org /\ row.version = now.version + 1

LEMMA TouchedReplaces ==
    ASSUME NEW row \in EnrollmentRows, NEW now \in EnrollmentRows,
           now.version < MaxVersion, row.org = now.org, row.version = now.version
    PROVE  /\ Replaces(Touched(row), now)
           /\ \A b : Consistent(Touched(row), b) <=> Consistent(row, b)
<1>1. now.version \in Nat /\ now.version + 1 \in 0..MaxVersion
  BY EntitlementsAssumption DEF EnrollmentRows
<1>2. Touched(row) \in EnrollmentRows /\ Touched(row).version = row.version + 1
      /\ Touched(row).org = row.org /\ Touched(row).status = row.status
      /\ Touched(row).access = row.access /\ Touched(row).filter = row.filter
  BY <1>1 DEF Touched, EnrollmentRows
<1>. QED
  BY <1>2 DEF Replaces, Consistent

\* A step that keeps enrollments in their organizations.
LEMMA Replaced ==
    ASSUME IInv, crm' = crm, NEW F, F = enrollment',
           organization' \in [Orgs -> OrgRows \cup {Gone}], uniqueAccounts(organization'),
           \A o \in Orgs : organization[o] # Gone => organization'[o] # Gone,
           F = [e \in Ids |-> F[e]],
           \A e \in Ids : \/ F[e] \in {Gone, enrollment[e]}
                          \/ enrollment[e] # Gone /\ Replaces(F[e], enrollment[e]),
           \A e \in rows' : e \in Ids /\ F[e] # Gone,
           stale' \subseteq Ids
    PROVE  DbInv' /\ Advances(enrollment, F)
<1>0. Gone \notin EnrollmentRows
  BY EntitlementsAssumption
<1>1. F \in [Ids -> EnrollmentRows \cup {Gone}]
  <2>1. \A e \in Ids : F[e] \in EnrollmentRows \cup {Gone}
    BY DEF IInv, DbInv, Replaces
  <2>. QED
    BY <2>1
<1>2. \A e \in Ids : F[e] # Gone => enrollment[e] # Gone /\ F[e].org = enrollment[e].org
  BY DEF Replaces
<1>3. uniqueEnrollments(F)
  BY <1>2 DEF uniqueEnrollments, IInv, DbInv
<1>4. ASSUME NEW e \in Ids, F[e] # Gone PROVE organization'[F[e].org] # Gone
  <2>1. e \in live /\ F[e].org = enrollment[e].org
    BY <1>2, <1>4 DEF live
  <2>. QED
    BY <2>1, LiveRow, EntitlementsAssumption DEF IInv
<1>5. Advances(enrollment, F)
  BY <1>0 DEF Advances, Replaces
<1>6. crm' \in DOMAIN CrmTables
  BY DEF IInv, DbInv
<1>7. rows' \subseteq {e \in Ids : F[e] # Gone}
  OBVIOUS
<1>. QED
  BY <1>1, <1>3, <1>4, <1>5, <1>6, <1>7 DEF DbInv, live, uniqueEnrollments, uniqueAccounts

LEMMA WrittenRow ==
    ASSUME NEW read \in EnrollmentRows, NEW now \in EnrollmentRows, NEW product \in Products
    PROVE  /\ uploaded(read, now) \in EnrollmentRows
           /\ uploaded(read, now).org = now.org
           /\ uploaded(read, now).version = now.version
           /\ read = now => \A b : Consistent(now, b) => Consistent(uploaded(read, now), TRUE)
           /\ removed(read, now) \in EnrollmentRows
           /\ removed(read, now).org = now.org
           /\ removed(read, now).version = now.version
           /\ read = now => \A b : Consistent(now, b) => Consistent(removed(read, now), FALSE)
           /\ customized(read, now) \in EnrollmentRows
           /\ customized(read, now).org = now.org
           /\ customized(read, now).version = now.version
           /\ read = now => \A b : Consistent(now, b) => Consistent(customized(read, now), b)
           /\ fulfilled(read, now, product) \in EnrollmentRows
           /\ fulfilled(read, now, product).org = now.org
           /\ fulfilled(read, now, product).version = now.version
           /\ read = now =>
                \A b : Consistent(now, b) => Consistent(fulfilled(read, now, product), b)
<1>1. /\ uploaded(read, now) \in EnrollmentRows /\ uploaded(read, now).org = now.org
      /\ uploaded(read, now).version = now.version
      /\ read = now => \A b : Consistent(now, b) => Consistent(uploaded(read, now), TRUE)
  BY DEF uploaded, EnrollmentRows, Consistent, Products
<1>2. /\ removed(read, now) \in EnrollmentRows /\ removed(read, now).org = now.org
      /\ removed(read, now).version = now.version
      /\ read = now => \A b : Consistent(now, b) => Consistent(removed(read, now), FALSE)
  BY DEF removed, EnrollmentRows, Consistent, Products
<1>3. /\ customized(read, now) \in EnrollmentRows /\ customized(read, now).org = now.org
      /\ customized(read, now).version = now.version
      /\ read = now => \A b : Consistent(now, b) => Consistent(customized(read, now), b)
  BY DEF customized, EnrollmentRows, Consistent, Products
<1>4. /\ fulfilled(read, now, product) \in EnrollmentRows
      /\ fulfilled(read, now, product).org = now.org
      /\ fulfilled(read, now, product).version = now.version
      /\ read = now => \A b : Consistent(now, b) => Consistent(fulfilled(read, now, product), b)
  BY DEF fulfilled, EnrollmentRows, Consistent, Products
<1>. QED
  BY <1>1, <1>2, <1>3, <1>4

LEMMA CommitWriteKeeps ==
    ASSUME IInv, NEW s \in Slots, CommitWrite(s)
    PROVE  IInv' /\ (EntitlementsConsistent => EntitlementsConsistent')
<1>. DEFINE r   == req[s]
            e   == r.id
            now == enrollment[e]
            row == CASE r.op = "upload" -> uploaded(r.read, now)
                     [] r.op = "remove" -> removed(r.read, now)
                     [] r.op = "custom" -> customized(r.read, now)
                     [] OTHER           -> fulfilled(r.read, now, r.op)
<1>1. /\ r.op \in Writes /\ e \in Ids /\ AsRead(e, r.read, enrollment)
      /\ UNCHANGED <<organization, crm>> /\ Return(s)
  BY DEF CommitWrite, IInv, GoodRequest, Writes
<1>2. CASE now = Gone
  <2>1. UNCHANGED <<enrollment, rows, stale>>
    BY <1>2 DEF CommitWrite
  <2>2. IInv'
    BY <1>1, <2>1, Returned, ReadKeeps DEF IInv, DbInv
  <2>. QED
    BY <2>1, <2>2 DEF EntitlementsConsistent, live
<1>3. CASE now # Gone
  <2>1. /\ now.version < MaxVersion
        /\ enrollment' = [enrollment EXCEPT ![e] = Touched(row)]
        /\ rows' = CASE r.op = "upload" -> rows \cup {e}
                     [] r.op = "remove" -> rows \ {e}
                     [] OTHER           -> rows
        /\ stale' = IF now.version = r.read.version THEN stale ELSE stale \cup {e}
    BY <1>3 DEF CommitWrite
  <2>2. now \in EnrollmentRows /\ r.read \in EnrollmentRows /\ e \in live
    BY <1>1, <1>3 DEF AsRead, IInv, DbInv, live
  <2>3. now.version = r.read.version => now = r.read
    BY <1>1, <1>3, <2>2, Versions DEF AsRead
  <2>4. /\ row \in EnrollmentRows /\ row.org = now.org /\ row.version = now.version
        /\ (now.version = r.read.version /\ Consistent(now, e \in rows)) =>
              Consistent(row, e \in rows')
    <3>1. CASE r.op = "upload"
      <4>1. row = uploaded(r.read, now) /\ e \in rows'
        BY <2>1, <3>1
      <4>. HIDE DEF row, now, e
      <4>. QED
        BY <2>2, <2>3, <4>1, WrittenRow DEF Products, Consistent
    <3>2. CASE r.op = "remove"
      <4>1. row = removed(r.read, now) /\ e \notin rows'
        BY <2>1, <3>2
      <4>. HIDE DEF row, now, e
      <4>. QED
        BY <2>2, <2>3, <4>1, WrittenRow DEF Products, Consistent
    <3>3. CASE r.op = "custom"
      <4>1. row = customized(r.read, now) /\ rows' = rows
        BY <2>1, <3>3
      <4>. HIDE DEF row, now, e
      <4>. QED
        BY <2>2, <2>3, <4>1, WrittenRow DEF Products, Consistent
    <3>4. CASE r.op \in Products
      <4>1. row = fulfilled(r.read, now, r.op) /\ rows' = rows
        BY <2>1, <3>4 DEF Products
      <4>. HIDE DEF row, now, e
      <4>. QED
        BY <2>2, <2>3, <3>4, <4>1, WrittenRow DEF Consistent
    <3>. QED
      BY <1>1, <3>1, <3>2, <3>3, <3>4 DEF Writes
  <2>. HIDE DEF row
  <2>5. /\ Replaces(Touched(row), now)
        /\ \A b : Consistent(Touched(row), b) <=> Consistent(row, b)
    BY <2>1, <2>2, <2>4, TouchedReplaces
  <2>6. PICK F : F = enrollment'
    OBVIOUS
  <2>7. /\ F = [f \in Ids |-> F[f]] /\ F[e] = Touched(row)
        /\ \A f \in Ids \ {e} : F[f] = enrollment[f]
    BY <1>1, <2>1, <2>6 DEF IInv, DbInv
  <2>8. F[e] # Gone
    BY <2>5, <2>7, EntitlementsAssumption DEF Replaces
  <2>9. /\ \A f \in rows' : f \in Ids /\ F[f] # Gone
        /\ \A f \in Ids \ {e} : f \in rows' <=> f \in rows
    <3>1. rows' \subseteq rows \cup {e} /\ \A f \in Ids \ {e} : f \in rows' <=> f \in rows
      BY <2>1
    <3>2. \A f \in rows : f \in Ids /\ enrollment[f] # Gone
      BY DEF IInv, DbInv, live
    <3>. QED
      BY <1>1, <2>7, <2>8, <3>1, <3>2
  <2>10. stale' \subseteq Ids /\ stale \subseteq stale'
         /\ (e \notin stale' => now.version = r.read.version)
    BY <1>1, <2>1 DEF IInv, DbInv
  <2>11. DbInv' /\ Advances(enrollment, F)
    BY <1>1, <1>3, <2>5, <2>6, <2>7, <2>9, <2>10, Replaced DEF IInv, DbInv
  <2>12. IInv'
    BY <1>1, <2>6, <2>11, Returned, Keeps
  <2>13. ASSUME EntitlementsConsistent, NEW f \in Ids, F[f] # Gone, f \notin stale'
         PROVE  Consistent(F[f], f \in rows')
    <3>1. CASE f = e
      <4>1. Consistent(now, e \in rows)
        BY <2>2, <2>10, <2>13, <3>1, ConsistentRows
      <4>. QED
        BY <2>4, <2>5, <2>7, <2>10, <2>13, <3>1, <4>1
    <3>2. CASE f # e
      <4>1. f \in live \ stale /\ F[f] = enrollment[f] /\ (f \in rows' <=> f \in rows)
        BY <2>7, <2>9, <2>10, <2>13, <3>2 DEF live
      <4>. QED
        BY <2>13, <4>1, ConsistentRows DEF Consistent
    <3>. QED
      BY <3>1, <3>2
  <2>. QED
    BY <2>6, <2>12, <2>13 DEF EntitlementsConsistent, Consistent, live
<1>. QED
  BY <1>2, <1>3

LEMMA CommitSwapKeeps ==
    ASSUME IInv, NEW s \in Slots, CommitSwap(s)
    PROVE  IInv' /\ (EntitlementsConsistent => EntitlementsConsistent')
<1>. DEFINE read == req[s].read
            all  == {e \in Ids : read[e] # Gone}
            row(e) == [enrollment[e] EXCEPT !.status = read[e].status, !.filter = read[e].filter,
                                            !.name = read[e].name]
<1>1. /\ \A e \in all : AsRead(e, read[e], enrollment)
      /\ UNCHANGED <<organization, crm, rows>> /\ Return(s)
  BY DEF CommitSwap, IInv, GoodRequest
<1>2. CASE \E e \in all : enrollment[e] = Gone
  <2>1. UNCHANGED <<enrollment, stale>>
    BY <1>2 DEF CommitSwap
  <2>2. IInv'
    BY <1>1, <2>1, Returned, ReadKeeps DEF IInv, DbInv
  <2>. QED
    BY <1>1, <2>1, <2>2 DEF EntitlementsConsistent, live
<1>3. CASE \A e \in all : enrollment[e] # Gone
  <2>1. /\ \A e \in all : enrollment[e].version < MaxVersion
        /\ enrollment' = [e \in Ids |-> IF e \notin all THEN enrollment[e] ELSE Touched(row(e))]
        /\ stale' = stale \cup {e \in all : enrollment[e].version # read[e].version}
    BY <1>3 DEF CommitSwap
  <2>2. ASSUME NEW e \in all
        PROVE  /\ enrollment[e] \in EnrollmentRows /\ read[e] \in EnrollmentRows
               /\ enrollment[e].version = read[e].version => enrollment[e] = read[e]
               /\ Replaces(Touched(row(e)), enrollment[e])
               /\ \A b : enrollment[e] = read[e] /\ Consistent(enrollment[e], b) =>
                           Consistent(Touched(row(e)), b)
    <3>1. enrollment[e] \in EnrollmentRows /\ read[e] \in EnrollmentRows /\ enrollment[e] # Gone
      BY <1>1, <1>3 DEF AsRead, IInv, DbInv
    <3>2. enrollment[e].version = read[e].version => enrollment[e] = read[e]
      BY <1>1, <3>1, Versions DEF AsRead
    <3>3. /\ row(e) \in EnrollmentRows /\ row(e).org = enrollment[e].org
          /\ row(e).version = enrollment[e].version
          /\ \A b : enrollment[e] = read[e] /\ Consistent(enrollment[e], b) =>
                      Consistent(row(e), b)
      BY <3>1 DEF EnrollmentRows, Consistent
    <3>. HIDE DEF row, read
    <3>4. /\ Replaces(Touched(row(e)), enrollment[e])
          /\ \A b : Consistent(Touched(row(e)), b) <=> Consistent(row(e), b)
      BY <2>1, <3>1, <3>3, TouchedReplaces
    <3>. QED
      BY <3>1, <3>2, <3>3, <3>4
  <2>. HIDE DEF row
  <2>3. PICK F : F = enrollment'
    OBVIOUS
  <2>4. /\ F = [e \in Ids |-> F[e]]
        /\ \A e \in Ids : F[e] = IF e \notin all THEN enrollment[e] ELSE Touched(row(e))
    BY <2>1, <2>3
  <2>5. \A e \in all : e \in Ids /\ F[e] # Gone
    BY <2>2, <2>4, EntitlementsAssumption DEF Replaces
  <2>. HIDE DEF all, read
  <2>6. \A e \in rows' : e \in Ids /\ F[e] # Gone
    BY <1>1, <2>4, <2>5 DEF IInv, DbInv, live
  <2>7. stale' \subseteq Ids
    BY <2>1 DEF IInv, DbInv, all
  <2>8. \A e \in Ids : \/ F[e] \in {Gone, enrollment[e]}
                       \/ enrollment[e] # Gone /\ Replaces(F[e], enrollment[e])
    BY <1>3, <2>2, <2>4
  <2>9. DbInv' /\ Advances(enrollment, F)
    BY <1>1, <2>3, <2>4, <2>6, <2>7, <2>8, Replaced DEF IInv, DbInv
  <2>10. IInv'
    BY <1>1, <2>3, <2>9, Returned, Keeps
  <2>11. ASSUME EntitlementsConsistent, NEW e \in Ids, F[e] # Gone, e \notin stale'
         PROVE  Consistent(F[e], e \in rows)
    <3>1. CASE e \in all
      <4>1. enrollment[e].version = read[e].version /\ e \in live \ stale
        BY <1>3, <2>1, <2>11, <3>1 DEF live
      <4>2. Consistent(enrollment[e], e \in rows)
        BY <2>11, <4>1, ConsistentRows
      <4>. QED
        BY <2>2, <2>4, <3>1, <4>1, <4>2
    <3>2. CASE e \notin all
      <4>1. e \in live \ stale /\ F[e] = enrollment[e]
        BY <2>1, <2>4, <2>11, <3>2 DEF live
      <4>. QED
        BY <2>11, <4>1, ConsistentRows
    <3>. QED
      BY <3>1, <3>2
  <2>. QED
    BY <1>1, <2>3, <2>10, <2>11 DEF EntitlementsConsistent, Consistent, live
<1>. QED
  BY <1>2, <1>3

-----------------------------------------------------------------------------
(* Deletions                                                                   *)

\* Enrollments E and at most one organization are deleted, those of the organization
\* with it.
LEMMA Dropped ==
    ASSUME IInv, NEW E \in SUBSET Ids, NEW o \in Orgs,
           organization' = organization \/ organization' = [organization EXCEPT ![o] = Gone],
           organization' = organization \/ enrolled(o) \subseteq E,
           enrollment' = [e \in Ids |-> IF e \in E THEN Gone ELSE enrollment[e]],
           rows' = rows \ E, UNCHANGED <<crm, req, stale>>
    PROVE  IInv' /\ (EntitlementsConsistent => EntitlementsConsistent')
<1>1. PICK F : F = enrollment'
  OBVIOUS
<1>2. /\ F = [e \in Ids |-> F[e]]
      /\ \A e \in Ids : F[e] = IF e \in E THEN Gone ELSE enrollment[e]
  BY <1>1
<1>3. F \in [Ids -> EnrollmentRows \cup {Gone}]
  <2>1. \A e \in Ids : F[e] \in EnrollmentRows \cup {Gone}
    BY <1>2 DEF IInv, DbInv
  <2>. QED
    BY <1>2, <2>1
<1>4. /\ organization' \in [Orgs -> OrgRows \cup {Gone}]
      /\ \A q \in Orgs : organization'[q] \in {Gone, organization[q]}
      /\ \A q \in Orgs \ {o} : organization'[q] = organization[q]
  BY DEF IInv, DbInv
<1>5. uniqueAccounts(organization') /\ uniqueEnrollments(F)
  BY <1>2, <1>4 DEF uniqueAccounts, uniqueEnrollments, IInv, DbInv
<1>6. ASSUME NEW e \in Ids, F[e] # Gone PROVE organization'[F[e].org] # Gone
  <2>1. F[e] = enrollment[e] /\ e \notin E /\ e \in live
    BY <1>2, <1>6 DEF live
  <2>2. enrollment[e].org \in Orgs /\ organization[enrollment[e].org] # Gone
    BY <2>1, LiveRow, EntitlementsAssumption DEF IInv
  <2>3. CASE enrollment[e].org = o
    BY <2>1, <2>2, <2>3 DEF enrolled
  <2>. QED
    BY <1>4, <2>1, <2>2, <2>3
<1>7. rows' \subseteq {e \in Ids : F[e] # Gone} /\ stale' \subseteq Ids
      /\ crm' \in DOMAIN CrmTables
  BY <1>2 DEF IInv, DbInv, live
<1>8. DbInv'
  BY <1>1, <1>3, <1>4, <1>5, <1>6, <1>7 DEF DbInv, live, uniqueAccounts, uniqueEnrollments
<1>9. Advances(enrollment, F)
  BY <1>2 DEF Advances
<1>10. IInv'
  BY <1>1, <1>8, <1>9, Keeps DEF Requested
<1>. QED
  BY <1>1, <1>2, <1>10 DEF EntitlementsConsistent, live

LEMMA DeletionsKeep ==
    ASSUME IInv,
           \/ \E o \in Orgs : DeleteOrganization(o) \/ DeleteOrganizationForResync(o)
           \/ \E p : DeleteProgram(p)
    PROVE  IInv' /\ (EntitlementsConsistent => EntitlementsConsistent')
<1>1. enrollment = [e \in Ids |-> enrollment[e]] /\ rows \subseteq Ids
  BY DEF IInv, DbInv, live
<1>2. ASSUME NEW o \in Orgs, DeleteOrganization(o)
      PROVE  IInv' /\ (EntitlementsConsistent => EntitlementsConsistent')
  <2>1. /\ organization' = [organization EXCEPT ![o] = Gone] /\ enrolled(o) = {}
        /\ UNCHANGED <<enrollment, rows, crm, req, stale>>
    BY <1>2 DEF DeleteOrganization
  <2>2. enrollment' = [e \in Ids |-> IF e \in {} THEN Gone ELSE enrollment[e]]
        /\ rows' = rows \ {}
    BY <1>1, <2>1
  <2>. QED
    BY <2>1, <2>2, Dropped
<1>3. ASSUME NEW o \in Orgs, DeleteOrganizationForResync(o)
      PROVE  IInv' /\ (EntitlementsConsistent => EntitlementsConsistent')
  <2>. DEFINE E == enrolled(o)
  <2>1. /\ organization' = [organization EXCEPT ![o] = Gone] /\ E \in SUBSET Ids
        /\ enrollment' = [e \in Ids |-> IF e \in E THEN Gone ELSE enrollment[e]]
        /\ rows' = rows \ E /\ UNCHANGED <<crm, req, stale>>
    BY <1>3 DEF DeleteOrganizationForResync, Removed, enrolled, live
  <2>. QED
    BY <2>1, Dropped
<1>4. ASSUME NEW p, DeleteProgram(p)
      PROVE  IInv' /\ (EntitlementsConsistent => EntitlementsConsistent')
  <2>. DEFINE E == {e \in live : programOf[e] = p}
  <2>1. /\ organization' = organization /\ E \in SUBSET Ids /\ E # {}
        /\ enrollment' = [e \in Ids |-> IF e \in E THEN Gone ELSE enrollment[e]]
        /\ rows' = rows \ E /\ UNCHANGED <<crm, req, stale>>
    BY <1>4 DEF DeleteProgram, Removed, live
  <2>2. \E o : o \in Orgs
    BY <2>1, LiveRow DEF IInv
  <2>. HIDE DEF E
  <2>. QED
    BY <2>1, <2>2, Dropped
<1>. QED
  BY <1>2, <1>3, <1>4

-----------------------------------------------------------------------------
(* The resynchronization                                                       *)

LEMMA EntitledRow ==
    ASSUME NEW row \in EnrollmentRows, NEW z \in CrmRows
    PROVE  /\ entitlement(row, z) \in EnrollmentRows
           /\ entitlement(row, z).org = row.org
           /\ entitlement(row, z).version = row.version
           /\ entitlement(row, z).name = z.name
           /\ entitlement(row, z).paid = [filter |-> z.filter, rd |-> z.rd, kia |-> z.kia]
           /\ \A b : Consistent(row, b) => Consistent(entitlement(row, z), b)
<1>. DEFINE granted == (IF z.rd THEN {"RD"} ELSE {}) \cup (IF z.kia THEN {"KIA"} ELSE {})
                         \cup (IF z.filter THEN {"SEV"} ELSE {})
            revoked == IF row.zohoSorting /\ ~z.filter THEN {"SEV"} ELSE {}
            access == (row.access \ revoked) \cup granted
            filter == z.filter \/ (row.filter /\ revoked = {})
            status == IF z.kia /\ row.status = "none" THEN "Processing" ELSE row.status
            paid == [filter |-> z.filter, rd |-> z.rd, kia |-> z.kia]
<1>1. entitlement(row, z) = [row EXCEPT !.access = access, !.filter = filter,
                               !.zohoSorting = z.filter, !.status = status, !.name = z.name,
                               !.paid = paid]
  BY DEF entitlement, EnrollmentRows
<1>2. /\ access \in SUBSET (Products \cup {"CR"}) /\ filter \in BOOLEAN
      /\ z.filter \in BOOLEAN /\ status \in {"none", "Processing", "Delivered"}
      /\ z.name \in Names /\ paid \in [filter : BOOLEAN, rd : BOOLEAN, kia : BOOLEAN]
  BY DEF EnrollmentRows, CrmRows, Products
<1>3. /\ row.status # "Delivered" => status # "Delivered"
      /\ "KIA" \in row.access => "KIA" \in access
      /\ ("SEV" \in row.access => row.filter) => ("SEV" \in access => filter)
  OBVIOUS
<1>. HIDE DEF access, filter, status, paid
<1>4. /\ entitlement(row, z) \in EnrollmentRows
      /\ entitlement(row, z).org = row.org
      /\ entitlement(row, z).version = row.version
      /\ entitlement(row, z).name = z.name
      /\ entitlement(row, z).paid = paid
      /\ entitlement(row, z).access = access
      /\ entitlement(row, z).status = status
      /\ entitlement(row, z).filter = filter
  BY <1>1, <1>2 DEF EnrollmentRows
<1>5. \A b : Consistent(row, b) => Consistent(entitlement(row, z), b)
  BY <1>3, <1>4 DEF Consistent
<1>. QED
  BY <1>4, <1>5 DEF paid

\* What is matched is as it was read, also its organization.
LEMMA ResyncRow ==
    ASSUME IInv, NEW s \in Slots, req[s].op = "resync", req[s].pc = "commit",
           NEW m \in matching(req[s]).matches, unchanged(req[s], m)
    PROVE  LET p == req[s]
           IN /\ m[1] \in live /\ p.rows[m[1]] = enrollment[m[1]]
              /\ p.crm[m[2]] \in CrmRows
              /\ nextValues(p, m).account \in Accounts \cup {NoAccount}
              /\ nextValues(p, m).name \in Names
              /\ organization[enrollment[m[1]].org] \in OrgRows
<1>. DEFINE p == req[s]
<1>1. m[1] \in DOMAIN p.rows /\ m[2] \in Companies
  BY Matched
<1>2. /\ AsRead(m[1], p.rows[m[1]], enrollment) /\ m[1] \in Ids
      /\ p.orgs[p.rows[m[1]].org] \in OrgRows /\ p.crm[m[2]] \in CrmRows
  <2>1. GoodRequest(p, enrollment) /\ p.op = "resync" /\ p.pc = "commit"
    BY DEF IInv
  <2>. HIDE DEF p
  <2>. QED
    BY <1>1, <2>1 DEF GoodRequest, Reads
<1>3. enrollment[m[1]] # Gone /\ enrollment[m[1]].version = p.rows[m[1]].version
  BY DEF unchanged
<1>4. m[1] \in live
  BY <1>2, <1>3 DEF live
<1>5. p.rows[m[1]] = enrollment[m[1]]
  BY <1>2, <1>3, Versions DEF AsRead
<1>6. organization[enrollment[m[1]].org] \in OrgRows
  BY <1>4, LiveRow DEF IInv
<1>7. /\ nextValues(p, m).account \in Accounts \cup {NoAccount}
      /\ nextValues(p, m).name \in Names
  BY <1>2 DEF nextValues, account, OrgRows, CrmRows
<1>. QED
  BY <1>2, <1>4, <1>5, <1>6, <1>7

\* The name and the purchases of an enrollment change to what was reviewed, of the
\* version that is replaced, or the name to one that was read of another version.
Permitted(e, row) ==
    /\ row.paid # enrollment[e].paid => \E s \in Slots : Reviewed(s, e, row)
    /\ row.name # enrollment[e].name =>
         \E s \in Slots : Reviewed(s, e, row) \/ ReadEarlier(s, e, row.name)

LEMMA RevisionOf ==
    ASSUME NEW p, NEW found, NEW m \in found.matches
    PROVE  /\ \E v \in revision(p, found).versions :
                v[1] = m[1] /\ v[2] = p.rows[m[1]].version
           /\ nextValues(p, m) # values(p.rows[m[1]], p.orgs[p.rows[m[1]].org]) =>
                <<m[1], nextValues(p, m)>> \in revision(p, found).changed
<1>. DEFINE changed == {<<n[1], nextValues(p, n)>> :
                          n \in {k \in found.matches :
                            nextValues(p, k) # values(p.rows[k[1]], p.orgs[p.rows[k[1]].org])}}
            versions == {<<n[1], p.rows[n[1]].version, p.orgs[p.rows[n[1]].org]>> :
                           n \in found.matches}
<1>1. revision(p, found).changed = changed /\ revision(p, found).versions = versions
  BY DEF revision
<1>2. <<m[1], p.rows[m[1]].version, p.orgs[p.rows[m[1]].org]>> \in versions
  OBVIOUS
<1>3. nextValues(p, m) # values(p.rows[m[1]], p.orgs[p.rows[m[1]].org]) =>
        <<m[1], nextValues(p, m)>> \in changed
  OBVIOUS
<1>. DEFINE v == <<m[1], p.rows[m[1]].version, p.orgs[p.rows[m[1]].org]>>
<1>4. v[1] = m[1] /\ v[2] = p.rows[m[1]].version
  OBVIOUS
<1>. HIDE DEF changed, versions, v
<1>. QED
  BY <1>1, <1>2, <1>3, <1>4 DEF v

LEMMA ResyncReviewed ==
    ASSUME IInv, NEW s \in Slots, req[s].op = "resync", req[s].pc = "commit",
           NEW m \in matching(req[s]).matches, unchanged(req[s], m),
           NEW row, row.name = req[s].crm[m[2]].name,
           row.paid = [filter |-> req[s].crm[m[2]].filter, rd |-> req[s].crm[m[2]].rd,
                       kia |-> req[s].crm[m[2]].kia]
    PROVE  Permitted(m[1], row)
<1>. DEFINE p == req[s]
            next == nextValues(p, m)
            was == values(p.rows[m[1]], p.orgs[p.rows[m[1]].org])
<1>1. p.rows[m[1]] = enrollment[m[1]]
  BY ResyncRow
<1>2. revision(p, matching(p)) = p.revision
  BY DEF IInv, GoodRequest
<1>3. next.name = row.name /\ next.paid = row.paid
  BY DEF nextValues
<1>4. was.name = enrollment[m[1]].name /\ was.paid = enrollment[m[1]].paid
  BY <1>1 DEF values
<1>5. \E v \in p.revision.versions : v[1] = m[1] /\ v[2] = enrollment[m[1]].version
  <2>. DEFINE found == matching(p)
  <2>1. m \in found.matches /\ revision(p, found) = p.revision
    BY <1>2
  <2>. HIDE DEF found, p
  <2>2. \E v \in revision(p, found).versions :
          v[1] = m[1] /\ v[2] = p.rows[m[1]].version
    BY <2>1, RevisionOf
  <2>. QED
    BY <1>1, <2>1, <2>2
<1>6. next # was => <<m[1], next>> \in p.revision.changed
  BY <1>2, RevisionOf
<1>. HIDE DEF next, was
<1>7. ASSUME enrollment[m[1]].name # row.name \/ enrollment[m[1]].paid # row.paid
      PROVE  Reviewed(s, m[1], row)
  <2>1. next # was
    BY <1>3, <1>4, <1>7
  <2>. QED
    BY <1>3, <1>5, <1>6, <2>1 DEF Reviewed
<1>. QED
  BY <1>7 DEF Permitted

\* The row that a resynchronization makes of what it read, whatever company is chosen.
LEMMA ResyncedRow ==
    ASSUME IInv, NEW s \in Slots, req[s].op = "resync", req[s].pc = "commit",
           NEW m \in matching(req[s]).matches, unchanged(req[s], m),
           enrollment[m[1]].version < MaxVersion,
           NEW row, row = Touched([entitlement(req[s].rows[m[1]], req[s].crm[m[2]]) EXCEPT
                                     !.org = enrollment[m[1]].org,
                                     !.version = enrollment[m[1]].version])
    PROVE  /\ Replaces(row, enrollment[m[1]])
           /\ \A b : Consistent(enrollment[m[1]], b) => Consistent(row, b)
           /\ Permitted(m[1], row)
<1>. DEFINE p == req[s]
            e == m[1]
            z == p.crm[m[2]]
            was == enrollment[e]
            new == entitlement(was, z)
<1>1. p.rows[e] = was /\ z \in CrmRows /\ was \in EnrollmentRows /\ was.version < MaxVersion
  BY ResyncRow, LiveRow DEF IInv
<1>2. row = Touched([new EXCEPT !.org = was.org, !.version = was.version])
  BY <1>1
<1>. HIDE DEF z, was
<1>3. /\ new \in EnrollmentRows /\ new.org = was.org /\ new.version = was.version
      /\ new.name = z.name /\ new.paid = [filter |-> z.filter, rd |-> z.rd, kia |-> z.kia]
      /\ \A b : Consistent(was, b) => Consistent(new, b)
  BY <1>1, EntitledRow
<1>. HIDE DEF new
<1>4. [new EXCEPT !.org = was.org, !.version = was.version] = new
  BY <1>3 DEF EnrollmentRows
<1>5. row = Touched(new)
  BY <1>2, <1>4
<1>6. /\ Replaces(row, was)
      /\ \A b : Consistent(row, b) <=> Consistent(new, b)
  BY <1>1, <1>3, <1>5, TouchedReplaces
<1>7. row.name = new.name /\ row.paid = new.paid
  BY <1>3, <1>5 DEF Touched, EnrollmentRows
<1>8. Permitted(e, row)
  BY <1>3, <1>7, ResyncReviewed DEF z
<1>. QED
  BY <1>3, <1>6, <1>8 DEF was

LEMMA BoundOrganization ==
    ASSUME IInv, NEW s \in Slots, req[s].op = "resync", req[s].pc = "commit",
           NEW o \in Orgs, NEW m \in matching(req[s]).matches, unchanged(req[s], m),
           req[s].rows[m[1]].org = o
    PROVE  /\ organization[o] # Gone
           /\ [organization[o] EXCEPT !.account = nextValues(req[s], m).account,
                                      !.name = nextValues(req[s], m).name] \in OrgRows
<1>. DEFINE new == nextValues(req[s], m)
<1>1. /\ organization[o] \in OrgRows
      /\ new.account \in Accounts \cup {NoAccount} /\ new.name \in Names
  BY ResyncRow
<1>. HIDE DEF new
<1>2. [organization[o] EXCEPT !.account = new.account, !.name = new.name] \in OrgRows
  BY <1>1 DEF OrgRows
<1>. QED
  BY <1>1, <1>2, EntitlementsAssumption DEF new

LEMMA ResyncKeeps ==
    ASSUME IInv, NEW s \in Slots, Resync(s)
    PROVE  /\ IInv' /\ (EntitlementsConsistent => EntitlementsConsistent')
           /\ \A e \in Ids : Gone \notin {enrollment[e], enrollment'[e]} =>
                               Permitted(e, enrollment'[e])
<1>. DEFINE p       == req[s]
            matches == matching(p).matches
            ids     == {m[1] : m \in matches}
            pick(e) == CHOOSE m \in matches : m[1] = e
            of(o)   == {m \in matches : p.rows[m[1]].org = o}
            new(o)  == nextValues(p, CHOOSE m \in of(o) : TRUE)
            bound   == [o \in Orgs |->
                          IF of(o) = {} THEN organization[o]
                          ELSE [organization[o] EXCEPT !.account = new(o).account,
                                                       !.name = new(o).name]]
            row(e)  == Touched([entitlement(p.rows[e], p.crm[pick(e)[2]]) EXCEPT
                                  !.org = enrollment[e].org, !.version = enrollment[e].version])
            Allowed == (\A m \in matches : unchanged(p, m)) /\ uniqueAccounts(bound)
<1>1. p.op = "resync" /\ p.pc = "commit" /\ Return(s) /\ UNCHANGED <<rows, crm, stale>>
  BY DEF Resync
<1>2. CASE ~Allowed
  <2>1. UNCHANGED <<enrollment, organization>>
    BY <1>2 DEF Resync
  <2>2. IInv'
    BY <1>1, <2>1, Returned, ReadKeeps DEF IInv, DbInv
  <2>. QED
    BY <1>1, <2>1, <2>2 DEF EntitlementsConsistent, live, Permitted
<1>3. CASE Allowed
  <2>1. /\ \A e \in ids : enrollment[e].version < MaxVersion
        /\ enrollment' = [e \in Ids |-> IF e \notin ids THEN enrollment[e] ELSE row(e)]
        /\ organization' = bound
    BY <1>3 DEF Resync
  <2>2. ASSUME NEW e \in ids
        PROVE  /\ enrollment[e] # Gone /\ Replaces(row(e), enrollment[e])
               /\ \A b : Consistent(enrollment[e], b) => Consistent(row(e), b)
               /\ Permitted(e, row(e))
    <3>. DEFINE m == pick(e)
    <3>1. m \in matches /\ m[1] = e
      <4>1. \E n \in matches : n[1] = e
        OBVIOUS
      <4>. QED
        BY <4>1
    <3>2. unchanged(p, m) /\ enrollment[m[1]].version < MaxVersion
      BY <1>3, <2>1, <3>1
    <3>3. row(e) = Touched([entitlement(p.rows[m[1]], p.crm[m[2]]) EXCEPT
                              !.org = enrollment[m[1]].org, !.version = enrollment[m[1]].version])
      BY <3>1
    <3>. HIDE DEF row, m
    <3>4. m[1] \in live
      BY <1>1, <3>1, <3>2, ResyncRow
    <3>. QED
      BY <1>1, <3>1, <3>2, <3>3, <3>4, ResyncedRow DEF live
  <2>3. ASSUME NEW o \in Orgs
        PROVE  /\ bound[o] \in OrgRows \cup {Gone}
               /\ organization[o] # Gone => bound[o] # Gone
    <3>1. CASE of(o) = {}
      BY <3>1 DEF IInv, DbInv
    <3>2. CASE of(o) # {}
      <4>. DEFINE m == CHOOSE n \in of(o) : TRUE
      <4>1. m \in of(o)
        BY <3>2
      <4>2. m \in matches /\ p.rows[m[1]].org = o /\ unchanged(p, m)
        BY <1>3, <4>1
      <4>3. bound[o] = [organization[o] EXCEPT !.account = nextValues(p, m).account,
                                               !.name = nextValues(p, m).name]
        BY <3>2
      <4>. HIDE DEF m, bound, Allowed, of
      <4>4. [organization[o] EXCEPT !.account = nextValues(p, m).account,
                                    !.name = nextValues(p, m).name] \in OrgRows
        BY <1>1, <4>2, BoundOrganization
      <4>. QED
        BY <4>3, <4>4, EntitlementsAssumption
    <3>. QED
      BY <3>1, <3>2
  <2>4. DOMAIN bound = Orgs /\ bound = [o \in Orgs |-> bound[o]]
    OBVIOUS
  <2>5. uniqueAccounts(bound)
    BY <1>3
  <2>. HIDE DEF row, bound, ids
  <2>6. PICK F : F = enrollment'
    OBVIOUS
  <2>7. /\ F = [e \in Ids |-> F[e]]
        /\ \A e \in Ids : F[e] = IF e \notin ids THEN enrollment[e] ELSE row(e)
    BY <2>1, <2>6
  <2>8. /\ organization' \in [Orgs -> OrgRows \cup {Gone}] /\ uniqueAccounts(organization')
        /\ \A o \in Orgs : organization[o] # Gone => organization'[o] # Gone
    BY <2>1, <2>3, <2>4, <2>5
  <2>9. \A e \in Ids : \/ F[e] \in {Gone, enrollment[e]}
                       \/ enrollment[e] # Gone /\ Replaces(F[e], enrollment[e])
    BY <2>2, <2>7
  <2>10. \A e \in rows' : e \in Ids /\ F[e] # Gone
    <3>1. ASSUME NEW e \in rows PROVE e \in Ids /\ enrollment[e] # Gone
      BY <3>1 DEF IInv, DbInv, live
    <3>. QED
      BY <1>1, <2>9, <3>1, <2>7, <2>2, EntitlementsAssumption DEF Replaces
  <2>11. stale' \subseteq Ids
    BY <1>1 DEF IInv, DbInv
  <2>12. DbInv' /\ Advances(enrollment, F)
    BY <1>1, <2>6, <2>7, <2>8, <2>9, <2>10, <2>11, Replaced
  <2>13. IInv'
    BY <1>1, <2>6, <2>12, Returned, Keeps
  <2>14. ASSUME EntitlementsConsistent, NEW e \in Ids, F[e] # Gone, e \notin stale
         PROVE  Consistent(F[e], e \in rows)
    <3>1. e \in live \ stale
      BY <2>2, <2>7, <2>14 DEF live
    <3>2. Consistent(enrollment[e], e \in rows)
      BY <2>14, <3>1, ConsistentRows
    <3>. QED
      BY <2>2, <2>7, <3>2
  <2>15. \A e \in Ids : Permitted(e, F[e])
    BY <2>2, <2>7 DEF Permitted
  <2>. QED
    BY <1>1, <2>6, <2>13, <2>14, <2>15 DEF EntitlementsConsistent, Consistent, live
<1>. QED
  BY <1>2, <1>3

-----------------------------------------------------------------------------
(* Merges that a plan accepts                                                  *)

LEMMA EligibleMerge ==
    ASSUME DbInv, NEW D, NEW r \in D, GoodConflict(r), eligible(r, D)
    PROVE  /\ r.id \in live /\ enrollment[r.id].org = r.source
           /\ r.source \in Orgs /\ r.target \in Orgs /\ r.target # r.source
           /\ organization[r.source] \in OrgRows /\ organization[r.target] \in OrgRows
           /\ r.account # NoAccount /\ organization[r.target].account = r.account
           /\ programs(r.source) \cap programs(r.target) = {}
           /\ \A d \in D : d.source = r.source => d.account = r.account
<1>1. /\ r.target \in Orgs /\ r.target \notin {Nothing, r.source} /\ r.source \in Orgs
      /\ r.account # NoAccount
  BY DEF GoodConflict, eligible
<1>2. organization[r.source] # Gone /\ organization[r.target] # Gone
  BY DEF eligible
<1>. QED
  BY <1>1, <1>2 DEF eligible, enrolled, DbInv

\* What a plan accepts: an organization goes to one other, which stays.
Accepted(merges) ==
    /\ \A r \in merges :
         /\ r.id \in live /\ enrollment[r.id].org = r.source
         /\ r.source \in Orgs /\ r.target \in Orgs
         /\ organization[r.source] \in OrgRows /\ organization[r.target] \in OrgRows
         /\ organization[r.target].account = r.account
         /\ programs(r.source) \cap programs(r.target) = {}
    /\ \A r, q \in merges : /\ r.target # q.source
                            /\ r.source = q.source => r.target = q.target
                            /\ r.target = q.target /\ r # q =>
                                 programs(r.source) \cap programs(q.source) = {}

LEMMA PlanAccepts ==
    ASSUME DbInv, NEW D, \A d \in D : GoodConflict(d), NEW merges \in SUBSET D, plan(merges, D)
    PROVE  Accepted(merges)
<1>1. \A r \in merges : r \in D /\ GoodConflict(r) /\ eligible(r, D)
  BY DEF plan
<1>2. ASSUME NEW r \in merges, NEW q \in merges, r.source = q.source PROVE r.target = q.target
  <2>1. r.account = q.account
    BY <1>1, <1>2, EligibleMerge
  <2>2. /\ organization[r.target] \in OrgRows /\ organization[q.target] \in OrgRows
        /\ organization[r.target].account = organization[q.target].account
        /\ organization[r.target].account # NoAccount
        /\ r.target \in Orgs /\ q.target \in Orgs
    BY <1>1, <2>1, EligibleMerge
  <2>. QED
    BY <2>2, EntitlementsAssumption DEF DbInv, uniqueAccounts
<1>3. \A r, q \in merges : /\ r.target # q.source
                           /\ r.target = q.target /\ r # q =>
                                programs(r.source) \cap programs(q.source) = {}
  BY DEF plan
<1>4. \A r \in merges :
         /\ r.id \in live /\ enrollment[r.id].org = r.source
         /\ r.source \in Orgs /\ r.target \in Orgs
         /\ organization[r.source] \in OrgRows /\ organization[r.target] \in OrgRows
         /\ organization[r.target].account = r.account
         /\ programs(r.source) \cap programs(r.target) = {}
  BY <1>1, EligibleMerge
<1>. QED
  BY <1>2, <1>3, <1>4 DEF Accepted

LEMMA MovedRow ==
    ASSUME DbInv, NEW merges, Accepted(merges), NEW e \in live
    PROVE  /\ \A r \in merges : enrollment[e].org = r.source =>
                moved(merges)[e] = Touched([enrollment[e] EXCEPT !.org = r.target])
           /\ (\A r \in merges : enrollment[e].org # r.source) =>
                moved(merges)[e] = enrollment[e]
<1>. DEFINE from == {r.source : r \in merges}
            to == (CHOOSE r \in merges : r.source = enrollment[e].org).target
<1>1. e \in Ids /\ enrollment[e] \in EnrollmentRows
  BY LiveRow
<1>2. moved(merges)[e] = IF enrollment[e].org \in from
                           THEN Touched([enrollment[e] EXCEPT !.org = to]) ELSE enrollment[e]
  BY <1>1 DEF moved, EnrollmentRows
<1>3. ASSUME NEW r \in merges, enrollment[e].org = r.source
      PROVE  enrollment[e].org \in from /\ to = r.target
  <2>1. \E q \in merges : q.source = enrollment[e].org
    BY <1>3
  <2>. DEFINE q == CHOOSE q \in merges : q.source = enrollment[e].org
  <2>2. q \in merges /\ q.source = enrollment[e].org
    BY <2>1
  <2>. HIDE DEF q
  <2>3. q.target = r.target
    BY <1>3, <2>2 DEF Accepted
  <2>. QED
    BY <1>3, <2>3 DEF q
<1>. HIDE DEF to
<1>. QED
  BY <1>2, <1>3

\* Where an enrollment is afterwards.
LEMMA MovedOrg ==
    ASSUME DbInv, NEW merges, Accepted(merges), NEW e \in live
    PROVE  \/ /\ moved(merges)[e].org = enrollment[e].org
              /\ \A r \in merges : enrollment[e].org # r.source
           \/ \E r \in merges : /\ enrollment[e].org = r.source
                                /\ moved(merges)[e].org = r.target
<1>1. enrollment[e] \in EnrollmentRows
  BY LiveRow
<1>2. ASSUME NEW r \in merges, enrollment[e].org = r.source
      PROVE  moved(merges)[e].org = r.target
  <2>1. moved(merges)[e] = Touched([enrollment[e] EXCEPT !.org = r.target])
    BY <1>2, MovedRow
  <2>. QED
    BY <1>1, <2>1 DEF Touched, EnrollmentRows
<1>3. CASE \A r \in merges : enrollment[e].org # r.source
  BY <1>3, MovedRow
<1>. QED
  BY <1>2, <1>3

LEMMA ProgramsOf ==
    ASSUME NEW e \in live PROVE programOf[e] \in programs(enrollment[e].org)
BY DEF programs, enrolled

LEMMA AcceptedUnique ==
    ASSUME DbInv, NEW merges, Accepted(merges)
    PROVE  uniqueEnrollments(moved(merges))
<1>. DEFINE E == moved(merges)
<1>1. \A e \in Ids : E[e] # Gone => e \in live
  BY DEF moved, live
<1>2. SUFFICES ASSUME NEW e \in live, NEW f \in live, e # f, programOf[e] = programOf[f]
               PROVE  E[e].org # E[f].org
  BY <1>1 DEF uniqueEnrollments
<1>. DEFINE at(g) == enrollment[g].org
<1>3. at(e) # at(f)
  BY <1>2 DEF DbInv, uniqueEnrollments, live
<1>4. programOf[e] \in programs(at(e)) /\ programOf[e] \in programs(at(f))
  BY <1>2, ProgramsOf
<1>5. \/ E[e].org = at(e) /\ \A r \in merges : at(e) # r.source
      \/ \E r \in merges : at(e) = r.source /\ E[e].org = r.target
  BY MovedOrg
<1>6. \/ E[f].org = at(f) /\ \A r \in merges : at(f) # r.source
      \/ \E r \in merges : at(f) = r.source /\ E[f].org = r.target
  BY MovedOrg
<1>. HIDE DEF E, at
<1>7. ASSUME NEW r \in merges, at(e) = r.source, E[e].org = r.target, E[f].org = at(f)
      PROVE  E[e].org # E[f].org
  BY <1>4, <1>7 DEF Accepted
<1>8. ASSUME NEW r \in merges, at(f) = r.source, E[f].org = r.target, E[e].org = at(e)
      PROVE  E[e].org # E[f].org
  BY <1>4, <1>8 DEF Accepted
<1>9. ASSUME NEW r \in merges, at(e) = r.source, E[e].org = r.target,
             NEW q \in merges, at(f) = q.source, E[f].org = q.target
      PROVE  E[e].org # E[f].org
  BY <1>3, <1>4, <1>9 DEF Accepted
<1>. QED
  BY <1>3, <1>5, <1>6, <1>7, <1>8, <1>9

\* What is left of an organization: nothing of a source, and the account of the others.
LEMMA MergedOrg ==
    ASSUME DbInv, NEW merges, Accepted(merges), NEW o \in Orgs
    PROVE  /\ (\E r \in merges : r.source = o) => merged(merges)[o] = Gone
           /\ (\A r \in merges : r.source # o) =>
                /\ merged(merges)[o] \in OrgRows \cup {Gone}
                /\ organization[o] = Gone <=> merged(merges)[o] = Gone
                /\ organization[o] # Gone => merged(merges)[o].account = organization[o].account
<1>. DEFINE joining == {r \in merges : r.target = o}
            C == customers({r.source : r \in joining})
            row == IF joining = {} \/ organization[o].customer # NoCustomer \/ C = {}
                     THEN organization[o]
                     ELSE [organization[o] EXCEPT !.customer = CHOOSE c \in C : TRUE]
<1>1. merged(merges)[o] = IF \E r \in merges : r.source = o THEN Gone ELSE row
  BY DEF merged
<1>2. row \in OrgRows \cup {Gone} /\ (organization[o] = Gone <=> row = Gone)
      /\ (organization[o] # Gone => row.account = organization[o].account)
  <2>1. CASE joining = {} \/ organization[o].customer # NoCustomer \/ C = {}
    BY <2>1 DEF DbInv
  <2>2. CASE ~(joining = {} \/ organization[o].customer # NoCustomer \/ C = {})
    <3>. DEFINE c == CHOOSE c \in C : TRUE
    <3>1. organization[o] \in OrgRows
      BY <2>2 DEF Accepted
    <3>2. C \subseteq Customers
      <4>1. \A r \in joining : organization[r.source] \in OrgRows
        BY DEF Accepted
      <4>2. ASSUME NEW x \in C PROVE x \in Customers
        <5>1. PICK q \in {r.source : r \in joining} : x = organization[q].customer /\ x # NoCustomer
          BY <4>2 DEF customers
        <5>2. organization[q] \in OrgRows
          BY <4>1, <5>1
        <5>. QED
          BY <5>1, <5>2 DEF OrgRows
      <4>. QED
        BY <4>2
    <3>3. c \in Customers
      BY <2>2, <3>2
    <3>4. row = [organization[o] EXCEPT !.customer = c]
      BY <2>2
    <3>. HIDE DEF c, row
    <3>5. row \in OrgRows /\ row.account = organization[o].account
      BY <3>1, <3>3, <3>4 DEF OrgRows
    <3>. QED
      BY <3>1, <3>5, EntitlementsAssumption
  <2>. QED
    BY <2>1, <2>2
<1>. HIDE DEF row
<1>. QED
  BY <1>1, <1>2

LEMMA AcceptedOrganizations ==
    ASSUME DbInv, NEW merges, Accepted(merges)
    PROVE  /\ merged(merges) \in [Orgs -> OrgRows \cup {Gone}]
           /\ uniqueAccounts(merged(merges))
           /\ \A e \in live : merged(merges)[moved(merges)[e].org] # Gone
           /\ \A r \in merges : merged(merges)[moved(merges)[r.id].org].account = r.account
<1>. DEFINE O == merged(merges)
<1>1. \A o \in Orgs : /\ O[o] \in OrgRows \cup {Gone}
                      /\ O[o] # Gone => /\ organization[o] # Gone
                                        /\ O[o].account = organization[o].account
  BY MergedOrg
<1>2. O \in [Orgs -> OrgRows \cup {Gone}]
  <2>1. O = [o \in Orgs |-> O[o]]
    BY DEF merged
  <2>. HIDE DEF O
  <2>. QED
    BY <1>1, <2>1
<1>3. uniqueAccounts(O)
  <2>. HIDE DEF O
  <2>. QED
    BY <1>1 DEF uniqueAccounts, DbInv
<1>4. ASSUME NEW r \in merges PROVE O[r.target] # Gone /\ O[r.target].account = r.account
  <2>1. /\ r.target \in Orgs /\ organization[r.target] \in OrgRows
        /\ organization[r.target].account = r.account
        /\ \A q \in merges : q.source # r.target
    BY DEF Accepted
  <2>. QED
    BY <2>1, MergedOrg, EntitlementsAssumption
<1>5. ASSUME NEW e \in live PROVE O[moved(merges)[e].org] # Gone
  <2>1. CASE /\ moved(merges)[e].org = enrollment[e].org
             /\ \A r \in merges : enrollment[e].org # r.source
    <3>1. enrollment[e].org \in Orgs /\ organization[enrollment[e].org] # Gone
      BY LiveRow, EntitlementsAssumption
    <3>. QED
      BY <2>1, <3>1, MergedOrg
  <2>2. CASE \E r \in merges : /\ enrollment[e].org = r.source
                               /\ moved(merges)[e].org = r.target
    BY <2>2, <1>4
  <2>. QED
    BY <2>1, <2>2, MovedOrg
<1>6. ASSUME NEW r \in merges PROVE O[moved(merges)[r.id].org].account = r.account
  <2>1. r.id \in live /\ enrollment[r.id].org = r.source
    BY DEF Accepted
  <2>2. PICK q \in merges : enrollment[r.id].org = q.source /\ moved(merges)[r.id].org = q.target
    BY <2>1, MovedOrg
  <2>3. q.target = r.target
    BY <2>1, <2>2 DEF Accepted
  <2>. QED
    BY <1>4, <2>2, <2>3
<1>. QED
  BY <1>2, <1>3, <1>5, <1>6

LEMMA MergeKeeps ==
    ASSUME IInv, NEW s \in Slots, Merge(s)
    PROVE  /\ IInv' /\ (EntitlementsConsistent => EntitlementsConsistent')
           /\ \A e \in Ids : Gone \notin {enrollment[e], enrollment'[e]} =>
                               Permitted(e, enrollment'[e])
<1>. DEFINE D == req[s].conflicts
            merges == {r \in D : \E q \in req[s].revision.merges : r.id = q.id /\ ~r.blocked}
            Allowed == /\ plan(merges, D)
                       /\ planRevision(merges, D) = req[s].revision
                       /\ uniqueEnrollments(moved(merges))
<1>1. /\ req[s].op = "merge" /\ req[s].pc = "plan" /\ Return(s)
      /\ UNCHANGED <<rows, crm, stale>>
  BY DEF Merge
<1>2. CASE ~Allowed
  <2>1. UNCHANGED <<enrollment, organization>>
    BY <1>2 DEF Merge
  <2>2. IInv'
    BY <1>1, <2>1, Returned, ReadKeeps DEF IInv, DbInv
  <2>. QED
    BY <1>1, <2>1, <2>2 DEF EntitlementsConsistent, live, Permitted
<1>3. CASE Allowed
  <2>1. /\ \A e \in live : enrollment[e].version < MaxVersion
        /\ enrollment' = moved(merges) /\ organization' = merged(merges)
    BY <1>3 DEF Merge
  <2>2. \A d \in D : GoodConflict(d)
    BY <1>1 DEF IInv, GoodRequest, Reads
  <2>3. Accepted(merges) /\ uniqueEnrollments(moved(merges))
    <3>1. merges \in SUBSET D /\ plan(merges, D) /\ DbInv
      BY <1>3 DEF IInv
    <3>. QED
      BY <1>3, <2>2, <3>1, PlanAccepts
  <2>. HIDE DEF merges
  <2>4. PICK F : F = enrollment'
    OBVIOUS
  <2>5. F = moved(merges) /\ F = [e \in Ids |-> F[e]] /\ \A e \in Ids \ live : F[e] = Gone
    BY <2>1, <2>4 DEF moved, live
  <2>6. ASSUME NEW e \in live
        PROVE  /\ F[e] \in EnrollmentRows
               /\ F[e] = enrollment[e] \/ F[e].version = enrollment[e].version + 1
               /\ \A b : Consistent(enrollment[e], b) => Consistent(F[e], b)
               /\ F[e].name = enrollment[e].name /\ F[e].paid = enrollment[e].paid
    <3>1. enrollment[e] \in EnrollmentRows /\ enrollment[e].version < MaxVersion
      BY <2>1, LiveRow DEF IInv
    <3>2. CASE \A r \in merges : enrollment[e].org # r.source
      BY <2>3, <2>5, <3>1, <3>2, MovedRow DEF IInv
    <3>3. ASSUME NEW r \in merges, enrollment[e].org = r.source
          PROVE  /\ F[e] \in EnrollmentRows /\ F[e].version = enrollment[e].version + 1
                 /\ \A b : Consistent(enrollment[e], b) => Consistent(F[e], b)
                 /\ F[e].name = enrollment[e].name /\ F[e].paid = enrollment[e].paid
      <4>. DEFINE now == [enrollment[e] EXCEPT !.org = r.target]
      <4>1. F[e] = Touched(now) /\ r.target \in Orgs
        <5>1. moved(merges)[e] = Touched(now)
          BY <2>3, <3>3, MovedRow DEF IInv
        <5>. QED
          BY <2>3, <2>5, <3>3, <5>1 DEF Accepted
      <4>2. /\ now \in EnrollmentRows /\ now.version = enrollment[e].version
            /\ now.name = enrollment[e].name /\ now.paid = enrollment[e].paid
            /\ \A b : Consistent(enrollment[e], b) => Consistent(now, b)
        BY <3>1, <4>1 DEF EnrollmentRows, Consistent
      <4>. HIDE DEF now
      <4>3. Replaces(Touched(now), now) /\ \A b : Consistent(Touched(now), b) <=> Consistent(now, b)
        BY <3>1, <4>2, TouchedReplaces
      <4>4. Touched(now).name = now.name /\ Touched(now).paid = now.paid
        BY <4>2 DEF Touched, EnrollmentRows
      <4>. QED
        BY <4>1, <4>2, <4>3, <4>4 DEF Replaces
    <3>. QED
      BY <3>2, <3>3
  <2>7. \A e \in Ids : F[e] # Gone <=> e \in live
    BY <2>5, <2>6, EntitlementsAssumption DEF live
  <2>8. F \in [Ids -> EnrollmentRows \cup {Gone}]
    BY <2>5, <2>6
  <2>9. DbInv'
    <3>1. /\ organization' \in [Orgs -> OrgRows \cup {Gone}] /\ uniqueAccounts(organization')
          /\ \A e \in live : organization'[F[e].org] # Gone
      BY <2>1, <2>3, <2>5, AcceptedOrganizations DEF IInv
    <3>2. uniqueEnrollments(F) /\ live \subseteq Ids
      BY <2>3, <2>5 DEF live
    <3>3. rows' \subseteq {e \in Ids : F[e] # Gone} /\ stale' \subseteq Ids
          /\ crm' \in DOMAIN CrmTables
      BY <1>1, <2>7, <3>2 DEF IInv, DbInv
    <3>. QED
      BY <2>4, <2>7, <2>8, <3>1, <3>2, <3>3 DEF DbInv, live, uniqueEnrollments, uniqueAccounts
  <2>10. Advances(enrollment, F)
    BY <2>5, <2>6, <2>7 DEF Advances, live
  <2>11. IInv'
    BY <1>1, <2>4, <2>9, <2>10, Returned, Keeps
  <2>12. ASSUME EntitlementsConsistent, NEW e \in Ids, F[e] # Gone, e \notin stale
         PROVE  Consistent(F[e], e \in rows)
    <3>1. e \in live \ stale
      BY <2>7, <2>12
    <3>2. Consistent(enrollment[e], e \in rows)
      BY <2>12, <3>1, ConsistentRows
    <3>. QED
      BY <2>6, <3>1, <3>2
  <2>13. \A e \in Ids : F[e] # Gone => Permitted(e, F[e])
    BY <2>6, <2>7 DEF Permitted
  <2>. QED
    BY <1>1, <2>4, <2>11, <2>12, <2>13 DEF EntitlementsConsistent, Consistent, live
<1>. QED
  BY <1>2, <1>3

-----------------------------------------------------------------------------
(* Every step                                                                  *)

\* The other writers leave the purchases of an enrollment, and its name if they have
\* read the version that is stored.
LEMMA WriteNames ==
    ASSUME IInv, NEW s \in Slots, CommitWrite(s)
    PROVE  \A e \in Ids : Gone \notin {enrollment[e], enrollment'[e]} =>
                            Permitted(e, enrollment'[e])
<1>. DEFINE r   == req[s]
            id  == r.id
            now == enrollment[id]
            row == CASE r.op = "upload" -> uploaded(r.read, now)
                     [] r.op = "remove" -> removed(r.read, now)
                     [] r.op = "custom" -> customized(r.read, now)
                     [] OTHER           -> fulfilled(r.read, now, r.op)
<1>1. /\ id \in Ids /\ enrollment = [e \in Ids |-> enrollment[e]] /\ r.op \in Writes
      /\ AsRead(id, r.read, enrollment)
  BY DEF CommitWrite, IInv, DbInv, GoodRequest, Writes
<1>2. CASE now = Gone
  BY <1>2 DEF CommitWrite, Permitted
<1>3. CASE now # Gone
  <2>1. enrollment' = [enrollment EXCEPT ![id] = Touched(row)]
    BY <1>3 DEF CommitWrite
  <2>2. now \in EnrollmentRows
    BY <1>1, <1>3 DEF IInv, DbInv
  <2>3. DOMAIN row = DOMAIN now /\ row.paid = now.paid
        /\ row.name = IF r.op = "custom" THEN now.name ELSE r.read.name
    <3>1. CASE r.op = "upload"
      BY <2>2, <3>1 DEF uploaded, EnrollmentRows
    <3>2. CASE r.op = "remove"
      BY <2>2, <3>2 DEF removed, EnrollmentRows
    <3>3. CASE r.op = "custom"
      BY <2>2, <3>3 DEF customized, EnrollmentRows
    <3>4. CASE r.op \in Products
      BY <2>2, <3>4 DEF fulfilled, EnrollmentRows, Products
    <3>. QED
      BY <1>1, <3>1, <3>2, <3>3, <3>4 DEF Writes
  <2>4. row.name # now.name => ReadEarlier(s, id, row.name)
    <3>1. row.name # now.name => r.read # now /\ r.op # "custom"
      BY <2>3
    <3>2. r.read \in EnrollmentRows /\ (r.read.version = now.version => r.read = now)
      BY <1>1, <1>3, Versions DEF AsRead
    <3>3. r.read # Gone
      BY <3>2, EntitlementsAssumption
    <3>. HIDE DEF row
    <3>. QED
      BY <1>1, <2>3, <3>1, <3>2, <3>3 DEF ReadEarlier, Writes
  <2>. HIDE DEF row, now
  <2>5. Touched(row).name = row.name /\ Touched(row).paid = now.paid
    BY <2>2, <2>3 DEF Touched, EnrollmentRows
  <2>6. \A e \in Ids : enrollment'[e] = IF e = id THEN Touched(row) ELSE enrollment[e]
    BY <1>1, <2>1
  <2>. QED
    BY <2>4, <2>5, <2>6 DEF Permitted, now
<1>. QED
  BY <1>2, <1>3

LEMMA SwapNames ==
    ASSUME IInv, NEW s \in Slots, CommitSwap(s)
    PROVE  \A e \in Ids : Gone \notin {enrollment[e], enrollment'[e]} =>
                            Permitted(e, enrollment'[e])
<1>. DEFINE read == req[s].read
            all  == {e \in Ids : read[e] # Gone}
            row(e) == [enrollment[e] EXCEPT !.status = read[e].status, !.filter = read[e].filter,
                                            !.name = read[e].name]
<1>1. CASE \E e \in all : enrollment[e] = Gone
  BY <1>1 DEF CommitSwap, Permitted
<1>2. CASE ~ \E e \in all : enrollment[e] = Gone
  <2>1. enrollment' = [e \in Ids |-> IF e \notin all THEN enrollment[e] ELSE Touched(row(e))]
    BY <1>2 DEF CommitSwap
  <2>2. ASSUME NEW e \in all
        PROVE  Permitted(e, Touched(row(e)))
    <3>1. enrollment[e] \in EnrollmentRows
      BY <1>2 DEF IInv, DbInv
    <3>2. /\ Touched(row(e)).name = read[e].name
          /\ Touched(row(e)).paid = enrollment[e].paid
      BY <3>1 DEF Touched, EnrollmentRows
    <3>3. AsRead(e, read[e], enrollment) /\ req[s].op = "swap" /\ read[e] # Gone
      BY DEF CommitSwap, IInv, GoodRequest
    <3>4. read[e].version = enrollment[e].version => read[e] = enrollment[e]
      BY <3>1, <3>3, Versions, EntitlementsAssumption DEF AsRead
    <3>5. read[e].name # enrollment[e].name => ReadEarlier(s, e, read[e].name)
      BY <3>3, <3>4 DEF ReadEarlier
    <3>. QED
      BY <3>2, <3>5 DEF Permitted
  <2>. HIDE DEF row, all
  <2>3. \A e \in Ids : enrollment'[e] = IF e \notin all THEN enrollment[e] ELSE Touched(row(e))
    BY <2>1
  <2>4. \A e \in Ids \ all : Permitted(e, enrollment'[e])
    BY <2>3 DEF Permitted
  <2>5. \A e \in all : Permitted(e, enrollment'[e])
    <3>1. all \subseteq Ids
      BY DEF all
    <3>. QED
      BY <2>2, <2>3, <3>1
  <2>. QED
    BY <2>4, <2>5
<1>. QED
  BY <1>1, <1>2

LEMMA NextKeeps ==
    ASSUME IInv, [Next]_vars
    PROVE  /\ IInv' /\ (EntitlementsConsistent => EntitlementsConsistent')
           /\ \A e \in Ids : Gone \notin {enrollment[e], enrollment'[e]} =>
                               Permitted(e, enrollment'[e])
<1>1. ASSUME UNCHANGED <<enrollment, rows, stale>>
      PROVE  /\ EntitlementsConsistent => EntitlementsConsistent'
             /\ \A e \in Ids : Permitted(e, enrollment'[e])
  BY <1>1 DEF EntitlementsConsistent, live, Permitted
<1>2. ASSUME NEW s \in Slots,
             \/ \E op : \E e \in Ids : StartWrite(s, op, e)
             \/ \E op : ReadProgram(s, op)
             \/ StartSwap(s) \/ ListOrganizations(s) \/ CompareRevision(s) \/ FindConflicts(s)
             \/ Preview(s) \/ Fail(s) \/ \E merges : Plan(s, merges)
      PROVE  IInv' /\ UNCHANGED <<enrollment, rows, stale>>
  <2>1. IInv'
    BY <1>2, StartWriteKeeps, ReadProgramKeeps, StartSwapKeeps, ListOrganizationsKeeps,
       CompareRevisionKeeps, FindConflictsKeeps, ReadsKeep
  <2>2. UNCHANGED <<enrollment, rows, stale>>
    BY <1>2 DEF StartWrite, ReadProgram, StartSwap, ListOrganizations, CompareRevision,
                FindConflicts, Preview, Fail, Plan
  <2>. QED
    BY <2>1, <2>2
<1>3. CASE ChangeCrm
  BY <1>1, <1>3, ReadsKeep DEF ChangeCrm
<1>4. ASSUME \/ \E o \in Orgs : DeleteOrganization(o) \/ DeleteOrganizationForResync(o)
             \/ \E p : DeleteProgram(p)
      PROVE  /\ IInv' /\ (EntitlementsConsistent => EntitlementsConsistent')
             /\ \A e \in Ids : Gone \notin {enrollment[e], enrollment'[e]} =>
                                 Permitted(e, enrollment'[e])
  <2>1. \A e \in Ids : enrollment'[e] \in {Gone, enrollment[e]}
    BY <1>4 DEF DeleteOrganization, DeleteOrganizationForResync, DeleteProgram, Removed, IInv, DbInv
  <2>. QED
    BY <1>4, <2>1, DeletionsKeep DEF Permitted
<1>5. CASE UNCHANGED vars
  <2>1. IInv'
    BY <1>5, ReadKeeps DEF vars, Requested, IInv, DbInv
  <2>. QED
    BY <1>1, <1>5, <2>1 DEF vars
<1>6. ASSUME NEW s \in Slots, CommitWrite(s) \/ CommitSwap(s) \/ Resync(s) \/ Merge(s)
      PROVE  /\ IInv' /\ (EntitlementsConsistent => EntitlementsConsistent')
             /\ \A e \in Ids : Gone \notin {enrollment[e], enrollment'[e]} =>
                                 Permitted(e, enrollment'[e])
  BY <1>6, CommitWriteKeeps, WriteNames, CommitSwapKeeps, SwapNames, ResyncKeeps, MergeKeeps
<1>7. \/ \E s \in Slots :
           \/ \E op : \E e \in Ids : StartWrite(s, op, e)
           \/ \E op : ReadProgram(s, op)
           \/ StartSwap(s) \/ ListOrganizations(s) \/ CompareRevision(s) \/ FindConflicts(s)
           \/ Preview(s) \/ Fail(s) \/ \E merges : Plan(s, merges)
      \/ \E s \in Slots : CommitWrite(s) \/ CommitSwap(s) \/ Resync(s) \/ Merge(s)
      \/ \E o \in Orgs : DeleteOrganization(o) \/ DeleteOrganizationForResync(o)
      \/ \E p : DeleteProgram(p)
      \/ ChangeCrm \/ UNCHANGED vars
  BY DEF Next
<1>. HIDE DEF IInv
<1>. QED
  BY <1>1, <1>2, <1>3, <1>4, <1>5, <1>6, <1>7

LEMMA InitRows ==
    ASSUME Init
    PROVE  /\ \A e \in Ids : /\ enrollment[e] = Row(e) /\ Row(e) \in EnrollmentRows
                             /\ Row(e).org = InitialOrg[e] /\ Row(e).status # "Delivered"
                             /\ Row(e).access = {}
           /\ organization = InitialOrgs /\ DbInv
<1>1. ASSUME NEW e \in Ids
      PROVE  /\ Row(e) \in EnrollmentRows /\ Row(e).org = InitialOrg[e]
             /\ Row(e).status # "Delivered" /\ Row(e).access = {}
  <2>1. InitialOrg[e] \in Orgs /\ InitialOrgs[InitialOrg[e]].name \in Names /\ 0 \in 0..MaxVersion
    BY EntitlementsAssumption DEF OrgRows
  <2>. QED
    BY <2>1 DEF Row, EnrollmentRows
<1>2. /\ enrollment = [e \in Ids |-> Row(e)] /\ organization = InitialOrgs
      /\ rows = {} /\ stale = {} /\ crm \in DOMAIN CrmTables
  BY DEF Init
<1>3. enrollment \in [Ids -> EnrollmentRows \cup {Gone}]
      /\ organization \in [Orgs -> OrgRows \cup {Gone}]
  BY <1>1, <1>2, EntitlementsAssumption
<1>4. ASSUME NEW e \in Ids PROVE organization[enrollment[e].org] # Gone
  <2>1. enrollment[e].org = InitialOrg[e] /\ InitialOrg[e] \in Orgs
    BY <1>1, <1>2, EntitlementsAssumption
  <2>. QED
    BY <1>2, <2>1, EntitlementsAssumption
<1>5. uniqueAccounts(organization)
  BY <1>2, EntitlementsAssumption DEF uniqueAccounts
<1>6. uniqueEnrollments(enrollment)
  BY <1>1, <1>2, EntitlementsAssumption DEF uniqueEnrollments
<1>. QED
  BY <1>1, <1>2, <1>3, <1>4, <1>5, <1>6 DEF DbInv, live

LEMMA InitEstablishes == Init => IInv /\ EntitlementsConsistent
<1>. SUFFICES ASSUME Init PROVE IInv /\ EntitlementsConsistent
  OBVIOUS
<1>1. DbInv /\ req = [s \in Slots |-> Idle] /\ rows = {}
  BY InitRows DEF Init
<1>2. \A s \in Slots : GoodRequest(req[s], enrollment)
  BY <1>1, IdleGood
<1>3. EntitlementsConsistent
  BY <1>1, InitRows DEF EntitlementsConsistent, live
<1>. QED
  BY <1>1, <1>2, <1>3 DEF IInv

LEMMA Invariance == Spec => []IInv
<1>1. IInv /\ [Next]_vars => IInv'
  BY NextKeeps
<1>. QED
  BY <1>1, InitEstablishes, PTL DEF Spec

\* Every enrollment belongs to an organization that exists, organizations are enrolled
\* once in a program, and accounts of Zoho belong to one organization, whichever of the
\* writers comes when.
THEOREM TypeCorrect == Spec => []TypeOK
<1>1. IInv => TypeOK
  <2>. SUFFICES ASSUME IInv PROVE TypeOK
    OBVIOUS
  <2>1. \A e \in live : /\ organization[enrollment[e].org] # Gone
                        /\ enrollment[e] \in EnrollmentRows
    BY LiveRow DEF IInv, DbInv
  <2>2. \A e \in live : /\ enrollment[e].version \in 0..MaxVersion
                        /\ enrollment[e].access \subseteq Products \cup {"CR"}
                        /\ enrollment[e].status \in {"none", "Processing", "Delivered"}
    BY <2>1 DEF EnrollmentRows
  <2>. QED
    BY <2>1, <2>2 DEF TypeOK, IInv, DbInv
<1>. QED
  BY <1>1, Invariance, PTL

\* The columns of an enrollment that no request wrote from an old read agree.
THEOREM EntitlementsAgree == Spec => []EntitlementsConsistent
<1>1. IInv /\ EntitlementsConsistent /\ [Next]_vars => EntitlementsConsistent'
  BY NextKeeps
<1>. QED
  BY <1>1, InitEstablishes, Invariance, PTL DEF Spec

\* Merges that a plan accepts are not refused, lose no enrollment, and leave the
\* enrollments with organizations that have the accounts.
THEOREM PlansApply == Spec => []AcceptedPlansApply
<1>1. IInv => AcceptedPlansApply
  <2>. SUFFICES ASSUME IInv, NEW s \in Slots, req[s].op \in {"report", "merge"},
                       req[s].pc = "plan", NEW merges \in SUBSET req[s].conflicts,
                       plan(merges, req[s].conflicts)
                PROVE  /\ uniqueEnrollments(moved(merges))
                       /\ \A e \in live : merged(merges)[moved(merges)[e].org] # Gone
                       /\ \A r \in merges : merged(merges)[moved(merges)[r.id].org].account
                                              = r.account
    BY DEF AcceptedPlansApply
  <2>1. DbInv /\ \A d \in req[s].conflicts : GoodConflict(d)
    BY DEF IInv, GoodRequest, Reads
  <2>2. Accepted(merges)
    BY <2>1, PlanAccepts
  <2>. QED
    BY <2>1, <2>2, AcceptedUnique, AcceptedOrganizations
<1>. QED
  BY <1>1, Invariance, PTL

\* A resynchronization stores what was reviewed, over the version that was reviewed; no
\* other request changes the purchases of an enrollment, nor its name, unless it brings
\* back the name that it read of another version.
THEOREM ReviewedApplies == Spec => ReviewedIsApplied
<1>1. IInv /\ [Next]_vars =>
        [\A e \in Ids :
           Gone \notin {enrollment[e], enrollment'[e]} =>
             /\ enrollment'[e].paid # enrollment[e].paid =>
                  \E s \in Slots : Reviewed(s, e, enrollment'[e])
             /\ enrollment'[e].name # enrollment[e].name =>
                  \E s \in Slots : \/ Reviewed(s, e, enrollment'[e])
                                   \/ ReadEarlier(s, e, enrollment'[e].name)
        ]_vars
  BY NextKeeps DEF Permitted
<1>. QED
  BY <1>1, Invariance, PTL DEF Spec, ReviewedIsApplied
=============================================================================
